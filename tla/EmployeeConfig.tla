--------------------------- MODULE EmployeeConfig ---------------------------
(***************************************************************************)
(* The employee of src/employee.rs: one file, changed by the management    *)
(* operations of src/employee_management.rs under the write lock, and read *)
(* by every remote invocation of src/invoke_dispatch.rs under the read     *)
(* lock, which is released before the invocation is carried out.           *)
(*                                                                         *)
(* Name and description are left out, and so is every parameter of an      *)
(* invocation but cwd.  The platform CLI, the file system and Codex are    *)
(* external: the CLI answers with what the account can access then, or     *)
(* fails; any step of the file system may fail; the machine may stop, and  *)
(* a rename whose directory was not synced may then be undone.             *)
(***************************************************************************)
EXTENDS Naturals

CONSTANTS Managers, Callers, Workspaces, Dirs, None, Unsettled,
          MaxChanges, MaxCalls, MaxCrashes   \* bounds of a behaviour

ASSUME ConfigAssumption == /\ None \notin Dirs /\ None \notin Managers
                           /\ {MaxChanges, MaxCalls, MaxCrashes} \subseteq Nat

VARIABLES
    file,       \* employee.json as everybody reads it
    disk,       \* what of it survives a crash
    writer,     \* the manager that holds runtime_operation.write()
    readers,    \* the callers that hold runtime_operation.read()
    mgr,        \* mgr[m]: where a change stands, its request, its copy and the listing it got
    call,       \* call[c]: where an invocation stands, its workspace and its directory
    used,       \* changes, invocations and crashes so far
    inEffect,   \* history: every configuration the file ever held
    promised,   \* history: the last confirmed change, while no later one reached the file
    denied      \* history: workspaces confirmed to be out and not let in again since

vars == <<file, disk, writer, readers, mgr, call, used, inEffect, promised, denied>>
history == <<inEffect, promised, denied>>

Employee == [enabled : BOOLEAN, directory : Dirs \cup {None}, authorized : SUBSET Workspaces]
Requests == [kind : {"register", "update"}, enabled : BOOLEAN]
            \cup [kind : {"configure"}, directory : Dirs]
            \cup [kind : {"authorize"}, authorized : SUBSET Workspaces]
ASSUME NoneAssumption == None \notin Employee \cup Requests

Stages == {"idle", "waiting", "locked", "asking", "decided", "renamed"}
NoChange == [at |-> "idle", req |-> None, new |-> None, listed |-> {}]
NoCall == [at |-> "idle", workspace |-> None, directory |-> None]

registered(enabled) == [enabled |-> enabled, directory |-> None, authorized |-> {}]

\* Employee::authorize
Authorizes(e, w) == e # None /\ e.enabled /\ w \in e.authorized /\ e.directory # None

Init == /\ file \in Employee \cup {None}
        /\ disk = file
        /\ writer = None /\ readers = {}
        /\ mgr = [m \in Managers |-> NoChange]
        /\ call = [c \in Callers |-> NoCall]
        /\ used = [changes |-> 0, calls |-> 0, crashes |-> 0]
        /\ inEffect = {file}
        /\ promised = file
        /\ denied = {}

----------------------------------------------------------------------------
(* employee_management::change *)

\* The answer of a change: the guard goes with it.
Answer(m) == /\ writer' = None
             /\ mgr' = [mgr EXCEPT ![m] = NoChange]

Request(m) == \E r \in Requests :
    /\ mgr[m].at = "idle" /\ used.changes < MaxChanges
    /\ used' = [used EXCEPT !.changes = @ + 1]
    /\ mgr' = [mgr EXCEPT ![m] = [NoChange EXCEPT !.at = "waiting", !.req = r]]
    /\ UNCHANGED <<file, disk, writer, readers, call, history>>

\* Variant: only readers are waited for.
LockAmongReaders(m) ==
    /\ mgr[m].at = "waiting" /\ readers = {}
    /\ writer' = m
    /\ mgr' = [mgr EXCEPT ![m].at = "locked"]
    /\ UNCHANGED <<file, disk, readers, call, used, history>>

Lock(m) ==
    /\ mgr[m].at = "waiting" /\ writer = None /\ readers = {}
    /\ writer' = m
    /\ mgr' = [mgr EXCEPT ![m].at = "locked"]
    /\ UNCHANGED <<file, disk, readers, call, used, history>>

\* The configuration a request asks for, from the one in the file.
Changed(e, r) ==
    CASE r.kind = "register" -> registered(r.enabled)
      [] r.kind = "update" -> [e EXCEPT !.enabled = r.enabled]
      [] r.kind = "configure" -> [e EXCEPT !.directory = r.directory]
      [] r.kind = "authorize" -> [e EXCEPT !.authorized = r.authorized]

Refuse(m) == /\ mgr[m].at \in {"locked", "asking"}
             /\ Answer(m)
             /\ UNCHANGED <<file, disk, readers, call, used, history>>

\* Registered already or not yet, a directory that is not there, a request
\* or a configuration that is not valid.
Refused(m) == mgr[m].at = "locked" /\ Refuse(m)

\* Only grants that are new need the platform.
Added(m) == mgr[m].req.authorized \ file.authorized

Decide(m) ==
    /\ mgr[m].at = "locked"
    /\ mgr[m].req.kind = "register" <=> file = None
    /\ mgr' = [mgr EXCEPT ![m] =
                 [@ EXCEPT !.new = Changed(file, mgr[m].req),
                           !.at = IF mgr[m].req.kind = "authorize" /\ Added(m) # {}
                                  THEN "asking" ELSE "decided"]]
    /\ UNCHANGED <<file, disk, writer, readers, call, used, history>>

\* employee_workspaces::list, run with the write lock held.
Listed(m) == \E S \in SUBSET Workspaces :
    /\ mgr[m].at = "asking" /\ Added(m) \subseteq S
    /\ mgr' = [mgr EXCEPT ![m] = [@ EXCEPT !.listed = S, !.at = "decided"]]
    /\ UNCHANGED <<file, disk, writer, readers, call, used, history>>

\* A workspace that is not listed, or a CLI that fails.
NotListed(m) == mgr[m].at = "asking" /\ Refuse(m)

\* employee::save: the temporary file is complete and synced when it is renamed.
Rename(m) ==
    /\ mgr[m].at = "decided"
    /\ file' = mgr[m].new
    /\ inEffect' = inEffect \cup {mgr[m].new}
    /\ promised' = Unsettled
    /\ denied' = {w \in denied : ~Authorizes(mgr[m].new, w)}
    /\ mgr' = [mgr EXCEPT ![m].at = "renamed"]
    /\ UNCHANGED <<disk, writer, readers, call, used>>

SaveFails(m) ==
    /\ mgr[m].at = "decided"
    /\ Answer(m)
    /\ UNCHANGED <<file, disk, readers, call, used, history>>

\* The workspaces whose owner was told that they are out.
KeptOut(r) == CASE r.kind = "authorize" -> Workspaces \ r.authorized
                [] r.kind = "update" -> IF r.enabled THEN {} ELSE Workspaces
                [] r.kind = "register" -> Workspaces
                [] r.kind = "configure" -> {}

Confirm(m) ==
    /\ Answer(m)
    /\ promised' = file
    /\ denied' = denied \cup KeptOut(mgr[m].req)

\* Variant: success is answered without syncing the directory.
SyncLater(m) ==
    /\ mgr[m].at = "renamed"
    /\ Confirm(m)
    /\ UNCHANGED <<file, disk, readers, call, used, inEffect>>

Sync(m) ==
    /\ mgr[m].at = "renamed"
    /\ disk' = file
    /\ Confirm(m)
    /\ UNCHANGED <<file, readers, call, used, inEffect>>

\* The change is in the file and is answered with an error.
SyncFails(m) ==
    /\ mgr[m].at = "renamed"
    /\ Answer(m)
    /\ UNCHANGED <<file, disk, readers, call, used, history>>

----------------------------------------------------------------------------
(* invoke_dispatch::invoke_http *)

Invoke(c) == \E w \in Workspaces :
    /\ call[c].at = "idle" /\ used.calls < MaxCalls
    /\ used' = [used EXCEPT !.calls = @ + 1]
    /\ call' = [call EXCEPT ![c] = [NoCall EXCEPT !.at = "waiting", !.workspace = w]]
    /\ UNCHANGED <<file, disk, writer, readers, mgr, history>>

ReadLock(c) ==
    /\ call[c].at = "waiting" /\ writer = None
    /\ readers' = readers \cup {c}
    /\ call' = [call EXCEPT ![c].at = "locked"]
    /\ UNCHANGED <<file, disk, writer, mgr, used, history>>

Accepted(c) ==
    /\ call[c].at = "locked" /\ Authorizes(file, call[c].workspace)
    /\ call' = [call EXCEPT ![c] = [@ EXCEPT !.at = "accepted", !.directory = file.directory]]
    /\ UNCHANGED <<file, disk, writer, mgr, used, history>>

\* Variant: the guard lives until the invocation ends.
AcceptHolding(c) == Accepted(c) /\ UNCHANGED readers

Accept(c) == Accepted(c) /\ readers' = readers \ {c}

\* Not authorised, or employee::require could not read the file.
Deny(c) ==
    /\ call[c].at = "locked"
    /\ readers' = readers \ {c}
    /\ call' = [call EXCEPT ![c] = NoCall]
    /\ UNCHANGED <<file, disk, writer, mgr, used, history>>

\* Variant: the directory is looked up again.
RunLater(c) ==
    /\ call[c].at = "accepted" /\ file # None
    /\ call' = [call EXCEPT ![c].at = "running", ![c].directory = file.directory]
    /\ UNCHANGED <<file, disk, writer, readers, mgr, used, history>>

\* The parameters are checked against the configuration that was read, and
\* Codex gets its directory.
Run(c) ==
    /\ call[c].at = "accepted"
    /\ call' = [call EXCEPT ![c].at = "running"]
    /\ UNCHANGED <<file, disk, writer, readers, mgr, used, history>>

\* Refused for its parameters (cwd is not the directory), answered by Codex,
\* or failed.
Finish(c) ==
    /\ call[c].at \in {"accepted", "running"}
    /\ readers' = readers \ {c}
    /\ call' = [call EXCEPT ![c] = NoCall]
    /\ UNCHANGED <<file, disk, writer, mgr, used, history>>

----------------------------------------------------------------------------
\* Everything in memory is gone; an unsynced rename may be.
Crash ==
    /\ used.crashes < MaxCrashes
    /\ used' = [used EXCEPT !.crashes = @ + 1]
    /\ file' \in {file, disk}
    /\ disk' = file'
    /\ writer' = None /\ readers' = {}
    /\ mgr' = [m \in Managers |-> NoChange]
    /\ call' = [c \in Callers |-> NoCall]
    /\ UNCHANGED history

Finished == /\ used.changes = MaxChanges /\ used.calls = MaxCalls
            /\ \A m \in Managers : mgr[m].at = "idle"
            /\ \A c \in Callers : call[c].at = "idle"
            /\ UNCHANGED vars

Change(m) == \/ Lock(m) \/ Refused(m) \/ Decide(m)
             \/ Rename(m) \/ SaveFails(m) \/ Sync(m) \/ SyncFails(m)
Listing(m) == Listed(m) \/ NotListed(m)
Decision(c) == ReadLock(c) \/ Accept(c) \/ Deny(c)

Next == \/ \E m \in Managers : Request(m) \/ Change(m) \/ Listing(m)
        \/ \E c \in Callers : Invoke(c) \/ Decision(c) \/ Run(c) \/ Finish(c)
        \/ Crash \/ Finished

Spec == Init /\ [][Next]_vars

\* Threads that hold a lock or may take it run; nothing is assumed of Codex.
LocalSpec == /\ Spec
             /\ \A m \in Managers : SF_vars(Change(m))
             /\ \A c \in Callers : SF_vars(Decision(c))

\* And the platform CLI ends.
FairSpec == LocalSpec /\ \A m \in Managers : WF_vars(Listing(m))

----------------------------------------------------------------------------
TypeOK ==
    /\ file \in Employee \cup {None} /\ disk \in Employee \cup {None}
    /\ readers \in SUBSET Callers
    /\ writer = None <=> \A m \in Managers : mgr[m].at \in {"idle", "waiting"}
    /\ \A m \in Managers :
          /\ mgr[m].at \in {"idle", "waiting"} <=> writer # m
          /\ mgr[m].at \in Stages /\ mgr[m].listed \in SUBSET Workspaces
          /\ mgr[m].at = "idle" <=> mgr[m].req = None
          /\ mgr[m].at \in {"asking", "decided", "renamed"} <=> mgr[m].new \in Employee
    /\ \A c \in Callers : call[c].at \in {"idle", "waiting", "locked", "accepted", "running"}

\* What a success promised is what everybody reads, and what a crash leaves,
\* until a later change reaches the file.
ConfirmedChangeLasts == promised # Unsettled => file = promised /\ disk = promised

\* After the success of a change that keeps a workspace out (revoked, disabled
\* or not configured), no invocation of it is accepted until a configuration
\* that authorises it again is in the file: not through a change of something
\* else, a failed one, or a crash.
NoCallAfterRevocation == [][\A c \in Callers :
    call[c].at = "locked" /\ call'[c].at = "accepted" => call[c].workspace \notin denied]_vars

\* An invocation is carried out in the directory of a configuration that was
\* in effect and that authorised its workspace: it never mixes two.
RunsOnOneConfiguration == \A c \in Callers : call[c].at = "running" =>
    \E e \in inEffect : Authorizes(e, call[c].workspace) /\ e.directory = call[c].directory

\* A workspace enters the file only by a change whose own listing had it:
\* a change made meanwhile can neither be undone nor smuggled in.
GrantedOnlyWhenListed == [][\A m \in Managers :
    mgr[m].at = "decided" /\ mgr'[m].at = "renamed" /\ file' # None =>
        file'.authorized \ (IF file = None THEN {} ELSE file.authorized) \subseteq mgr[m].listed]_vars

\* Every change is answered, whatever the invocations under way do.
ChangeEnds == \A m \in Managers : mgr[m].at = "waiting" ~> mgr[m].at = "idle"

\* docs/employee-ownership.md:9: removing an authorisation does not depend
\* on a network query.  A request that takes workspaces out of the file and
\* adds none is answered although no query ends.
Revokes(m) == /\ mgr[m].at = "waiting" /\ mgr[m].req.kind = "authorize"
              /\ file # None
              /\ mgr[m].req.authorized \subseteq file.authorized
              /\ mgr[m].req.authorized # file.authorized
RevocationNeedsNoNetwork == \A m \in Managers : Revokes(m) ~> mgr[m].at = "idle"
============================================================================
