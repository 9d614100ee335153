------------------------ MODULE EmployeeConfigProofs ------------------------
(***************************************************************************)
(* What the write lock, the order of saving and the read lock give, for    *)
(* any number of managers, callers, workspaces, directories, changes and   *)
(* crashes.  Each invariant rests on those before it:                      *)
(*   TypeInv     types;                                                    *)
(*   LockInv     the manager that holds the write lock is the only one     *)
(*               past it;                                                  *)
(*   ChangeInv   what its copy has to do with its request and the file;    *)
(*   CallInv     what a caller carries was in effect;                      *)
(*   PromiseInv  what a success promised is in the file and on the disk.   *)
(***************************************************************************)
EXTENDS EmployeeConfig, TLAPS

Configurations == Employee \cup {None}
Changes == [at : Stages, req : Requests \cup {None}, new : Configurations,
            listed : SUBSET Workspaces]
Invocations == [at : {"idle", "waiting", "locked", "accepted", "running"},
                workspace : Workspaces \cup {None}, directory : Dirs \cup {None}]

TypeInv ==
    /\ file \in Configurations /\ disk \in Configurations
    /\ readers \in SUBSET Callers
    /\ mgr \in [Managers -> Changes]
    /\ call \in [Callers -> Invocations]

Outside(m) == mgr[m].at \in {"idle", "waiting"}
LockInv ==
    /\ writer \in Managers \cup {None}
    /\ \A m \in Managers : Outside(m) <=> writer # m

\* The copy has what the request asked for.
AsAsked(new, r) ==
    /\ r.kind = "authorize" => new.authorized = r.authorized
    /\ r.kind = "update" => new.enabled = r.enabled
    /\ r.kind = "register" => new.authorized = {}

Granted(e) == IF e = None THEN {} ELSE e.authorized

ChangeOK(m) ==
    /\ mgr[m].at = "idle" <=> mgr[m].req = None
    /\ mgr[m].at \in {"asking", "decided", "renamed"} <=> mgr[m].new \in Employee
    /\ mgr[m].at \in {"asking", "decided", "renamed"} => AsAsked(mgr[m].new, mgr[m].req)
    /\ mgr[m].at = "asking" => mgr[m].req.kind = "authorize" /\ file # None
    /\ mgr[m].at = "decided" => mgr[m].new.authorized \ Granted(file) \subseteq mgr[m].listed
    /\ mgr[m].at = "renamed" => file = mgr[m].new
ChangeInv == \A m \in Managers : ChangeOK(m)

CallInv ==
    /\ file \in inEffect /\ disk \in inEffect
    /\ \A c \in Callers : call[c].at \in {"accepted", "running"} =>
          \E e \in inEffect : Authorizes(e, call[c].workspace) /\ e.directory = call[c].directory

PromiseInv ==
    /\ ConfirmedChangeLasts
    /\ \A w \in denied : ~Authorizes(file, w) /\ ~Authorizes(disk, w)

-----------------------------------------------------------------------------
(* What the operators return.                                              *)

LEMMA ChangedType ==
    ASSUME NEW e \in Configurations, NEW r \in Requests, r.kind = "register" <=> e = None
    PROVE  Changed(e, r) \in Employee /\ AsAsked(Changed(e, r), r)
  <1>1. CASE r.kind = "register"
    BY <1>1 DEF Changed, Requests, Employee, registered, AsAsked
  <1>2. CASE r.kind = "update"
    BY <1>2 DEF Changed, Requests, Configurations, Employee, AsAsked
  <1>3. CASE r.kind = "configure"
    BY <1>3 DEF Changed, Requests, Configurations, Employee, AsAsked
  <1>4. CASE r.kind = "authorize"
    BY <1>4 DEF Changed, Requests, Configurations, Employee, AsAsked
  <1> QED BY <1>1, <1>2, <1>3, <1>4 DEF Requests

\* Only a request for authorisations can add one.
LEMMA ChangedGrants ==
    ASSUME NEW e \in Configurations, NEW r \in Requests, r.kind = "register" <=> e = None,
           r.kind # "authorize"
    PROVE  Changed(e, r).authorized \ Granted(e) = {}
  <1>1. CASE r.kind = "register"
    BY <1>1 DEF Changed, registered
  <1>2. CASE r.kind = "update"
    BY <1>2 DEF Changed, Configurations, Employee, Granted
  <1>3. CASE r.kind = "configure"
    BY <1>3 DEF Changed, Configurations, Employee, Granted
  <1> QED BY <1>1, <1>2, <1>3 DEF Requests

\* What a success keeps out is not authorised by the copy.
LEMMA KeptOutDenied ==
    ASSUME NEW e \in Employee, NEW r \in Requests, AsAsked(e, r), NEW w \in KeptOut(r)
    PROVE  ~Authorizes(e, w)
  BY DEF KeptOut, AsAsked, Requests, Authorizes

-----------------------------------------------------------------------------
(* The steps, by what they do to the state.                                *)

LEMMA InitInv == Init => TypeInv /\ LockInv /\ ChangeInv /\ CallInv /\ PromiseInv
  <1> SUFFICES ASSUME Init PROVE TypeInv /\ LockInv /\ ChangeInv /\ CallInv /\ PromiseInv
    OBVIOUS
  <1>1. TypeInv
    BY DEF Init, TypeInv, Configurations, Changes, Invocations, NoChange, NoCall, Stages
  <1>2. LockInv
    BY ConfigAssumption DEF Init, LockInv, Outside, NoChange
  <1>3. ChangeInv
    BY NoneAssumption DEF Init, ChangeInv, ChangeOK, NoChange
  <1>4. CallInv
    BY DEF Init, CallInv, NoCall
  <1>5. PromiseInv
    BY DEF Init, PromiseInv, ConfirmedChangeLasts
  <1> QED BY <1>1, <1>2, <1>3, <1>4, <1>5

IInv == TypeInv /\ LockInv /\ ChangeInv /\ CallInv /\ PromiseInv

\* A step of manager m, and a step of caller c.
Manages(m) == Request(m) \/ Change(m) \/ Listing(m)
Calls(c) == Invoke(c) \/ Decision(c) \/ Run(c) \/ Finish(c)

LEMMA ReqType ==
    ASSUME IInv, NEW m \in Managers, mgr[m].at # "idle"
    PROVE  mgr[m].req \in Requests
  BY DEF IInv, TypeInv, ChangeInv, ChangeOK, Changes

LEMMA AnswerStep ==
    ASSUME IInv, NEW m \in Managers, Answer(m)
    PROVE  \E v \in Changes : mgr' = [mgr EXCEPT ![m] = v]
  <1>1. NoChange \in Changes
    BY DEF NoChange, Changes, Configurations, Stages
  <1> QED BY <1>1 DEF Answer

\* A manager changes its own record only.
LEMMA ManagerStep ==
    ASSUME IInv, NEW m \in Managers, Manages(m)
    PROVE  (\E v \in Changes : mgr' = [mgr EXCEPT ![m] = v]) /\ UNCHANGED <<call, readers>>
  <1>0. mgr \in [Managers -> Changes] /\ mgr[m] \in Changes
    BY DEF IInv, TypeInv
  <1>1. CASE Request(m)
    <2>1. PICK r \in Requests : mgr' = [mgr EXCEPT ![m] = [NoChange EXCEPT !.at = "waiting", !.req = r]]
      BY <1>1 DEF Request
    <2>2. [NoChange EXCEPT !.at = "waiting", !.req = r] \in Changes
      BY DEF NoChange, Changes, Configurations, Stages
    <2> QED BY <1>1, <2>1, <2>2 DEF Request
  <1>2. CASE Lock(m)
    <2>1. [mgr[m] EXCEPT !.at = "locked"] \in Changes
      BY <1>0 DEF Changes, Stages
    <2> QED BY <1>0, <1>2, <2>1 DEF Lock
  <1>3. CASE Decide(m)
    <2>1. Changed(file, mgr[m].req) \in Employee
      BY <1>3, ReqType, ChangedType DEF Decide, IInv, TypeInv
    <2> DEFINE to == IF mgr[m].req.kind = "authorize" /\ Added(m) # {} THEN "asking" ELSE "decided"
    <2>2. [mgr[m] EXCEPT !.new = Changed(file, mgr[m].req), !.at = to] \in Changes
      <3> HIDE DEF to
      <3>1. to \in Stages
        BY DEF to, Stages
      <3> QED BY <1>0, <2>1, <3>1 DEF Changes, Configurations
    <2> QED BY <1>0, <1>3, <2>2 DEF Decide
  <1>4. CASE Listed(m)
    <2>1. PICK S \in SUBSET Workspaces : mgr' = [mgr EXCEPT ![m] = [@ EXCEPT !.listed = S, !.at = "decided"]]
      BY <1>4 DEF Listed
    <2>2. [mgr[m] EXCEPT !.listed = S, !.at = "decided"] \in Changes
      BY <1>0 DEF Changes, Stages
    <2> QED BY <1>0, <1>4, <2>1, <2>2 DEF Listed
  <1>5. CASE Rename(m)
    <2>1. [mgr[m] EXCEPT !.at = "renamed"] \in Changes
      BY <1>0 DEF Changes, Stages
    <2> QED BY <1>0, <1>5, <2>1 DEF Rename
  <1>6. CASE Refused(m) \/ NotListed(m)
    BY <1>6, AnswerStep DEF Refused, NotListed, Refuse
  <1>7. CASE SaveFails(m) \/ Sync(m) \/ SyncFails(m)
    BY <1>7, AnswerStep DEF SaveFails, Sync, SyncFails, Confirm
  <1> QED BY <1>1, <1>2, <1>3, <1>4, <1>5, <1>6, <1>7 DEF Manages, Change, Listing

\* Only a manager past its decision touches the file and the disk, and only a success promises.
LEMMA FileSteps ==
    ASSUME NEW m \in Managers, Manages(m)
    PROVE  \/ Rename(m)
           \/ Sync(m)
           \/ UNCHANGED <<file, disk, history>>
  BY DEF Manages, Change, Listing, Request, Lock, Refused, NotListed, Refuse, Decide, Listed,
         SaveFails, SyncFails

LEMMA ManagerType ==
    ASSUME IInv, NEW m \in Managers, Manages(m)
    PROVE  TypeInv'
  <1>0. PICK v \in Changes : mgr' = [mgr EXCEPT ![m] = v] /\ UNCHANGED <<call, readers>>
    BY ManagerStep
  <1>1. mgr' \in [Managers -> Changes]
    BY <1>0 DEF IInv, TypeInv
  <1>2. file' \in Configurations /\ disk' \in Configurations
    <2>1. mgr[m].new \in Configurations
      BY DEF IInv, TypeInv, Changes
    <2> QED BY <2>1, FileSteps DEF IInv, TypeInv, Rename, Sync, vars, history
  <1> QED BY <1>0, <1>1, <1>2 DEF IInv, TypeInv

LEMMA ManagerLock ==
    ASSUME IInv, NEW m \in Managers, Manages(m)
    PROVE  LockInv'
  <1>0. PICK v \in Changes : mgr' = [mgr EXCEPT ![m] = v]
    BY ManagerStep
  <1>1. mgr'[m] = v /\ \A n \in Managers : n # m => mgr'[n] = mgr[n]
    BY <1>0 DEF IInv, TypeInv
  <1> USE DEF IInv, LockInv, Outside
  <1>2. CASE Request(m)
    <2>1. mgr'[m].at = "waiting"
      BY <1>2 DEF Request, TypeInv, NoChange
    <2> QED BY <1>1, <1>2, <2>1 DEF Request
  <1>3. CASE Lock(m)
    <2>1. mgr'[m].at = "locked"
      BY <1>3 DEF Lock, TypeInv, Changes
    <2> QED BY <1>1, <1>3, <2>1, ConfigAssumption DEF Lock
  <1>4. CASE Answer(m) /\ ~Outside(m)
    <2>1. mgr'[m].at = "idle"
      BY <1>4 DEF Answer, TypeInv, NoChange
    <2> QED BY <1>1, <1>4, <2>1, ConfigAssumption DEF Answer
  <1>5. CASE ~Outside(m) /\ ~Outside(m)' /\ UNCHANGED writer
    BY <1>1, <1>5
  <1>6. CASE Decide(m) \/ Listed(m) \/ Rename(m)
    <2>1. ~Outside(m) /\ UNCHANGED writer
      BY <1>6 DEF Decide, Listed, Rename
    <2>2. mgr'[m].at \in {"asking", "decided", "renamed"}
      <3>1. CASE Decide(m)
        BY <3>1 DEF Decide, TypeInv, Changes
      <3>2. CASE Listed(m)
        BY <3>2 DEF Listed, TypeInv, Changes
      <3>3. CASE Rename(m)
        BY <3>3 DEF Rename, TypeInv, Changes
      <3> QED BY <1>6, <3>1, <3>2, <3>3
    <2> QED BY <2>1, <2>2, <1>5
  <1>7. CASE Refused(m) \/ NotListed(m) \/ SaveFails(m) \/ Sync(m) \/ SyncFails(m)
    BY <1>4, <1>7 DEF Refused, NotListed, Refuse, SaveFails, Sync, SyncFails, Confirm
  <1> QED BY <1>2, <1>3, <1>6, <1>7 DEF Manages, Change, Listing

\* Whoever is outside the lock has nothing that depends on the file.
LEMMA OutsideOK ==
    ASSUME NEW m \in Managers, ChangeOK(m), UNCHANGED mgr[m], UNCHANGED file \/ Outside(m)
    PROVE  ChangeOK(m)'
  BY DEF ChangeOK, Outside

LEMMA ManagerChange ==
    ASSUME IInv, NEW m \in Managers, Manages(m)
    PROVE  ChangeInv'
  <1>0. PICK v \in Changes : mgr' = [mgr EXCEPT ![m] = v]
    BY ManagerStep
  <1>1. mgr'[m] = v /\ \A n \in Managers : n # m => mgr'[n] = mgr[n]
    BY <1>0 DEF IInv, TypeInv
  <1>2. \A n \in Managers : n # m => ChangeOK(n)'
    <2> SUFFICES ASSUME NEW n \in Managers, n # m PROVE ChangeOK(n)'
      OBVIOUS
    <2>1. CASE UNCHANGED file
      BY <1>1, <2>1, OutsideOK DEF IInv, ChangeInv
    <2>2. CASE Rename(m)
      <3>1. Outside(n)
        BY <2>2 DEF Rename, IInv, LockInv, Outside
      <3> QED BY <1>1, <3>1, OutsideOK DEF IInv, ChangeInv
    <2> QED BY <2>1, <2>2, FileSteps DEF Sync
  <1>t. mgr \in [Managers -> Changes] /\ mgr[m] \in Changes /\ ChangeOK(m)
    BY DEF IInv, TypeInv, ChangeInv
  <1>3. ChangeOK(m)'
    <2>1. CASE Request(m)
      <3>1. PICK r \in Requests : mgr'[m] = [NoChange EXCEPT !.at = "waiting", !.req = r]
        BY <1>t, <2>1 DEF Request
      <3>2. r # None
        BY NoneAssumption
      <3> QED BY <3>1, <3>2, NoneAssumption DEF ChangeOK, NoChange
    <2>2. CASE Lock(m)
      <3>1. mgr'[m] = [mgr[m] EXCEPT !.at = "locked"] /\ mgr[m].at = "waiting"
        BY <1>t, <2>2 DEF Lock
      <3> QED BY <1>t, <3>1 DEF ChangeOK, Changes
    <2>3. CASE Decide(m)
      <3> DEFINE r == mgr[m].req
                 new == Changed(file, r)
                 to == IF r.kind = "authorize" /\ Added(m) # {} THEN "asking" ELSE "decided"
      <3>1. mgr'[m] = [mgr[m] EXCEPT !.new = new, !.at = to] /\ UNCHANGED file
        BY <1>t, <2>3 DEF Decide
      <3>2. mgr'[m].new = new /\ mgr'[m].at = to /\ mgr'[m].req = r /\ mgr'[m].listed = mgr[m].listed
        <4> HIDE DEF new, to
        <4> QED BY <1>t, <3>1 DEF Changes
      <3>3. r \in Requests /\ (r.kind = "register" <=> file = None) /\ file \in Configurations
        BY <2>3, ReqType DEF Decide, IInv, TypeInv
      <3>4. new \in Employee /\ AsAsked(new, r)
        BY <3>3, ChangedType
      <3>5. r # None
        BY <3>3, NoneAssumption
      <3>6. to = "asking" => r.kind = "authorize" /\ file # None
        BY <3>3
      <3>7. to = "decided" => new.authorized \ Granted(file) = {}
        <4>1. CASE r.kind = "authorize"
          BY <3>3, <3>4, <4>1 DEF Added, Granted, AsAsked
        <4>2. CASE r.kind # "authorize"
          BY <3>3, <4>2, ChangedGrants
        <4> QED BY <4>1, <4>2
      <3>8. to \in {"asking", "decided"}
        OBVIOUS
      <3> HIDE DEF r, new, to
      <3> QED BY <3>1, <3>2, <3>4, <3>5, <3>6, <3>7, <3>8 DEF ChangeOK
    <2>4. CASE Listed(m)
      <3>1. PICK S \in SUBSET Workspaces : /\ Added(m) \subseteq S
                                           /\ mgr'[m] = [mgr[m] EXCEPT !.listed = S, !.at = "decided"]
        BY <1>t, <2>4 DEF Listed
      <3>2. mgr[m].at = "asking" /\ UNCHANGED file
        BY <2>4 DEF Listed
      <3>3. mgr[m].new.authorized \ Granted(file) \subseteq S
        BY <1>t, <3>1, <3>2 DEF ChangeOK, AsAsked, Added, Granted
      <3>4. mgr'[m].at = "decided" /\ mgr'[m].listed = S /\ mgr'[m].new = mgr[m].new /\ mgr'[m].req = mgr[m].req
        BY <1>t, <3>1 DEF Changes
      <3> QED BY <1>t, <3>2, <3>3, <3>4 DEF ChangeOK
    <2>5. CASE Rename(m)
      <3>1. mgr'[m] = [mgr[m] EXCEPT !.at = "renamed"] /\ mgr[m].at = "decided" /\ file' = mgr[m].new
        BY <1>t, <2>5 DEF Rename
      <3> QED BY <1>t, <3>1 DEF ChangeOK, Changes
    <2>6. CASE Answer(m)
      <3>1. mgr'[m] = NoChange
        BY <1>t, <2>6 DEF Answer
      <3> QED BY <3>1, NoneAssumption DEF ChangeOK, NoChange
    <2> QED BY <2>1, <2>2, <2>3, <2>4, <2>5, <2>6 DEF Manages, Change, Listing, Refused, NotListed,
              Refuse, SaveFails, Sync, SyncFails, Confirm
  <1> QED BY <1>2, <1>3 DEF ChangeInv

LEMMA ManagerCall ==
    ASSUME IInv, NEW m \in Managers, Manages(m)
    PROVE  CallInv'
  <1>1. UNCHANGED call
    BY ManagerStep
  <1>2. inEffect \subseteq inEffect' /\ file' \in inEffect' /\ disk' \in inEffect'
    BY FileSteps DEF IInv, CallInv, Rename, Sync, Confirm, history
  <1> QED BY <1>1, <1>2 DEF IInv, CallInv

LEMMA ManagerPromise ==
    ASSUME IInv, NEW m \in Managers, Manages(m)
    PROVE  PromiseInv'
  <1> USE DEF PromiseInv, ConfirmedChangeLasts
  <1>1. CASE Rename(m)
    BY <1>1 DEF Rename, IInv
  <1>2. CASE Sync(m)
    <2>1. mgr[m].at = "renamed" /\ ChangeOK(m)
      BY <1>2 DEF Sync, IInv, ChangeInv
    <2>2. file \in Employee /\ AsAsked(file, mgr[m].req) /\ mgr[m].req \in Requests
      BY <2>1, ReqType DEF ChangeOK
    <2>3. /\ file' = file /\ disk' = file /\ promised' = file
          /\ denied' = denied \cup KeptOut(mgr[m].req)
      BY <1>2 DEF Sync, Confirm
    <2>4. \A w \in denied' : ~Authorizes(file', w)
      BY <2>2, <2>3, KeptOutDenied DEF IInv
    <2> QED BY <2>3, <2>4
  <1>3. CASE UNCHANGED <<file, disk, history>>
    BY <1>3 DEF IInv, history
  <1> QED BY <1>1, <1>2, <1>3, FileSteps

\* A caller changes its own record and the readers.
LEMMA CallerStep ==
    ASSUME IInv, NEW c \in Callers, Calls(c)
    PROVE  /\ \E v \in Invocations : call' = [call EXCEPT ![c] = v]
           /\ readers' \in SUBSET Callers
           /\ UNCHANGED <<file, disk, writer, mgr, history>>
  <1>0. call \in [Callers -> Invocations] /\ call[c] \in Invocations /\ readers \in SUBSET Callers
    BY DEF IInv, TypeInv
  <1>n. NoCall \in Invocations
    BY DEF NoCall, Invocations
  <1>1. CASE Invoke(c)
    <2>1. PICK w \in Workspaces : call' = [call EXCEPT ![c] = [NoCall EXCEPT !.at = "waiting", !.workspace = w]]
      BY <1>1 DEF Invoke
    <2>2. [NoCall EXCEPT !.at = "waiting", !.workspace = w] \in Invocations
      BY DEF NoCall, Invocations
    <2> QED BY <1>0, <1>1, <2>1, <2>2 DEF Invoke
  <1>2. CASE ReadLock(c)
    <2>1. [call[c] EXCEPT !.at = "locked"] \in Invocations
      BY <1>0 DEF Invocations
    <2> QED BY <1>0, <1>2, <2>1 DEF ReadLock
  <1>3. CASE Accept(c)
    <2>1. file.directory \in Dirs
      BY <1>3 DEF Accept, Accepted, Authorizes, IInv, TypeInv, Configurations, Employee
    <2>2. [call[c] EXCEPT !.at = "accepted", !.directory = file.directory] \in Invocations
      BY <1>0, <2>1 DEF Invocations
    <2> QED BY <1>0, <1>3, <2>2 DEF Accept, Accepted
  <1>4. CASE Run(c)
    <2>1. [call[c] EXCEPT !.at = "running"] \in Invocations
      BY <1>0 DEF Invocations
    <2> QED BY <1>0, <1>4, <2>1 DEF Run
  <1>5. CASE Deny(c) \/ Finish(c)
    BY <1>0, <1>n, <1>5 DEF Deny, Finish
  <1> QED BY <1>1, <1>2, <1>3, <1>4, <1>5 DEF Calls, Decision

LEMMA CallerInv ==
    ASSUME IInv, NEW c \in Callers, Calls(c)
    PROVE  IInv'
  <1>0. PICK v \in Invocations : call' = [call EXCEPT ![c] = v]
    BY CallerStep
  <1>u. UNCHANGED <<file, disk, writer, mgr, history>> /\ readers' \in SUBSET Callers
    BY CallerStep
  <1>1. call \in [Callers -> Invocations] /\ call[c] \in Invocations
    BY DEF IInv, TypeInv
  <1>2. TypeInv'
    BY <1>0, <1>u, <1>1 DEF IInv, TypeInv
  <1>3. LockInv' /\ ChangeInv'
    BY <1>u DEF IInv, LockInv, Outside, ChangeInv, ChangeOK
  <1>4. PromiseInv'
    BY <1>u DEF IInv, PromiseInv, ConfirmedChangeLasts, history
  <1>5. CallInv'
    <2> DEFINE Carries(k) == k.at \in {"accepted", "running"} =>
                  \E e \in inEffect : Authorizes(e, k.workspace) /\ e.directory = k.directory
    <2>1. \A d \in Callers : Carries(call[d])
      BY DEF IInv, CallInv
    <2>2. Carries(v)
      <3>0. v = call'[c]
        BY <1>0, <1>1
      <3>1. CASE Invoke(c) \/ ReadLock(c) \/ Deny(c) \/ Finish(c)
        <4>1. v.at \in {"waiting", "locked", "idle"}
          <5>1. CASE Invoke(c)
            BY <1>1, <3>0, <5>1 DEF Invoke, NoCall
          <5>2. CASE ReadLock(c)
            BY <1>1, <3>0, <5>2 DEF ReadLock, Invocations
          <5>3. CASE Deny(c) \/ Finish(c)
            BY <1>1, <3>0, <5>3 DEF Deny, Finish, NoCall
          <5> QED BY <3>1, <5>1, <5>2, <5>3
        <4> QED BY <4>1
      <3>2. CASE Accept(c)
        <4>1. v.workspace = call[c].workspace /\ v.directory = file.directory
          BY <1>1, <3>0, <3>2 DEF Accept, Accepted, Invocations
        <4>2. Authorizes(file, call[c].workspace) /\ file \in inEffect
          BY <3>2 DEF Accept, Accepted, IInv, CallInv
        <4> QED BY <4>1, <4>2
      <3>3. CASE Run(c)
        <4>1. v.workspace = call[c].workspace /\ v.directory = call[c].directory /\ call[c].at = "accepted"
          BY <1>1, <3>0, <3>3 DEF Run, Invocations
        <4> QED BY <2>1, <4>1
      <3> QED BY <3>1, <3>2, <3>3 DEF Calls, Decision
    <2>3. \A d \in Callers : Carries(call'[d])
      BY <1>0, <1>1, <2>1, <2>2
    <2> QED BY <1>u, <2>3 DEF IInv, CallInv, history
  <1> QED BY <1>2, <1>3, <1>4, <1>5 DEF IInv

LEMMA CrashInv ==
    ASSUME IInv, Crash
    PROVE  IInv'
  <1>0. file' \in {file, disk} /\ disk' = file' /\ UNCHANGED history
    BY DEF Crash
  <1>1. TypeInv'
    <2>1. NoChange \in Changes /\ NoCall \in Invocations
      BY DEF NoChange, NoCall, Changes, Configurations, Stages, Invocations
    <2> QED BY <1>0, <2>1 DEF Crash, IInv, TypeInv
  <1>2. LockInv'
    BY ConfigAssumption DEF Crash, LockInv, Outside, NoChange
  <1>3. ChangeInv'
    BY NoneAssumption DEF Crash, ChangeInv, ChangeOK, NoChange
  <1>4. CallInv'
    BY <1>0 DEF Crash, IInv, CallInv, NoCall, history
  <1>5. PromiseInv'
    BY <1>0 DEF IInv, PromiseInv, ConfirmedChangeLasts, history
  <1> QED BY <1>1, <1>2, <1>3, <1>4, <1>5 DEF IInv

LEMMA NextInv == IInv /\ [Next]_vars => IInv'
  <1> SUFFICES ASSUME IInv, [Next]_vars PROVE IInv'
    OBVIOUS
  <1>1. ASSUME NEW m \in Managers, Manages(m) PROVE IInv'
    BY <1>1, ManagerType, ManagerLock, ManagerChange, ManagerCall, ManagerPromise DEF IInv
  <1>2. ASSUME NEW c \in Callers, Calls(c) PROVE IInv'
    BY <1>2, CallerInv
  <1>3. CASE UNCHANGED vars
    BY <1>3 DEF vars, IInv, TypeInv, LockInv, Outside, ChangeInv, ChangeOK, CallInv, PromiseInv,
         ConfirmedChangeLasts
  <1> QED BY <1>1, <1>2, <1>3, CrashInv DEF Next, Manages, Calls, Finished

-----------------------------------------------------------------------------
(* The theorems.                                                           *)

\* The invariant holds in every behaviour of the employee's file, whatever fails.
THEOREM Invariance == Spec => []IInv
  <1>1. Init => IInv
    BY InitInv DEF IInv
  <1> QED BY <1>1, NextInv, PTL DEF Spec

\* The types, and who is past the write lock (change in employee_management.rs).
THEOREM TypeCorrect == Spec => []TypeOK
  <1>1. IInv => TypeOK
    <2> SUFFICES ASSUME IInv PROVE TypeOK
      OBVIOUS
    <2> USE DEF IInv
    <2>1. writer = None <=> \A m \in Managers : Outside(m)
      BY ConfigAssumption DEF LockInv
    <2> QED BY <2>1 DEF TypeOK, TypeInv, Configurations, Changes, Invocations, LockInv, Outside,
              ChangeInv, ChangeOK
  <1> QED BY <1>1, Invariance, PTL

\* A confirmed change stays, through failed saves and crashes (save in employee.rs).
THEOREM ConfirmedLasts == Spec => []ConfirmedChangeLasts
  <1>1. IInv => ConfirmedChangeLasts
    BY DEF IInv, PromiseInv
  <1> QED BY <1>1, Invariance, PTL

\* An invocation never mixes two configurations, although it is carried out after the read
\* lock is released (invoke_http).
THEOREM OneConfiguration == Spec => []RunsOnOneConfiguration
  <1>1. IInv => RunsOnOneConfiguration
    BY DEF IInv, CallInv, RunsOnOneConfiguration
  <1> QED BY <1>1, Invariance, PTL

\* Once a revocation is confirmed, no invocation of the workspace is accepted.
THEOREM RevocationBites == Spec => NoCallAfterRevocation
  <1> DEFINE Allowed == \A c \in Callers :
                call[c].at = "locked" /\ call'[c].at = "accepted" => call[c].workspace \notin denied
  <1>1. IInv /\ [Next]_vars => [Allowed]_vars
    <2> SUFFICES ASSUME IInv, [Next]_vars,
                        NEW c \in Callers, call[c].at = "locked", call'[c].at = "accepted"
                 PROVE  call[c].workspace \notin denied
      BY DEF Allowed
    <2>0. call \in [Callers -> Invocations]
      BY DEF IInv, TypeInv
    <2>1. ASSUME NEW m \in Managers, Manages(m) PROVE FALSE
      BY <2>1, ManagerStep
    <2>2. ASSUME NEW d \in Callers, Calls(d) PROVE Accept(c)
      <3>1. d = c
        BY <2>0, <2>2, CallerStep
      <3>2. ~(Invoke(c) \/ ReadLock(c) \/ Run(c))
        BY <2>0 DEF Invoke, ReadLock, Run
      <3>3. ~(Deny(c) \/ Finish(c))
        BY <2>0 DEF Deny, Finish, NoCall
      <3> QED BY <2>2, <3>1, <3>2, <3>3 DEF Calls, Decision
    <2>3. ~Crash /\ ~UNCHANGED vars
      BY DEF Crash, NoCall, vars
    <2>4. Accept(c)
      BY <2>1, <2>2, <2>3 DEF Next, Manages, Calls, Finished
    <2> QED BY <2>4 DEF Accept, Accepted, IInv, PromiseInv
  <1> QED BY <1>1, Invariance, PTL DEF Spec, NoCallAfterRevocation

\* Every workspace that enters the file was listed for the change that brought it (change in
\* employee_management.rs).
THEOREM GrantsAreListed == Spec => GrantedOnlyWhenListed
  <1> DEFINE Allowed == \A m \in Managers :
                mgr[m].at = "decided" /\ mgr'[m].at = "renamed" /\ file' # None =>
                    file'.authorized \ (IF file = None THEN {} ELSE file.authorized) \subseteq mgr[m].listed
  <1>1. IInv /\ [Next]_vars => [Allowed]_vars
    <2> SUFFICES ASSUME IInv, [Next]_vars,
                        NEW m \in Managers, mgr[m].at = "decided", mgr'[m].at = "renamed"
                 PROVE  file'.authorized \ (IF file = None THEN {} ELSE file.authorized) \subseteq mgr[m].listed
      BY DEF Allowed
    <2>0. mgr \in [Managers -> Changes] /\ mgr[m] \in Changes
      BY DEF IInv, TypeInv
    <2>1. ASSUME NEW n \in Managers, Manages(n) PROVE Rename(m)
      <3>1. n = m
        BY <2>0, <2>1, ManagerStep
      <3>2. ~Answer(m)
        BY <2>0 DEF Answer, NoChange
      <3> QED BY <2>0, <2>1, <3>1, <3>2 DEF Manages, Change, Listing, Request, Lock, Decide, Listed,
                Refused, NotListed, Refuse, SaveFails, Sync, SyncFails, Confirm
    <2>2. ASSUME NEW c \in Callers, Calls(c) PROVE FALSE
      BY <2>2, CallerStep
    <2>3. ~Crash /\ ~UNCHANGED vars
      BY DEF Crash, NoChange, vars
    <2>4. Rename(m)
      BY <2>1, <2>2, <2>3 DEF Next, Manages, Calls, Finished
    <2> QED BY <2>4 DEF Rename, IInv, ChangeInv, ChangeOK, Granted
  <1> QED BY <1>1, Invariance, PTL DEF Spec, GrantedOnlyWhenListed
=============================================================================
