--------------------------- MODULE DeploymentProofs ---------------------------
(***************************************************************************)
(* What holds of Deployment for any processes, releases and ways to start  *)
(* a process.  Only the holder of the advisory lock changes the ledger, so *)
(* what it found missing stays missing until it applies it; and what a     *)
(* process has put behind it is in the ledger for good, which never        *)
(* shrinks.                                                                *)
(***************************************************************************)
EXTENDS Deployment, TLAPS

Shape ==
    /\ pc \in [Replica -> Starting \cup Serving \cup Ended]
    /\ launch \in [Replica -> Launch \cup {None}]
    /\ config \in [Replica -> {Load(l) : l \in Launch} \cup {None}]
    /\ todo \in [Replica -> SUBSET Nat]
    /\ module \in [Replica -> Nat]
    /\ plan \in [Replica -> SUBSET Nat]
    /\ pending \in [Replica -> SUBSET {"probe", "query"}]
    /\ ledger \in SUBSET Nat
    /\ lock \in Replica \cup {None}
    /\ up \in BOOLEAN

\* A process knows what it was started as, and runs with the configuration that makes.
Launched(r) == pc[r] \in Starting \cup Serving \cup {"done"} => launch[r] \in Launch

Configured(r) ==
    IF pc[r] \in (Starting \ {"load"}) \cup Serving
    THEN Loads(launch[r]) /\ config[r] = Load(launch[r])
    ELSE config[r] = None

\* Only `serve` gets to the listener.
Serves(r) == pc[r] \in {"bind"} \cup Serving => launch[r].command = "serve"

\* Between taking the lock and giving it back a process is at its next module.
Holds(r) == lock = r <=> pc[r] \in {"list", "apply"}

Place(r) ==
    IF pc[r] \in {"list", "apply"}
    THEN module[r] \in todo[r] /\ \A j \in todo[r] : module[r] <= j
    ELSE module[r] = 0

\* What is not left to do is in the ledger.
Left(r) ==
    IF pc[r] \in Migrating
    THEN /\ todo[r] \subseteq Scope(launch[r])
         /\ \A i \in Scope(launch[r]) \ todo[r] : Versions(launch[r], i) \subseteq ledger
    ELSE todo[r] = {}

\* What a run found missing and has not applied is what is missing.
Missing(r) ==
    IF pc[r] = "apply"
    THEN /\ plan[r] \subseteq Versions(launch[r], module[r])
         /\ plan[r] \cap ledger = {}
         /\ Versions(launch[r], module[r]) \ plan[r] \subseteq ledger
    ELSE plan[r] = {}

Finished(r) ==
    \/ pc[r] \in {"bind"} \cup Serving /\ RunMigrations(r)
    \/ pc[r] = "exit"
    \/ pc[r] = "done" /\ launch[r].command = "migrate"
    => \A i \in Scope(launch[r]) : Versions(launch[r], i) \subseteq ledger

Sound(r) ==
    /\ Launched(r) /\ Configured(r) /\ Serves(r)
    /\ Holds(r) /\ Place(r) /\ Left(r) /\ Missing(r) /\ Finished(r)
    /\ pc[r] # "conflict"

\* The inductive invariant.
IInv == Shape /\ \A r \in Replica : Sound(r)

Same(q) ==
    /\ pc'[q] = pc[q] /\ launch'[q] = launch[q] /\ config'[q] = config[q]
    /\ todo'[q] = todo[q] /\ module'[q] = module[q] /\ plan'[q] = plan[q]
    /\ pending'[q] = pending[q]
    /\ lock' = q <=> lock = q

------------------------------------------------------------------------------

\* What is to be migrated is named by places in the registry.
LEMMA ScopeType ==
    ASSUME NEW l \in Launch
    PROVE  /\ Scope(l) \in SUBSET Nat
           /\ Scope(l) \subseteq DOMAIN All(l.release)
           /\ \A i \in Scope(l) : Versions(l, i) \in SUBSET Nat
  <1> DEFINE modules == Registry[l.release]
  <1> DEFINE Carried == [name : Module, versions : SUBSET Nat]
  <1>1. modules \in Seq(Carried)
    BY ConstantsAssumption
  <1>2. Scope(l) \subseteq DOMAIN modules
    BY DEF Scope, Find, All
  <1> HIDE DEF modules, Carried
  <1>3. DOMAIN modules \subseteq Nat /\ \A i \in DOMAIN modules : modules[i] \in Carried
    BY <1>1
  <1>4. \A i \in DOMAIN modules : modules[i].versions \in SUBSET Nat
    BY <1>3 DEF Carried
  <1> QED BY <1>2, <1>3, <1>4 DEF modules, All, Versions

\* What a process knows stays true while it stands still and the ledger grows, which it does not
\* while the process is applying.
LEMMA StandingStill ==
    ASSUME NEW q \in Replica, Sound(q), Same(q),
           ledger \subseteq ledger', pc[q] = "apply" => ledger' = ledger
    PROVE  Sound(q)'
  <1>1. Launched(q)' /\ Configured(q)' /\ Serves(q)' /\ Holds(q)' /\ Place(q)'
        /\ (pc[q] # "conflict")'
    BY DEF Sound, Same, Launched, Configured, Serves, Holds, Place
  <1>2. Left(q)' /\ Missing(q)'
    BY DEF Sound, Same, Left, Missing
  <1>3. Finished(q)'
    BY DEF Sound, Same, Finished, RunMigrations
  <1> QED BY <1>1, <1>2, <1>3 DEF Sound

\* So a step of one process has to keep only what that process knows.
LEMMA OneAtATime ==
    ASSUME IInv, NEW r \in Replica, \A q \in Replica \ {r} : Same(q),
           ledger \subseteq ledger', pc[r] = "apply" \/ ledger' = ledger,
           Shape', Sound(r)'
    PROVE  IInv'
  <1>1. SUFFICES ASSUME NEW q \in Replica \ {r} PROVE Sound(q)'
    BY DEF IInv
  <1>2. pc[r] = "apply" => pc[q] # "apply"
    BY <1>1 DEF IInv, Sound, Holds
  <1> QED BY <1>1, <1>2, StandingStill DEF IInv

\* The end of a process.
LEMMA Ending ==
    ASSUME IInv, NEW r \in Replica, NEW how \in Ended \ {"conflict"}, End(r, how),
           pc[r] \in Starting \cup Serving,
           pending' = pending \/ pending' = [pending EXCEPT ![r] = {}],
           how = "done" /\ launch[r].command = "migrate" => pc[r] = "exit"
    PROVE  IInv'
  <1> USE DEF IInv, Shape, End, Goto
  <1>1. Shape'
    BY DEF Starting, Serving, Ended, Release
  <1>2. \A q \in Replica \ {r} : Same(q)
    BY ConstantsAssumption DEF Same, Release
  <1>3. /\ pc'[r] = how /\ config'[r] = None /\ todo'[r] = {} /\ module'[r] = 0
        /\ plan'[r] = {} /\ lock' # r /\ ledger' = ledger
        /\ launch'[r] = IF how = "done" THEN launch[r] ELSE None
    BY ConstantsAssumption DEF Release
  <1>4. Launched(r)' /\ Configured(r)' /\ Serves(r)' /\ Holds(r)' /\ Place(r)' /\ Left(r)'
        /\ Missing(r)' /\ (pc[r] # "conflict")'
    BY <1>3 DEF Sound, Launched, Configured, Serves, Holds, Place, Left, Missing,
                Starting, Serving, Ended, Migrating
  <1>5. Finished(r)'
    BY <1>3 DEF Sound, Finished, Serving, Ended
  <1> QED BY <1>1, <1>2, <1>3, <1>4, <1>5, OneAtATime DEF Sound

------------------------------------------------------------------------------

\* The processes start with nothing known.
LEMMA InvInit == Init => IInv
  BY ConstantsAssumption
  DEF Init, IInv, Shape, Sound, Launched, Configured, Serves, Holds, Place, Left, Missing,
      Finished, Starting, Serving, Ended, Migrating


\* Every step of a process keeps the invariant, one action at a time.
LEMMA InvStep ==
    ASSUME IInv, NEW r \in Replica,
           \/ \E l \in Launch : Start(r, l)
           \/ Step(r) \/ Lock(r) \/ Fail(r)
           \/ \E kind \in {"probe", "query"} : Accept(r, kind)
           \/ Healthcheck(r) \/ AnswerQuery(r) \/ RefuseQuery(r)
           \/ ShutdownSignal(r) \/ Shutdown(r) \/ Crash(r)
    PROVE  IInv'
  <1> USE DEF Goto, startup, database
  <1>a. Shape /\ Sound(r)
    BY DEF IInv
  <1>1. ASSUME NEW l \in Launch, Start(r, l) PROVE IInv'
    <2>1. Shape'
      BY <1>a, <1>1 DEF Start, Shape, Starting, Migrating
    <2>2. \A q \in Replica \ {r} : Same(q)
      BY <1>a, <1>1 DEF Start, Shape, Same
    <2>3. Sound(r)'
      BY <1>a, <1>1
      DEF Start, Shape, Sound, Launched, Configured, Serves, Holds, Place, Left, Missing,
          Finished, Starting, Serving, Ended, Migrating
    <2> QED BY <1>1, <2>1, <2>2, <2>3, OneAtATime DEF Start
  <1>2. ASSUME LoadConfig(r) PROVE IInv'
    <2>0. launch[r] \in Launch
      BY <1>a, <1>2 DEF LoadConfig, Sound, Launched, Starting
    <2>1. CASE Loads(launch[r])
      <3>1. Shape'
        BY <1>a, <1>2, <2>0, <2>1 DEF LoadConfig, Shape, Starting, Migrating
      <3>2. \A q \in Replica \ {r} : Same(q)
        BY <1>a, <1>2, <2>1 DEF LoadConfig, Shape, Same
      <3>3. Sound(r)'
        BY <1>a, <1>2, <2>0, <2>1
        DEF LoadConfig, Shape, Sound, Launched, Configured, Serves, Holds, Place, Left, Missing,
            Finished, Starting, Serving, Ended, Migrating
      <3> QED BY <1>2, <2>1, <3>1, <3>2, <3>3, OneAtATime DEF LoadConfig
    <2>2. CASE ~Loads(launch[r])
      BY <1>2, <2>0, <2>2, Ending DEF LoadConfig, Starting, Ended
    <2> QED BY <2>1, <2>2
  <1>3. ASSUME Dispatch(r) PROVE IInv'
    <2>1. CASE launch[r].command \in {"serve", "migrate"}
      <3>1. Shape'
        BY <1>a, <1>3, <2>1 DEF Dispatch, Shape, Starting, Migrating
      <3>2. \A q \in Replica \ {r} : Same(q)
        BY <1>a, <1>3, <2>1 DEF Dispatch, Shape, Same
      <3>3. Sound(r)'
        BY <1>a, <1>3, <2>1
        DEF Dispatch, Shape, Sound, Launched, Configured, Serves, Holds, Place, Left, Missing,
            Finished, Starting, Serving, Ended, Migrating
      <3> QED BY <1>3, <2>1, <3>1, <3>2, <3>3, OneAtATime DEF Dispatch
    <2>2. CASE launch[r].command \notin {"serve", "migrate"}
      BY <1>3, <2>2, Ending DEF Dispatch, Starting, Serving, Ended
    <2> QED BY <2>1, <2>2
  <1>4. ASSUME Connect(r) PROVE IInv'
    <2>0. launch[r] \in Launch
      BY <1>a, <1>4 DEF Connect, Sound, Launched, Starting
    <2>1. CASE MaxConnections(r) = 0 \/ (launch[r].command = "migrate" /\ Scope(launch[r]) = {})
      BY <1>4, <2>1, Ending DEF Connect, Starting, Serving, Ended
    <2>2. CASE ~(MaxConnections(r) = 0 \/ (launch[r].command = "migrate" /\ Scope(launch[r]) = {}))
      <3>0. /\ pc[r] = "connect" /\ UNCHANGED <<launch, config, module, plan, pending, ledger, lock, up>>
            /\ pc' = [pc EXCEPT ![r] = IF AfterConnect(r) = {} THEN Migrated(r) ELSE "lock"]
            /\ todo' = [todo EXCEPT ![r] = AfterConnect(r)]
        BY <1>4, <2>2 DEF Connect
      <3>1. /\ AfterConnect(r) = {} \/ AfterConnect(r) = Scope(launch[r])
            /\ AfterConnect(r) \in SUBSET Nat
            /\ RunMigrations(r) => AfterConnect(r) = Scope(launch[r])
        BY <2>0, ScopeType DEF AfterConnect
      <3>2. /\ Migrated(r) \in {"bind", "exit"}
            /\ Migrated(r) = "bind" <=> launch[r].command = "serve"
        BY DEF Migrated
      <3>3. Shape'
        BY <1>a, <3>0, <3>1, <3>2 DEF Shape, Starting, Migrating
      <3>4. \A q \in Replica \ {r} : Same(q)
        BY <1>a, <3>0 DEF Shape, Same
      <3>5. /\ pc'[r] = IF AfterConnect(r) = {} THEN Migrated(r) ELSE "lock"
            /\ todo'[r] = AfterConnect(r)
        BY <1>a, <3>0 DEF Shape
      <3>6. /\ Launched(r)' /\ Configured(r)' /\ Serves(r)' /\ Holds(r)' /\ Place(r)' /\ Missing(r)'
            /\ (pc[r] # "conflict")'
        BY <1>a, <3>0, <3>2, <3>5
        DEF Sound, Launched, Configured, Serves, Holds, Place, Missing, Starting,
            Serving, Migrating
      <3>7. Left(r)'
        <4>1. CASE AfterConnect(r) = {}
          BY <3>2, <3>5, <4>1 DEF Left, Migrating
        <4>2. CASE AfterConnect(r) # {}
          BY <3>0, <3>1, <3>5, <4>2 DEF Left, Migrating
        <4> QED BY <4>1, <4>2
      <3>8. Finished(r)'
        <4>1. CASE AfterConnect(r) = {}
          <5>1. pc'[r] = "exit" => launch[r].command # "serve"
            BY <3>2, <3>5, <4>1
          <5>2. pc'[r] = "exit" \/ RunMigrations(r) => Scope(launch[r]) = {}
            BY <3>1, <4>1, <5>1 DEF AfterConnect
          <5> QED BY <3>0, <3>2, <3>5, <4>1, <5>2 DEF Finished, RunMigrations
        <4>2. CASE AfterConnect(r) # {}
          BY <3>5, <4>2 DEF Finished, Serving
        <4> QED BY <4>1, <4>2
      <3> QED BY <3>0, <3>3, <3>4, <3>6, <3>7, <3>8, OneAtATime DEF Sound
    <2> QED BY <2>1, <2>2
  <1>5. ASSUME Bind(r) PROVE IInv'
    <2>1. Shape'
      BY <1>a, <1>5 DEF Bind, Shape, Serving
    <2>2. \A q \in Replica \ {r} : Same(q)
      BY <1>a, <1>5 DEF Bind, Shape, Same
    <2>3. Sound(r)'
      BY <1>a, <1>5
      DEF Bind, Shape, Sound, Launched, Configured, Serves, Holds, Place, Left, Missing,
          Finished, Starting, Serving, Migrating, RunMigrations
    <2> QED BY <1>5, <2>1, <2>2, <2>3, OneAtATime DEF Bind
  <1>6. ASSUME Exit(r) PROVE IInv'
    BY <1>6, Ending DEF Exit, Starting, Serving, Ended
  <1>7. ASSUME Fail(r) PROVE IInv'
    BY <1>7, Ending DEF Fail, Starting, Serving, Ended, Migrating
  <1>8. ASSUME Lock(r) PROVE IInv'
    <2>1. PICK i \in todo[r] : (\A j \in todo[r] : i <= j) /\ module' = [module EXCEPT ![r] = i]
      BY <1>8 DEF Lock
    <2>2. i \in Nat
      BY <1>a, <2>1 DEF Shape
    <2>3. Shape'
      BY <1>a, <1>8, <2>1, <2>2 DEF Lock, Shape, Starting, Migrating
    <2>4. \A q \in Replica \ {r} : Same(q)
      BY <1>a, <1>8, <2>1, ConstantsAssumption DEF Lock, Shape, Same
    <2>5. Sound(r)'
      BY <1>a, <1>8, <2>1
      DEF Lock, Shape, Sound, Launched, Configured, Serves, Holds, Place, Left, Missing,
          Finished, Starting, Serving, Migrating
    <2> QED BY <1>8, <2>3, <2>4, <2>5, OneAtATime DEF Lock
  <1>9. ASSUME List(r) PROVE IInv'
    <2> DEFINE missing == Versions(launch[r], module[r]) \ ledger
    <2>1. /\ pc[r] = "list" /\ pc' = [pc EXCEPT ![r] = "apply"]
          /\ plan' = [plan EXCEPT ![r] = missing]
          /\ UNCHANGED <<launch, config, todo, module, pending, ledger, lock, up>>
      BY <1>9 DEF List, IgnoreMissing
    <2>2. launch[r] \in Launch /\ module[r] \in Scope(launch[r])
      BY <1>a, <2>1 DEF Sound, Launched, Place, Left, Starting, Migrating
    <2>3. missing \in SUBSET Nat
      BY <2>2, ScopeType
    <2>4. Shape'
      BY <1>a, <2>1, <2>3 DEF Shape, Starting, Migrating
    <2>5. \A q \in Replica \ {r} : Same(q)
      BY <1>a, <2>1 DEF Shape, Same
    <2>6. Missing(r)'
      BY <1>a, <2>1 DEF Shape, Missing
    <2>7. Sound(r)'
      BY <1>a, <2>1, <2>6
      DEF Shape, Sound, Launched, Configured, Serves, Holds, Place, Left, Finished,
          Starting, Serving, Migrating
    <2> QED BY <2>1, <2>4, <2>5, <2>7, OneAtATime
  <1>10. ASSUME Apply(r) PROVE IInv'
    <2>1. PICK v \in plan[r] : IF v \in ledger THEN End(r, "conflict")
             ELSE /\ ledger' = ledger \cup {v}
                  /\ plan' = [plan EXCEPT ![r] = @ \ {v}]
                  /\ UNCHANGED <<pc, launch, config, todo, module, lock, up>>
      BY <1>10 DEF Apply
    <2>2. pc[r] = "apply" /\ pending' = pending
      BY <1>10 DEF Apply
    <2>3. v \notin ledger /\ v \in Nat
      BY <1>a, <2>2 DEF Sound, Missing, Shape
    <2>4. /\ ledger' = ledger \cup {v} /\ plan' = [plan EXCEPT ![r] = @ \ {v}]
          /\ UNCHANGED <<pc, launch, config, todo, module, lock, up>>
      BY <2>1, <2>3
    <2>5. Shape'
      BY <1>a, <2>2, <2>3, <2>4 DEF Shape
    <2>6. \A q \in Replica \ {r} : Same(q)
      BY <1>a, <2>2, <2>4 DEF Shape, Same
    <2>7. Missing(r)'
      BY <1>a, <2>2, <2>4 DEF Shape, Sound, Missing
    <2>8. Left(r)'
      BY <1>a, <2>2, <2>4 DEF Sound, Left, Migrating
    <2>9. Sound(r)'
      BY <1>a, <2>2, <2>4, <2>7, <2>8
      DEF Sound, Launched, Configured, Serves, Holds, Place, Finished, Starting, Serving
    <2> QED BY <2>2, <2>4, <2>5, <2>6, <2>9, OneAtATime
  <1>11. ASSUME Unlock(r) PROVE IInv'
    <2> DEFINE rest == todo[r] \ {module[r]}
    <2>1. /\ pc[r] = "apply" /\ plan[r] = {} /\ lock' = None
          /\ todo' = [todo EXCEPT ![r] = rest]
          /\ module' = [module EXCEPT ![r] = 0]
          /\ UNCHANGED <<launch, config, plan, pending, ledger, up>>
      BY <1>11 DEF Unlock
    <2>2. pc' = [pc EXCEPT ![r] = IF rest = {} THEN Migrated(r) ELSE "lock"]
      BY <1>a, <1>11 DEF Unlock, Shape
    <2>3. /\ Migrated(r) \in {"bind", "exit"}
          /\ Migrated(r) = "bind" => launch[r].command = "serve"
      BY DEF Migrated
    <2>4. Shape'
      BY <1>a, <2>1, <2>2, <2>3 DEF Shape, Starting, Migrating
    <2>5. lock = r
      BY <1>a, <2>1 DEF Sound, Holds
    <2>6. \A q \in Replica \ {r} : Same(q)
      BY <1>a, <2>1, <2>2, <2>5, ConstantsAssumption DEF Shape, Same
    <2>7. /\ pc'[r] = IF rest = {} THEN Migrated(r) ELSE "lock"
          /\ todo'[r] = rest /\ module'[r] = 0 /\ lock' # r
      BY <1>a, <2>1, <2>2, ConstantsAssumption DEF Shape
    <2>8. rest \subseteq Scope(launch[r])
      BY <1>a, <2>1 DEF Sound, Left, Migrating
    <2>9. \A i \in Scope(launch[r]) \ rest : Versions(launch[r], i) \subseteq ledger
      BY <1>a, <2>1 DEF Sound, Left, Missing, Migrating
    <2>10. Left(r)' /\ Finished(r)'
      <3>1. CASE rest = {}
        BY <2>1, <2>3, <2>7, <2>9, <3>1 DEF Left, Finished, Migrating
      <3>2. CASE rest # {}
        BY <2>1, <2>7, <2>8, <2>9, <3>2 DEF Left, Finished, Migrating, Serving
      <3> QED BY <3>1, <3>2
    <2>11. Sound(r)'
      BY <1>a, <2>1, <2>3, <2>7, <2>10
      DEF Sound, Launched, Configured, Serves, Holds, Place, Missing, Starting, Serving,
          Migrating
    <2> QED BY <2>1, <2>4, <2>6, <2>11, OneAtATime
  <1>12. ASSUME \/ \E kind \in {"probe", "query"} : Accept(r, kind) \/ Answer(r, kind)
                \/ ShutdownSignal(r)
         PROVE  IInv'
    <2>1. /\ UNCHANGED <<launch, config, todo, module, plan, ledger, lock, up>>
          /\ pc[r] \in Serving
          /\ pc' = pc \/ pc' = [pc EXCEPT ![r] = "draining"]
          /\ \E P \in SUBSET {"probe", "query"} : pending' = [pending EXCEPT ![r] = P]
      BY <1>a, <1>12 DEF Accept, Answer, ShutdownSignal, Shape, Serving
    <2>2. Shape'
      BY <1>a, <2>1 DEF Shape, Serving
    <2>3. \A q \in Replica \ {r} : Same(q)
      BY <1>a, <2>1 DEF Shape, Same
    <2>4. Sound(r)'
      BY <1>a, <2>1
      DEF Shape, Sound, Launched, Configured, Serves, Holds, Place, Left, Missing, Finished,
          Starting, Serving, Migrating, RunMigrations
    <2> QED BY <2>1, <2>2, <2>3, <2>4, OneAtATime
  <1>13. ASSUME Shutdown(r) PROVE IInv'
    <2>1. launch[r].command = "serve"
      BY <1>a, <1>13 DEF Shutdown, Sound, Serves, Serving
    <2> QED BY <1>13, <2>1, Ending DEF Shutdown, Starting, Serving, Ended
  <1>14. ASSUME Crash(r) PROVE IInv'
    BY <1>14, Ending DEF Crash, Ended
  <1> QED
    BY <1>1, <1>2, <1>3, <1>4, <1>5, <1>6, <1>7, <1>8, <1>9, <1>10, <1>11, <1>12, <1>13, <1>14
    DEF Step, Healthcheck, AnswerQuery, RefuseQuery

\* Nothing else does anything to a process.
LEMMA InvNext == IInv /\ [Next]_vars => IInv'
  <1> SUFFICES ASSUME IInv, [Next]_vars PROVE IInv'
    OBVIOUS
  <1>1. CASE DatabaseFails \/ DatabaseAnswers \/ UNCHANGED vars
    <2>1. UNCHANGED <<pc, launch, config, todo, module, plan, pending, ledger, lock>> /\ up' \in BOOLEAN
      BY <1>1 DEF DatabaseFails, DatabaseAnswers, vars, startup, database, IInv, Shape
    <2>2. Shape'
      BY <2>1 DEF IInv, Shape
    <2>3. \A q \in Replica : Same(q)
      BY <2>1 DEF Same
    <2> QED BY <2>1, <2>2, <2>3, StandingStill DEF IInv
  <1>2. CASE \E r \in Replica :
                \/ \E l \in Launch : Start(r, l)
                \/ Step(r) \/ Lock(r) \/ Fail(r)
                \/ \E kind \in {"probe", "query"} : Accept(r, kind)
                \/ Healthcheck(r) \/ AnswerQuery(r) \/ RefuseQuery(r)
                \/ ShutdownSignal(r) \/ Shutdown(r) \/ Crash(r)
    BY <1>2, InvStep
  <1> QED BY <1>1, <1>2 DEF Next

THEOREM Invariant == Spec => []IInv
  BY InvInit, InvNext, PTL DEF Spec

------------------------------------------------------------------------------

\* Types; a process that is not migrating holds no lock.
THEOREM TypeCorrect == Spec => []TypeOK
  <1>1. IInv => TypeOK
    <2> SUFFICES ASSUME IInv PROVE TypeOK
      OBVIOUS
    <2>1. ASSUME NEW r \in Replica PROVE config[r] = None \/ DOMAIN config[r] = Key
      BY DEF IInv, Sound, Configured, Load
    <2>2. ASSUME NEW r \in Replica, NEW i \in todo[r] \cup ({module[r]} \ {0})
          PROVE  launch[r] # None /\ i \in DOMAIN All(launch[r].release)
      <3>1. pc[r] \in Migrating /\ i \in todo[r]
        BY <2>2 DEF IInv, Sound, Place, Left, Migrating
      <3>2. launch[r] \in Launch /\ i \in Scope(launch[r])
        BY <3>1 DEF IInv, Sound, Launched, Left, Starting
      <3> QED BY <3>2, ScopeType, ConstantsAssumption
    <2>3. lock \in {r \in Replica : pc[r] \in {"list", "apply"}} \cup {None}
      BY DEF IInv, Shape, Sound, Holds
    <2> QED BY <2>1, <2>2, <2>3 DEF TypeOK, IInv, Shape
  <1> QED BY <1>1, Invariant, PTL

\* Whatever a process is given, it runs with that or stops at its configuration.
THEOREM ConfiguredAsGiven == Spec => []RunsAsConfigured
  <1>1. IInv => RunsAsConfigured
    <2> SUFFICES ASSUME IInv, NEW r \in Replica, config[r] # None
                 PROVE  /\ Given(launch[r], "JWT_SECRET") # None
                        /\ \A k \in Key : Given(launch[r], k) # None => config[r][k] = Given(launch[r], k)
      BY DEF RunsAsConfigured
    <2>1. Loads(launch[r]) /\ config[r] = Load(launch[r])
      BY DEF IInv, Sound, Configured
    <2>2. "JWT_SECRET" \in Key /\ Kind["JWT_SECRET"] = "required"
      BY DEF Key, Kind
    <2>3. Given(launch[r], "JWT_SECRET") # None
      BY <2>1, <2>2 DEF Loads
    <2>4. ASSUME NEW k \in Key, Given(launch[r], k) # None
          PROVE  config[r][k] = Given(launch[r], k)
      BY <2>1, <2>4 DEF Loads, Load, Read
    <2> QED BY <2>3, <2>4
  <1> QED BY <1>1, Invariant, PTL

\* Whoever else migrates, crashes or is of another release, a replica serves what is migrated.
THEOREM Migrates == Spec => []ServesMigrated
  <1>1. IInv => ServesMigrated
    BY DEF IInv, Sound, Finished, ServesMigrated
  <1> QED BY <1>1, Invariant, PTL

\* The advisory lock and set_ignore_missing keep processes out of one another's way.
THEOREM StartTogether == Spec => []ReplicasStartTogether
  <1>1. IInv => ReplicasStartTogether
    BY DEF IInv, Sound, ReplicasStartTogether
  <1> QED BY <1>1, Invariant, PTL

\* The ledger grows in order: what the applying process has behind it in its registry, and below it
\* in its module, is there.
THEOREM InOrder == Spec => AppliesInOrder
  <1> DEFINE Ordered ==
        /\ ledger \subseteq ledger'
        /\ \A v \in ledger' \ ledger : ledger' = ledger \cup {v} /\
              \E r \in Replica : pc[r] = "apply" /\
                 LET modules == Registry[launch[r].release] IN
                 \E i \in Scope(launch[r]) :
                    /\ v \in modules[i].versions
                    /\ \A w \in modules[i].versions : w < v => w \in ledger
                    /\ \A j \in Scope(launch[r]) : j < i => modules[j].versions \subseteq ledger
  <1>1. IInv /\ [Next]_vars => [Ordered]_ledger
    <2> SUFFICES ASSUME IInv, Next, ledger' # ledger PROVE Ordered
      BY DEF vars, database
    <2>1. PICK r \in Replica : Apply(r)
      BY DEF Next, Start, Step, LoadConfig, Dispatch, Connect, List, Unlock, Bind, Exit, Lock, Fail,
             Accept, Healthcheck, AnswerQuery, RefuseQuery, Answer, ShutdownSignal, Shutdown, Crash,
             DatabaseFails, DatabaseAnswers, End, database
    <2>2. Shape /\ Sound(r) /\ pc[r] = "apply"
      BY <2>1 DEF IInv, Apply
    <2>3. PICK v \in plan[r] : (\A w \in plan[r] : v <= w) /\ ledger' = ledger \cup {v}
      BY <2>1 DEF Apply, End
    <2> DEFINE l == launch[r]
               i == module[r]
    <2>4. l \in Launch /\ i \in Scope(l)
      BY <2>2 DEF Sound, Launched, Place, Left, Starting, Migrating
    <2>5. v \in Versions(l, i)
      BY <2>2, <2>3 DEF Sound, Missing
    <2>6. ASSUME NEW w \in Versions(l, i), w < v PROVE w \in ledger
      <3>1. v \in Nat /\ w \in Nat
        BY <2>4, <2>5, ScopeType
      <3>2. w \notin plan[r]
        BY <2>3, <2>6, <3>1
      <3> QED BY <2>2, <3>2 DEF Sound, Missing
    <2>7. ASSUME NEW j \in Scope(l), j < i PROVE Versions(l, j) \subseteq ledger
      <3>1. j \in Nat /\ i \in Nat
        BY <2>4, ScopeType
      <3>2. j \notin todo[r]
        BY <2>2, <2>7, <3>1 DEF Sound, Place
      <3> QED BY <2>2, <3>2 DEF Sound, Left, Migrating
    <2> QED BY <2>2, <2>3, <2>4, <2>5, <2>6, <2>7 DEF Versions, All
  <1> QED BY <1>1, Invariant, PTL DEF Spec, AppliesInOrder

===============================================================================
