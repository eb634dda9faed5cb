---------------------------- MODULE StartupProofs ----------------------------
(***************************************************************************)
(* Proofs about Startup, for every number of handlers and of changes of    *)
(* the environment.                                                        *)
(*                                                                         *)
(* StartupInv is inductive.  Each Once is a lock with a result: at most    *)
(* one handler is in its body (Env, Gvisor), and what the body wrote does  *)
(* not change once it is done.                                             *)
(***************************************************************************)
EXTENDS Startup, TLAPS

Key == {<<"development", "linux">>, <<"development", "windows">>, <<"production", "any">>,
        <<"staging", "any">>}
Known == {"staging", "production", "development"}
Phase == {"new", "running", "done"}

\* The profile every handler finds once the environment is known.
Current == ProfileFor(currentEnvironment, GetCurrentOs)

StartupType ==
  /\ once \in [env : Phase, gvisor : Phase]
  /\ installed \in {"unknown", "yes", "no"}
  /\ runtime \in [Key -> {"", "runsc"}]
  /\ pc \in [Handler -> {"idle", "env", "getenv", "validate", "lookup", "wrapper", "disable",
                         "create", "panic"}]
  /\ profile \in [Handler -> Key \cup {Nil}]
  /\ used \in [Handler -> {"none", "", "runsc"}]

\* envOnce: one handler in its body; the name is known when it is done, and
\* every profile was looked up after that.
Env ==
  /\ \A h \in Handler : pc[h] \in {"getenv", "validate"} => once.env = "running"
  /\ \A g, h \in Handler :
       pc[g] \in {"getenv", "validate"} /\ pc[h] \in {"getenv", "validate"} => g = h
  /\ once.env = "done" => currentEnvironment \in Known
  /\ \A h \in Handler :
       /\ pc[h] \in {"lookup", "wrapper", "disable", "create"} => once.env = "done"
       /\ pc[h] \in {"wrapper", "disable", "create"} => profile[h] = Current
       /\ profile[h] # Nil => once.env = "done" /\ profile[h] = Current
       /\ pc[h] # "idle" => installed # "unknown"

\* gvisorOnce: one handler in its body, after the environment is known; when it
\* is done, the profile in use does not ask for a runtime that is missing.
Gvisor ==
  /\ once.gvisor # "new" => once.env = "done"
  /\ \A h \in Handler : pc[h] = "disable" => once.gvisor = "running"
  /\ \A g, h \in Handler : pc[g] = "disable" /\ pc[h] = "disable" => g = h
  /\ \A h \in Handler : pc[h] = "create" => once.gvisor = "done"
  /\ once.gvisor = "done" /\ installed # "yes" => runtime[Current] # "runsc"

StartupInv == StartupType /\ Env /\ Gvisor /\ RuntimeInstalled

-----------------------------------------------------------------------------
(* Lemmas *)

\* The map of profiles.
LEMMA ProfilesType ==
  DOMAIN profiles = Key /\ profiles \in [Key -> {"", "runsc"}]
BY DEF profiles, Key

\* A known environment has a profile on every system: the fallback of
\* GetProfileForMachine is never reached.
LEMMA ProfileExists ==
  ASSUME NEW env \in Known, NEW os \in {"linux", "windows"}
  PROVE  ProfileFor(env, os) \in Key /\ ProfileFor(env, os) # Nil
<1>1. DOMAIN profiles = Key  BY ProfilesType
<1>2. CASE env = "development"  BY <1>1, <1>2 DEF ProfileFor, Key, Nil
<1>3. CASE env # "development"
  <2>1. <<env, os>> \notin Key /\ <<env, "any">> \in Key  BY <1>3 DEF Key, Known
  <2> QED BY <1>1, <2>1 DEF ProfileFor, Key, Nil
<1> QED BY <1>2, <1>3

\* Once the environment is known, the profile of the process exists.
LEMMA CurrentExists ==
  ASSUME currentEnvironment \in Known
  PROVE  Current \in Key /\ Current # Nil
<1>1. GetCurrentOs \in {"linux", "windows"}  BY DEF GetCurrentOs
<1> QED BY <1>1, ProfileExists DEF Current

\* Entering a Once moves the handler and takes the Once, or finds it done.
LEMMA EnterType ==
  ASSUME StartupType, NEW h \in Handler, NEW o \in {"env", "gvisor"},
         NEW body \in {"getenv", "disable"}, NEW after \in {"lookup", "create"},
         Enter(h, o, body, after)
  PROVE  /\ once' \in [env : Phase, gvisor : Phase]
         /\ \A q \in {"env", "gvisor"} \ {o} : once'[q] = once[q]
         /\ \A g \in Handler \ {h} : pc'[g] = pc[g]
         /\ pc' \in [Handler -> {"idle", "env", "getenv", "validate", "lookup", "wrapper",
                                 "disable", "create", "panic"}]
         /\ \/ once[o] = "new" /\ once'[o] = "running" /\ pc'[h] = body
            \/ once[o] = "done" /\ once'[o] = "done" /\ pc'[h] = after
<1>1. CASE once[o] = "new" /\ once' = [once EXCEPT ![o] = "running"] /\ Goto(h, body)
  BY <1>1 DEF StartupType, Goto, Phase
<1>2. CASE once[o] = "done" /\ once' = once /\ Goto(h, after)
  BY <1>2 DEF StartupType, Goto, Phase
<1> QED BY <1>1, <1>2 DEF Enter

-----------------------------------------------------------------------------
(* The steps *)

\* A handler calls GetProfileForMachine; an environment is read and checked.
LEMMA EnvironmentKeeps ==
  ASSUME StartupInv, NEW h \in Handler,
         CallGetProfile(h) \/ GetCurrentEnvironment(h) \/ Getenv(h) \/ Validate(h)
  PROVE  StartupInv'
<1> USE DEF StartupInv
<1>1. CASE CallGetProfile(h)
  <2>1. /\ installed # "unknown" /\ pc[h] = "idle" /\ pc' = [pc EXCEPT ![h] = "env"]
        /\ UNCHANGED <<goos, once, currentEnvironment, installed, runtime, profile, used>>
    BY <1>1 DEF CallGetProfile, Goto, outside
  <2>2. pc'[h] = "env" /\ \A g \in Handler \ {h} : pc'[g] = pc[g]
    BY <2>1 DEF StartupType
  <2>3. Current' = Current  BY <2>1 DEF Current, GetCurrentOs
  <2>4. StartupType'  BY <2>1 DEF StartupType
  <2>5. Env'  BY <2>1, <2>2, <2>3 DEF Env
  <2>6. Gvisor'  BY <2>1, <2>2, <2>3 DEF Gvisor
  <2> QED BY <2>1, <2>4, <2>5, <2>6 DEF RuntimeInstalled
<1>2. CASE GetCurrentEnvironment(h)
  <2>1. /\ pc[h] = "env" /\ Enter(h, "env", "getenv", "lookup")
        /\ UNCHANGED <<goos, currentEnvironment, installed, runtime, profile, used>>
    BY <1>2 DEF GetCurrentEnvironment, outside
  <2>2. /\ once' \in [env : Phase, gvisor : Phase] /\ once'["gvisor"] = once["gvisor"]
        /\ \A g \in Handler \ {h} : pc'[g] = pc[g]
        /\ pc' \in [Handler -> {"idle", "env", "getenv", "validate", "lookup", "wrapper", "disable",
                                "create", "panic"}]
        /\ \/ once.env = "new" /\ once'.env = "running" /\ pc'[h] = "getenv"
           \/ once.env = "done" /\ once'.env = "done" /\ pc'[h] = "lookup"
    BY <2>1, EnterType
  <2>3. once'.gvisor = once.gvisor  BY <2>2
  <2>4. Current' = Current  BY <2>1 DEF Current, GetCurrentOs
  <2>5. StartupType'  BY <2>1, <2>2 DEF StartupType
  <2>6. Env'  BY <2>1, <2>2, <2>4 DEF Env
  <2>7. Gvisor'  BY <2>1, <2>2, <2>3, <2>4 DEF Gvisor
  <2> QED BY <2>1, <2>5, <2>6, <2>7 DEF RuntimeInstalled
<1>3. CASE Getenv(h)
  <2>1. /\ pc[h] = "getenv" /\ pc' = [pc EXCEPT ![h] = "validate"]
        /\ UNCHANGED <<goos, once, installed, runtime, profile, used>>
    BY <1>3 DEF Getenv, Goto, outside
  <2>2. pc'[h] = "validate" /\ \A g \in Handler \ {h} : pc'[g] = pc[g]
    BY <2>1 DEF StartupType
  <2>3. once.env = "running" /\ once.gvisor = "new"
    BY <2>1 DEF Env, Gvisor, StartupType, Phase
  <2>4. StartupType'  BY <2>1 DEF StartupType
  <2>5. Env'  BY <2>1, <2>2, <2>3 DEF Env
  <2>6. Gvisor'  BY <2>1, <2>2, <2>3 DEF Gvisor
  <2> QED BY <2>1, <2>4, <2>5, <2>6 DEF RuntimeInstalled
<1>4. CASE Validate(h)
  <2>1. /\ pc[h] = "validate" /\ pc' = [pc EXCEPT ![h] = "lookup"]
        /\ currentEnvironment' = KnownEnvironment(currentEnvironment)
        /\ once' = [once EXCEPT !.env = "done"]
        /\ UNCHANGED <<goos, installed, runtime, profile, used>>
    BY <1>4 DEF Validate, Goto, outside
  <2>2. /\ pc'[h] = "lookup" /\ \A g \in Handler \ {h} : pc'[g] = pc[g]
        /\ once'.env = "done" /\ once'.gvisor = once.gvisor
    BY <2>1 DEF StartupType
  <2>3. once.env = "running" /\ once.gvisor = "new"
    BY <2>1 DEF Env, Gvisor, StartupType, Phase
  <2>4. currentEnvironment' \in Known  BY <2>1 DEF KnownEnvironment, DefaultEnvironment, Known
  <2>5. StartupType'  BY <2>1 DEF StartupType, Phase
  <2>6. Env'  BY <2>1, <2>2, <2>3, <2>4 DEF Env
  <2>7. Gvisor'  BY <2>1, <2>2, <2>3 DEF Gvisor
  <2> QED BY <2>1, <2>5, <2>6, <2>7 DEF RuntimeInstalled
<1> QED BY <1>1, <1>2, <1>3, <1>4

\* The profile is looked up, and the wrapper around gvisorOnce is entered.
LEMMA LookupKeeps ==
  ASSUME StartupInv, NEW h \in Handler, Lookup(h) \/ CheckWrapper(h)
  PROVE  StartupInv'
<1> USE DEF StartupInv
<1>1. CASE Lookup(h)
  <2>1. /\ pc[h] = "lookup" /\ pc' = [pc EXCEPT ![h] = "wrapper"]
        /\ profile' = [profile EXCEPT ![h] = Current]
        /\ UNCHANGED <<goos, currentEnvironment, once, installed, runtime, used>>
    BY <1>1 DEF Lookup, Goto, outside, Current
  <2>2. Current' = Current  BY <2>1 DEF Current, GetCurrentOs
  <2>3. once.env = "done" /\ Current \in Key  BY <2>1, CurrentExists DEF Env
  <2>4. /\ pc'[h] = "wrapper" /\ profile'[h] = Current
        /\ \A g \in Handler \ {h} : pc'[g] = pc[g] /\ profile'[g] = profile[g]
    BY <2>1 DEF StartupType
  <2>5. StartupType'  BY <2>1, <2>3 DEF StartupType
  <2>6. Env'  BY <2>1, <2>2, <2>3, <2>4 DEF Env
  <2>7. Gvisor'  BY <2>1, <2>2, <2>4 DEF Gvisor
  <2> QED BY <2>1, <2>5, <2>6, <2>7 DEF RuntimeInstalled
<1>2. CASE CheckWrapper(h)
  <2>1. /\ pc[h] = "wrapper" /\ Enter(h, "gvisor", "disable", "create")
        /\ UNCHANGED <<goos, currentEnvironment, installed, runtime, profile, used>>
    BY <1>2 DEF CheckWrapper, outside
  <2>2. /\ once' \in [env : Phase, gvisor : Phase] /\ once'["env"] = once["env"]
        /\ \A g \in Handler \ {h} : pc'[g] = pc[g]
        /\ pc' \in [Handler -> {"idle", "env", "getenv", "validate", "lookup", "wrapper", "disable",
                                "create", "panic"}]
        /\ \/ once.gvisor = "new" /\ once'.gvisor = "running" /\ pc'[h] = "disable"
           \/ once.gvisor = "done" /\ once'.gvisor = "done" /\ pc'[h] = "create"
    BY <2>1, EnterType
  <2>3. once'.env = once.env  BY <2>2
  <2>4. Current' = Current  BY <2>1 DEF Current, GetCurrentOs
  <2>5. once.env = "done" /\ profile[h] = Current  BY <2>1 DEF Env
  <2>6. StartupType'  BY <2>1, <2>2 DEF StartupType
  <2>7. Env'  BY <2>1, <2>2, <2>3, <2>4, <2>5 DEF Env
  <2>8. Gvisor'  BY <2>1, <2>2, <2>3, <2>4, <2>5 DEF Gvisor
  <2> QED BY <2>1, <2>6, <2>7, <2>8 DEF RuntimeInstalled
<1> QED BY <1>1, <1>2

\* The runtime of the profile in use is reset, and containers are created.
LEMMA ContainerKeeps ==
  ASSUME StartupInv, NEW h \in Handler, DisableGVisor(h) \/ CreateContainer(h)
  PROVE  StartupInv'
<1> USE DEF StartupInv
<1>1. pc[h] \in {"disable", "create"}  BY DEF DisableGVisor, CreateContainer
<1>2. once.env = "done" /\ profile[h] = Current /\ Current \in Key /\ Current # Nil
  BY <1>1, CurrentExists DEF Env
<1>3. UNCHANGED <<goos, currentEnvironment, installed, profile>>
  BY DEF DisableGVisor, CreateContainer, outside
<1>4. Current' = Current  BY <1>3 DEF Current, GetCurrentOs
<1>5. CASE DisableGVisor(h)
  <2>1. /\ pc[h] = "disable" /\ pc' = [pc EXCEPT ![h] = "create"]
        /\ runtime' = IF installed = "no" THEN [runtime EXCEPT ![Current] = ""] ELSE runtime
        /\ once' = [once EXCEPT !.gvisor = "done"] /\ used' = used
    BY <1>2, <1>5 DEF DisableGVisor, Goto
  <2>2. /\ pc'[h] = "create" /\ \A g \in Handler \ {h} : pc'[g] = pc[g]
        /\ once'.gvisor = "done" /\ once'.env = once.env
    BY <2>1 DEF StartupType
  <2>3. StartupType'  BY <1>2, <1>3, <2>1 DEF StartupType, Phase
  <2>4. Env'  BY <1>2, <1>3, <1>4, <2>1, <2>2 DEF Env
  <2>5. installed # "yes" => runtime'[Current] # "runsc"
    <3>1. installed # "unknown"  BY <2>1 DEF Env
    <3> QED BY <1>2, <2>1, <3>1 DEF StartupType
  <2>6. Gvisor'  BY <1>2, <1>3, <1>4, <2>1, <2>2, <2>5 DEF Gvisor
  <2> QED BY <1>3, <2>1, <2>3, <2>4, <2>6 DEF RuntimeInstalled
<1>6. CASE CreateContainer(h)
  <2>1. /\ pc[h] = "create" /\ pc' = [pc EXCEPT ![h] = "idle"]
        /\ used' = [used EXCEPT ![h] = runtime[Current]]
        /\ UNCHANGED <<once, runtime>>
    BY <1>2, <1>6 DEF CreateContainer, Goto
  <2>2. /\ pc'[h] = "idle" /\ \A g \in Handler \ {h} : pc'[g] = pc[g]
        /\ used'[h] = runtime[Current] /\ \A g \in Handler \ {h} : used'[g] = used[g]
    BY <2>1 DEF StartupType
  <2>3. runtime[Current] \in {"", "runsc"}  BY <1>2 DEF StartupType
  <2>4. StartupType'  BY <1>3, <2>1, <2>3 DEF StartupType
  <2>5. Env'  BY <1>2, <1>3, <1>4, <2>1, <2>2 DEF Env
  <2>6. Gvisor'  BY <1>2, <1>3, <1>4, <2>1, <2>2 DEF Gvisor
  <2>7. runtime[Current] = "runsc" => installed = "yes"  BY <2>1 DEF Gvisor
  <2>8. RuntimeInstalled'  BY <1>3, <2>2, <2>7 DEF RuntimeInstalled
  <2> QED BY <2>4, <2>5, <2>6, <2>8
<1> QED BY <1>5, <1>6

\* The manager's question to Docker, and a change of the variable or the file.
LEMMA OutsideKeeps ==
  ASSUME StartupInv, NewManager \/ Change
  PROVE  StartupInv'
<1> USE DEF StartupInv
<1>1. UNCHANGED <<goos, once, currentEnvironment, runtime, pc, profile, used>>
  BY DEF NewManager, Change, outside
<1>2. Current' = Current  BY <1>1 DEF Current, GetCurrentOs
<1>3. installed' = installed \/ (installed = "unknown" /\ installed' \in {"yes", "no"})
  BY DEF NewManager, Change, IsGvisorInstalled
<1>4. StartupType'  BY <1>1, <1>3 DEF StartupType
<1>5. Env'  BY <1>1, <1>2, <1>3 DEF Env
<1>6. Gvisor'  BY <1>1, <1>2, <1>3 DEF Gvisor
<1>7. RuntimeInstalled'  BY <1>1, <1>3 DEF RuntimeInstalled
<1> QED BY <1>4, <1>5, <1>6, <1>7

-----------------------------------------------------------------------------
(* The theorems *)

\* The invariant over the two Onces, the profiles and the handlers is inductive.
THEOREM StartupInvariance == Spec => []StartupInv
<1>1. Init => StartupInv
  <2> SUFFICES ASSUME Init PROVE StartupInv  OBVIOUS
  <2>1. StartupType  BY ProfilesType DEF Init, StartupType, Phase
  <2>2. once.env = "new" /\ once.gvisor = "new"  BY DEF Init
  <2>3. Env  BY <2>2 DEF Init, Env
  <2>4. Gvisor  BY <2>2 DEF Init, Gvisor
  <2>5. RuntimeInstalled  BY DEF Init, RuntimeInstalled
  <2> QED BY <2>1, <2>3, <2>4, <2>5 DEF StartupInv
<1>2. StartupInv /\ [Next]_vars => StartupInv'
  <2> SUFFICES ASSUME StartupInv, [Next]_vars PROVE StartupInv'  OBVIOUS
  <2>1. ASSUME NEW h \in Handler, HandlerStep(h) PROVE StartupInv'
    BY <2>1, EnvironmentKeeps, LookupKeeps, ContainerKeeps DEF HandlerStep, ProfileStep
  <2>2. CASE UNCHANGED vars
    BY <2>2 DEF vars, StartupInv, StartupType, Env, Gvisor, RuntimeInstalled, Current, GetCurrentOs
  <2> QED BY <2>1, <2>2, OutsideKeeps DEF Next
<1> QED BY <1>1, <1>2, PTL DEF Spec

\* No handler goes on with the nil pointer of the fallback.
THEOREM EveryoneHasProfile == Spec => []ProfileFound
<1>1. StartupInv => ProfileFound
  BY CurrentExists DEF StartupInv, Env, ProfileFound
<1> QED BY <1>1, StartupInvariance, PTL

\* No container is created with a runtime that Docker did not have at start-up.
THEOREM RuntimeIsInstalled == Spec => []RuntimeInstalled
<1>1. StartupInv => RuntimeInstalled  BY DEF StartupInv
<1> QED BY <1>1, StartupInvariance, PTL

\* All containers of a process run under one profile.
THEOREM ProfileIsUnique == Spec => []OneProfile
<1>1. StartupInv => OneProfile  BY DEF StartupInv, Env, OneProfile
<1> QED BY <1>1, StartupInvariance, PTL
=============================================================================
