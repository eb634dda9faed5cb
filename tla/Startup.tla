------------------------------ MODULE Startup ------------------------------
(***************************************************************************)
(* The values a loader process works out once and then shares: the         *)
(* environment's name (internal/config), whether Docker has the gVisor     *)
(* runtime (internal/docker), and the profile the handlers run containers  *)
(* with (internal/sandbox/profile.go).  The first handlers meet in them    *)
(* concurrently.  The profiles are shared pointers, and the first call     *)
(* writes to one of them.                                                  *)
(***************************************************************************)
EXTENDS Naturals

CONSTANTS
  Handler,      \* handler goroutines
  MaxChanges    \* how often the variable or daemon.json is changed

ASSUME StartupAssumption == MaxChanges \in Nat

DefaultEnvironment == "development"

\* os.Getenv: the known names, another name, and a variable that is not set.
Environ == {"development", "staging", "production", "other", ""}

\* /etc/docker/daemon.json
Daemon == {"missing", "unreadable", "garbled", "plain", "runsc"}

\* A key of profiles is an environment, alone ("any") or with a system.  Of a
\* profile only the runtime it asks for matters here.
profiles ==
  [key \in {<<"development", "linux">>, <<"development", "windows">>, <<"production", "any">>,
            <<"staging", "any">>}
     |-> IF key = <<"development", "windows">> THEN "" ELSE "runsc"]

Nil == <<"nil", "nil">>

VARIABLES
  goos,                \* runtime.GOOS
  environ,             \* the environment variable
  daemon,              \* daemon.json
  changes,             \* changes of the two so far
  once,                \* envOnce and gvisorOnce: new, running or done
  currentEnvironment,
  installed,           \* docker.installed; "unknown" before its once
  runtime,             \* Runtime of each profile
  pc,
  profile,             \* what GetProfileForMachine has found
  used                 \* the runtime the handler's container was created with

vars == <<goos, environ, daemon, changes, once, currentEnvironment, installed,
          runtime, pc, profile, used>>
outside == <<goos, environ, daemon, changes>>

Init ==
  /\ goos \in {"linux", "windows", "darwin"}
  /\ environ \in Environ /\ daemon \in Daemon /\ changes = 0
  /\ once = [env |-> "new", gvisor |-> "new"]
  /\ currentEnvironment = ""
  /\ installed = "unknown"
  /\ runtime = profiles
  /\ pc = [h \in Handler |-> "idle"]
  /\ profile = [h \in Handler |-> Nil]
  /\ used = [h \in Handler |-> "none"]

Goto(h, next) == pc' = [pc EXCEPT ![h] = next]

-----------------------------------------------------------------------------
\* A missing, unreadable or garbled file means that gVisor is not installed.
IsGvisorInstalled == IF daemon = "runsc" THEN "yes" ELSE "no"

\* NewSandboxContainerManager asks before there are handlers; the later calls
\* find docker.once done.
NewManager ==
  /\ installed = "unknown"
  /\ installed' = IsGvisorInstalled
  /\ UNCHANGED <<outside, once, currentEnvironment, runtime, pc, profile, used>>

\* Mutant: a plain flag instead of the Once, set before the work is done.
Enter_Flag(h, o, body, after) ==
  IF once[o] = "new" THEN once' = [once EXCEPT ![o] = "done"] /\ Goto(h, body)
  ELSE once' = once /\ Goto(h, after)

\* sync.Once: the first caller runs the body, the others wait for its end.
Enter(h, o, body, after) ==
  \/ once[o] = "new" /\ once' = [once EXCEPT ![o] = "running"] /\ Goto(h, body)
  \/ once[o] = "done" /\ once' = once /\ Goto(h, after)

\* A handler calls GetProfileForMachine.
CallGetProfile(h) ==
  /\ installed # "unknown" /\ pc[h] = "idle"
  /\ Goto(h, "env")
  /\ UNCHANGED <<outside, once, currentEnvironment, installed, runtime, profile, used>>

\* Mutant: the environment is looked up at every call.
GetCurrentEnvironment_NoOnce(h) ==
  /\ pc[h] = "env"
  /\ once' = once
  /\ Goto(h, "getenv")
  /\ UNCHANGED <<outside, currentEnvironment, installed, runtime, profile, used>>

\* envOnce.Do
GetCurrentEnvironment(h) ==
  /\ pc[h] = "env"
  /\ Enter(h, "env", "getenv", "lookup")
  /\ UNCHANGED <<outside, currentEnvironment, installed, runtime, profile, used>>

Getenv(h) ==
  /\ pc[h] = "getenv"
  /\ currentEnvironment' = environ
  /\ Goto(h, "validate")
  /\ UNCHANGED <<outside, once, installed, runtime, profile, used>>

\* Mutant: only an empty name is replaced.
KnownEnvironment_Any(name) == IF name = "" THEN DefaultEnvironment ELSE name

KnownEnvironment(name) ==
  IF name \in {"staging", "production", "development"} THEN name ELSE DefaultEnvironment

\* Mutant: a mutex and a flag instead of the Once, and the return for a name
\* that is not set, or not known, forgets to unlock.
Validate_NoUnlock(h) ==
  /\ pc[h] = "validate"
  /\ currentEnvironment' = KnownEnvironment(currentEnvironment)
  /\ once' = IF currentEnvironment' = currentEnvironment THEN [once EXCEPT !.env = "done"]
             ELSE once
  /\ Goto(h, "lookup")
  /\ UNCHANGED <<outside, installed, runtime, profile, used>>

\* The empty and the unknown names are replaced.
Validate(h) ==
  /\ pc[h] = "validate"
  /\ currentEnvironment' = KnownEnvironment(currentEnvironment)
  /\ once' = [once EXCEPT !.env = "done"]
  /\ Goto(h, "lookup")
  /\ UNCHANGED <<outside, installed, runtime, profile, used>>

GetCurrentOs == IF goos = "windows" THEN "windows" ELSE "linux"

\* The fallback asks for DefaultEnvironment alone, which is not in the map: a
\* nil pointer.
ProfileFor(env, os) ==
  CASE <<env, os>> \in DOMAIN profiles -> <<env, os>>
    [] <<env, os>> \notin DOMAIN profiles /\ <<env, "any">> \in DOMAIN profiles -> <<env, "any">>
    [] OTHER -> Nil

Lookup(h) ==
  /\ pc[h] = "lookup"
  /\ profile' = [profile EXCEPT ![h] = ProfileFor(currentEnvironment, GetCurrentOs)]
  /\ Goto(h, "wrapper")
  /\ UNCHANGED <<outside, once, currentEnvironment, installed, runtime, used>>

CheckWrapper(h) ==
  /\ pc[h] = "wrapper"
  /\ Enter(h, "gvisor", "disable", "create")
  /\ UNCHANGED <<outside, currentEnvironment, installed, runtime, profile, used>>

\* The body of gvisorOnce resets the profile of the first caller only.
DisableGVisor(h) ==
  /\ pc[h] = "disable"
  /\ runtime' = IF installed = "no" /\ profile[h] # Nil
                THEN [runtime EXCEPT ![profile[h]] = ""] ELSE runtime
  /\ once' = [once EXCEPT !.gvisor = "done"]
  /\ Goto(h, IF installed = "no" /\ profile[h] = Nil THEN "panic" ELSE "create")
  /\ UNCHANGED <<outside, currentEnvironment, installed, profile, used>>

\* execute reads the profile through the pointer.
CreateContainer(h) ==
  /\ pc[h] = "create"
  /\ IF profile[h] = Nil THEN Goto(h, "panic") /\ used' = used
     ELSE Goto(h, "idle") /\ used' = [used EXCEPT ![h] = runtime[profile[h]]]
  /\ UNCHANGED <<outside, once, currentEnvironment, installed, runtime, profile>>

\* "the chance the value is overwritten during runtime" (config.go:16-17), and
\* an administrator edits daemon.json.
Change ==
  /\ changes < MaxChanges
  /\ changes' = changes + 1
  /\ \/ environ' \in Environ \ {environ} /\ daemon' = daemon
     \/ daemon' \in Daemon \ {daemon} /\ environ' = environ
  /\ UNCHANGED <<goos, once, currentEnvironment, installed, runtime, pc, profile, used>>

\* A step inside GetProfileForMachine.
ProfileStep(h) ==
  \/ GetCurrentEnvironment(h) \/ Getenv(h) \/ Validate(h) \/ Lookup(h)
  \/ CheckWrapper(h) \/ DisableGVisor(h)

HandlerStep(h) == CallGetProfile(h) \/ ProfileStep(h) \/ CreateContainer(h)

Next == NewManager \/ Change \/ \E h \in Handler : HandlerStep(h)

Spec == Init /\ [][Next]_vars

\* A goroutine inside GetProfileForMachine is scheduled.  Nobody has to call
\* it: a handler does when a message arrives.
FairSpec == Spec /\ \A h \in Handler : WF_vars(ProfileStep(h))
-----------------------------------------------------------------------------
(* Properties *)

\* Whatever the variable holds and however the first calls interleave, no
\* handler goes on with the nil profile that the fallback of
\* GetProfileForMachine would return.
ProfileFound ==
  \A h \in Handler : pc[h] \in {"wrapper", "disable", "create"} => profile[h] # Nil

\* No container is created with a runtime Docker did not have at start-up,
\* although only the first handler resets only its own profile.
RuntimeInstalled ==
  \A h \in Handler : used[h] = "runsc" => installed = "yes"

\* All containers of a process run under one profile, so under the same
\* limits, even if the variable is overwritten (config.go:15-17).
OneProfile ==
  \A g, h \in Handler : profile[g] # Nil /\ profile[h] # Nil => profile[g] = profile[h]

\* Every call of GetProfileForMachine returns: whoever waits in one of the two
\* Onces for the first caller is let go, whatever that caller finds.
ProfileReturned ==
  \A h \in Handler : pc[h] = "env" ~> pc[h] = "create"
=============================================================================
