--------------------------- MODULE PluginLifecycle ---------------------------
(***************************************************************************)
(* The lifecycle of a PluginSystem: loadPlugins(), shutdownPlugins() and   *)
(* remoteCommand(), called by the host's threads and, reentrantly, by the  *)
(* plugins whose callbacks these functions run.                            *)
(*                                                                         *)
(* A thread is a stack of frames: an API call at one of its loops, a run   *)
(* of dispatchRemoteCommand, or a callback, a virtual function of IPlugin  *)
(* in which the thread executes code of the plugin's library.  A frame's   *)
(* "next" is the position in loadOrder its loop goes on with, of a         *)
(* callback the position of its plugin.                                    *)
(*                                                                         *)
(* resolveDependencies() is one step that picks an order among             *)
(* Resolutions; module DependencyResolution is its detail.                 *)
(***************************************************************************)
EXTENDS Integers, SequencesExt, LoadOrder

CONSTANTS
    Plugins,
    Threads,
    NoThread,
    HostCalls,     \* <<thread, API>>: the calls the host makes
    Reentry,       \* <<callback, API>>: the calls plugins make in a callback
    Resolutions,   \* what resolveDependencies() may establish
    Pinned,        \* libraries that stay mapped when their last handle closes
    MaxCommands    \* bound on the remote commands passed

APIs == {"loadPlugins", "shutdownPlugins", "remoteCommand"}

Callbacks == {"initialize", "pluginsInitialized", "remoteCommand", "aboutToShutdown"}

\* A theorem about DependencyResolution says the same of its outcome.
ASSUME ResolutionAssumption == \A r \in Resolutions : IsResolution(r, Plugins)
ASSUME ThreadAssumption == NoThread \notin Threads
ASSUME CallAssumption ==
    /\ HostCalls \subseteq Threads \X APIs
    /\ Reentry \subseteq Callbacks \X APIs
ASSUME BoundAssumption == MaxCommands \in Nat

\* Commands are for the thread that calls loadPlugins() (pluginsystem.h:143).  Their
\* functions hold no lock and read plain flags and states, so a shutdown on another
\* thread would race with them: a system that is given commands has one thread here,
\* on which calls only nest.
SingleThread == \A t, u \in Threads : t = u
ASSUME CommandAssumption == MaxCommands > 0 => SingleThread

\* Plugins that do not take part stay "Read", whatever resolution made of them.
States == {"Read", "Resolved", "Loaded", "Initialized", "Running", "Stopped"}

Errors == {"none", "dependency", "load", "type", "init", "unload"}

NoCommand == 0

Frame ==
    [call : {"loadPlugins", "shutdownPlugins", "dispatch", "callback"},
     at : Callbacks \cup {"enter", "resolve", "load", "ready", "pending",
                          "pass", "notify", "unload"},
     next : Nat, command : Nat]

VARIABLES
    loadStarted,
    shutdownFinished,
    loadFinished,
    lifecycleMtx,   \* the thread that holds it, or NoThread
    pending,        \* pendingRemoteCommands
    loadOrder,
    required,       \* the required part of resolvedDependencies
    state,          \* PluginSpecData::state
    error,          \* the kind of PluginSpecData::errorMessage
    mapped,         \* the loader is loaded
    stack,          \* the frames of each thread
    passed,         \* auxiliary: how many commands were accepted
    kept,           \* auxiliary: how many of them were kept
    calls           \* auxiliary: the callbacks each plugin was given, in order

flags == <<loadStarted, shutdownFinished, loadFinished>>
resolution == <<loadOrder, required>>
commands == <<pending, passed, kept>>
specs == <<state, error, mapped>>
vars == <<flags, lifecycleMtx, commands, resolution, specs, stack, calls>>

-----------------------------------------------------------------------------
(* Frames.                                                                 *)

Top(t) == Last(stack[t])

At(t, call, at) ==
    stack[t] # <<>> /\ Top(t).call = call /\ Top(t).at = at

\* The plugin the top frame of a thread is concerned with.
Current(t) == loadOrder[Top(t).next]

InOrder(t) == Top(t).next \in DOMAIN loadOrder

Goto(t, at, next) ==
    stack' = [stack EXCEPT ![t] =
                  Append(Front(@), [Last(@) EXCEPT !.at = at, !.next = next])]

Return(t) == stack' = [stack EXCEPT ![t] = Front(@)]

Push(t, frame) == stack' = [stack EXCEPT ![t] = Append(@, frame)]

\* The loop at the top of thread t goes on with "next" once the frame that is
\* pushed here returns.
PushFromLoop(t, next, frame) ==
    stack' = [stack EXCEPT ![t] = Front(@) \o <<[Last(@) EXCEPT !.next = next], frame>>]

\* Mutant: the loop has moved on when the plugin is called.
Called_Next(t, next) == next

Called(t, next) == Top(t).next

\* A virtual call on the current plugin, recorded in its history.
CallBack(t, at, next) ==
    /\ PushFromLoop(t, next, [call |-> "callback", at |-> at, next |-> Called(t, next),
                              command |-> Top(t).command])
    /\ calls' = [calls EXCEPT ![Current(t)] =
                     Append(@, [at |-> at, command |-> Top(t).command])]

\* Whether a thread can execute code of the library.
CodeMapped(p) == mapped[p] \/ p \in Pinned

\* The host calls from outside of any API call, a plugin from a callback.
MayCall(t, api) ==
    \/ stack[t] = <<>> /\ <<t, api>> \in HostCalls
    \/ /\ stack[t] # <<>>
       /\ Top(t).call = "callback"
       /\ <<Top(t).at, api>> \in Reentry
       /\ CodeMapped(Current(t))

RequiredAtState(p, s) == \A d \in required[p] : state[d] = s

ReportError(p, kind) == error' = [error EXCEPT ![p] = kind]

SetState(p, s) == state' = [state EXCEPT ![p] = s]

Acquire(t) == lifecycleMtx = NoThread /\ lifecycleMtx' = t

\* The lock is taken and released within the step.
Lockable == lifecycleMtx = NoThread

Release == lifecycleMtx' = NoThread

-----------------------------------------------------------------------------
Init ==
    /\ loadStarted = FALSE
    /\ shutdownFinished = FALSE
    /\ loadFinished = FALSE
    /\ lifecycleMtx = NoThread
    /\ pending = <<>>
    /\ loadOrder = <<>>
    /\ required = [p \in Plugins |-> {}]
    /\ state = [p \in Plugins |-> "Read"]
    /\ error = [p \in Plugins |-> "none"]
    /\ mapped = [p \in Plugins |-> FALSE]
    /\ stack = [t \in Threads |-> <<>>]
    /\ passed = 0
    /\ kept = 0
    /\ calls = [p \in Plugins |-> <<>>]

\* loadPlugins() or shutdownPlugins() is called and waits for the lock.
Call(t) ==
    /\ \E api \in {"loadPlugins", "shutdownPlugins"} :
           /\ MayCall(t, api)
           /\ Push(t, [call |-> api, at |-> "enter", next |-> 0, command |-> NoCommand])
    /\ UNCHANGED <<flags, lifecycleMtx, commands, resolution, specs, calls>>

-----------------------------------------------------------------------------
(* loadPlugins().                                                          *)

\* Mutant: the flag is read before the lock is taken.
NothingToLoad_BeforeLock == loadStarted

NothingToLoad == Lockable /\ loadStarted

LoadAgain(t) ==
    /\ At(t, "loadPlugins", "enter")
    /\ NothingToLoad
    /\ Return(t)
    /\ UNCHANGED <<flags, lifecycleMtx, commands, resolution, specs, calls>>

LoadStart(t) ==
    /\ At(t, "loadPlugins", "enter")
    /\ Acquire(t)
    /\ ~loadStarted
    /\ loadStarted' = TRUE
    /\ Goto(t, "resolve", 0)
    /\ UNCHANGED <<shutdownFinished, loadFinished, commands, resolution, specs, calls>>

\* selectPlugins() and resolveDependencies().
Resolve(t) ==
    /\ At(t, "loadPlugins", "resolve")
    /\ \E r \in Resolutions :
           /\ loadOrder' = r.order
           /\ required' = r.required
           /\ state' = [p \in Plugins |->
                            IF p \in ToSet(r.order) THEN "Resolved" ELSE state[p]]
    /\ Goto(t, "load", 1)
    /\ UNCHANGED <<flags, lifecycleMtx, commands, error, mapped, calls>>

LoadAllowed(p) == RequiredAtState(p, "Loaded")

\* One iteration of the load pass: the plugin is rejected, load() fails, the
\* library holds something else than an IPlugin, or the plugin is loaded.
LoadStep(t) ==
    /\ At(t, "loadPlugins", "load")
    /\ InOrder(t)
    /\ LET p == Current(t) IN
       IF ~LoadAllowed(p)
       THEN ReportError(p, "dependency") /\ UNCHANGED <<state, mapped>>
       ELSE \/ ReportError(p, "load") /\ UNCHANGED <<state, mapped>>
            \/ /\ ReportError(p, "type")
               /\ mapped' = [mapped EXCEPT ![p] = TRUE]
               /\ UNCHANGED state
            \/ /\ SetState(p, "Loaded")
               /\ mapped' = [mapped EXCEPT ![p] = TRUE]
               /\ UNCHANGED error
    /\ Goto(t, "load", Top(t).next + 1)
    /\ UNCHANGED <<flags, lifecycleMtx, commands, resolution, calls>>

LoadPassEnds(t) ==
    /\ At(t, "loadPlugins", "load")
    /\ ~InOrder(t)
    /\ Goto(t, "initialize", 1)
    /\ UNCHANGED <<flags, lifecycleMtx, commands, resolution, specs, calls>>

\* Mutant: a provider that is only loaded will do.
InitializeAllowed_Loaded(p) == \A d \in required[p] : state[d] \in {"Loaded", "Initialized"}

InitializeAllowed(p) == RequiredAtState(p, "Initialized")

\* One iteration of the initialization pass, up to the virtual call.
InitializeStep(t) ==
    /\ At(t, "loadPlugins", "initialize")
    /\ InOrder(t)
    /\ LET p == Current(t)
           ready == state[p] = "Loaded" /\ error[p] = "none" IN
       \/ /\ ~ready
          /\ Goto(t, "initialize", Top(t).next + 1)
          /\ UNCHANGED <<error, calls>>
       \/ /\ ready /\ ~InitializeAllowed(p)
          /\ ReportError(p, "dependency")
          /\ Goto(t, "initialize", Top(t).next + 1)
          /\ UNCHANGED calls
       \/ /\ ready /\ InitializeAllowed(p)
          /\ CallBack(t, "initialize", Top(t).next + 1)
          /\ UNCHANGED error
    /\ UNCHANGED <<flags, lifecycleMtx, commands, resolution, state, mapped>>

InitializePassEnds(t) ==
    /\ At(t, "loadPlugins", "initialize")
    /\ ~InOrder(t)
    /\ Goto(t, "ready", Len(loadOrder))
    /\ UNCHANGED <<flags, lifecycleMtx, commands, resolution, specs, calls>>

\* One iteration of the reverse pass of pluginsInitialized().
ReadyStep(t) ==
    /\ At(t, "loadPlugins", "ready")
    /\ InOrder(t)
    /\ LET p == Current(t) IN
       IF state[p] = "Initialized" /\ error[p] = "none"
       THEN CallBack(t, "pluginsInitialized", Top(t).next - 1)
       ELSE Goto(t, "ready", Top(t).next - 1) /\ UNCHANGED calls
    /\ UNCHANGED <<flags, lifecycleMtx, commands, resolution, specs>>

\* Mutant: the kept commands are passed under the lifecycle lock.
ReleaseBeforeCommands_Never == UNCHANGED lifecycleMtx

ReleaseBeforeCommands == Release

ReadyPassEnds(t) ==
    /\ At(t, "loadPlugins", "ready")
    /\ ~InOrder(t)
    /\ ReleaseBeforeCommands
    /\ Goto(t, "pending", 0)
    /\ UNCHANGED <<flags, commands, resolution, specs, calls>>

DispatchFrame(command) ==
    [call |-> "dispatch", at |-> "pass", next |-> 1, command |-> command]

\* Mutant: the command kept last is passed first.
NextKept_Last == Last(pending)

NextKept == Head(pending)

TakePending(t) ==
    /\ At(t, "loadPlugins", "pending")
    /\ pending # <<>>
    /\ Push(t, DispatchFrame(NextKept))
    /\ pending' = Tail(pending)
    /\ UNCHANGED <<flags, lifecycleMtx, passed, kept, resolution, specs, calls>>

LoadReturn(t) ==
    /\ At(t, "loadPlugins", "pending")
    /\ pending = <<>>
    /\ loadFinished' = TRUE
    /\ Return(t)
    /\ UNCHANGED <<loadStarted, shutdownFinished, lifecycleMtx, commands,
                   resolution, specs, calls>>

-----------------------------------------------------------------------------
(* remoteCommand().  After shutdown has started it returns at once.        *)

\* Mutant: commands are kept only until loading starts.
Keeping_BeforeStart == ~loadStarted

Keeping == ~loadFinished

KeepCommand(t) ==
    /\ MayCall(t, "remoteCommand")
    /\ passed < MaxCommands
    /\ ~shutdownFinished
    /\ Keeping
    /\ passed' = passed + 1
    /\ kept' = passed + 1
    /\ pending' = Append(pending, passed + 1)
    /\ UNCHANGED <<flags, lifecycleMtx, resolution, specs, stack, calls>>

PassCommand(t) ==
    /\ MayCall(t, "remoteCommand")
    /\ passed < MaxCommands
    /\ ~shutdownFinished
    /\ ~Keeping
    /\ passed' = passed + 1
    /\ Push(t, DispatchFrame(passed + 1))
    /\ UNCHANGED <<flags, lifecycleMtx, pending, kept, resolution, specs, calls>>

\* Mutant: the loop looks at the plugins' states alone.
DispatchOver_Ignored(t) == ~InOrder(t)

DispatchOver(t) == ~InOrder(t) \/ shutdownFinished

\* The flag, the state and the virtual call are one step because nothing of the
\* one thread that may be here can come between them; the handler can.
DispatchStep(t) ==
    /\ At(t, "dispatch", "pass")
    /\ ~DispatchOver(t)
    /\ LET i == Top(t).next
           p == loadOrder[i] IN
       IF state[p] = "Running"
       THEN /\ PushFromLoop(t, Top(t).next + 1,
                            [call |-> "callback", at |-> "remoteCommand", next |-> i,
                             command |-> Top(t).command])
            /\ calls' = [calls EXCEPT ![p] =
                             Append(@, [at |-> "remoteCommand", command |-> Top(t).command])]
       ELSE Goto(t, "pass", Top(t).next + 1) /\ UNCHANGED calls
    /\ UNCHANGED <<flags, lifecycleMtx, commands, resolution, specs>>

DispatchReturn(t) ==
    /\ At(t, "dispatch", "pass")
    /\ DispatchOver(t)
    /\ Return(t)
    /\ UNCHANGED <<flags, lifecycleMtx, commands, resolution, specs, calls>>

-----------------------------------------------------------------------------
(* Callbacks return to the loop that made them.                            *)

CallbackReturns(t) ==
    stack[t] # <<>> /\ Top(t).call = "callback" /\ CodeMapped(Current(t))

\* initialize() succeeds or reports why it did not.
InitializeReturn(t) ==
    /\ CallbackReturns(t)
    /\ Top(t).at = "initialize"
    /\ \/ SetState(Current(t), "Initialized") /\ UNCHANGED error
       \/ ReportError(Current(t), "init") /\ UNCHANGED state
    /\ Return(t)
    /\ UNCHANGED <<flags, lifecycleMtx, commands, resolution, mapped, calls>>

ReadyReturn(t) ==
    /\ CallbackReturns(t)
    /\ Top(t).at = "pluginsInitialized"
    /\ SetState(Current(t), "Running")
    /\ Return(t)
    /\ UNCHANGED <<flags, lifecycleMtx, commands, resolution, error, mapped, calls>>

HandlerReturn(t) ==
    /\ CallbackReturns(t)
    /\ Top(t).at \in {"remoteCommand", "aboutToShutdown"}
    /\ Return(t)
    /\ UNCHANGED <<flags, lifecycleMtx, commands, resolution, specs, calls>>

-----------------------------------------------------------------------------
(* shutdownPlugins().                                                      *)

\* Mutant: the flags are read before the lock is taken.
NothingToShutDown_BeforeLock == ~loadStarted \/ shutdownFinished

NothingToShutDown == Lockable /\ (~loadStarted \/ shutdownFinished)

ShutdownAgain(t) ==
    /\ At(t, "shutdownPlugins", "enter")
    /\ NothingToShutDown
    /\ Return(t)
    /\ UNCHANGED <<flags, lifecycleMtx, commands, resolution, specs, calls>>

\* Mutant: shutdown does not take the lock.
ShutdownLock_None(t) == UNCHANGED lifecycleMtx

ShutdownLock(t) == Acquire(t)

ShutdownStart(t) ==
    /\ At(t, "shutdownPlugins", "enter")
    /\ ShutdownLock(t)
    /\ loadStarted
    /\ ~shutdownFinished
    /\ shutdownFinished' = TRUE
    /\ Goto(t, "notify", Len(loadOrder))
    /\ UNCHANGED <<loadStarted, loadFinished, commands, resolution, specs, calls>>

\* Mutant: plugins that never ran are told, too.
NotifyAllowed_Loaded(p) == mapped[p]

NotifyAllowed(p) == state[p] = "Running"

\* One iteration of the reverse pass of aboutToShutdown().
NotifyStep(t) ==
    /\ At(t, "shutdownPlugins", "notify")
    /\ InOrder(t)
    /\ IF NotifyAllowed(Current(t))
       THEN CallBack(t, "aboutToShutdown", Top(t).next - 1)
       ELSE Goto(t, "notify", Top(t).next - 1) /\ UNCHANGED calls
    /\ UNCHANGED <<flags, lifecycleMtx, commands, resolution, specs>>

NotifyPassEnds(t) ==
    /\ At(t, "shutdownPlugins", "notify")
    /\ ~InOrder(t)
    /\ Goto(t, "unload", Len(loadOrder))
    /\ UNCHANGED <<flags, lifecycleMtx, commands, resolution, specs, calls>>

\* Mutant: libraries are unloaded in load order.
UnloadPlugin_Forward(t) == loadOrder[Len(loadOrder) + 1 - Top(t).next]

UnloadPlugin(t) == Current(t)

\* One iteration of the unload pass.  A library that cannot be closed keeps
\* its plugin and its state.
UnloadStep(t) ==
    /\ At(t, "shutdownPlugins", "unload")
    /\ InOrder(t)
    /\ LET p == UnloadPlugin(t) IN
       \/ ~mapped[p] /\ UNCHANGED specs
       \/ mapped[p] /\ ReportError(p, "unload") /\ UNCHANGED <<state, mapped>>
       \/ /\ mapped[p]
          /\ mapped' = [mapped EXCEPT ![p] = FALSE]
          /\ SetState(p, "Stopped")
          /\ UNCHANGED error
    /\ Goto(t, "unload", Top(t).next - 1)
    /\ UNCHANGED <<flags, lifecycleMtx, commands, resolution, calls>>

ShutdownReturn(t) ==
    /\ At(t, "shutdownPlugins", "unload")
    /\ ~InOrder(t)
    /\ Release
    /\ Return(t)
    /\ UNCHANGED <<flags, commands, resolution, specs, calls>>

-----------------------------------------------------------------------------
\* Environment: what a host thread or a plugin chooses to call.
Environment(t) == Call(t) \/ KeepCommand(t) \/ PassCommand(t)

LoadPlugins(t) ==
    \/ LoadAgain(t) \/ LoadStart(t) \/ Resolve(t)
    \/ LoadStep(t) \/ LoadPassEnds(t)
    \/ InitializeStep(t) \/ InitializePassEnds(t)
    \/ ReadyStep(t) \/ ReadyPassEnds(t)
    \/ TakePending(t) \/ LoadReturn(t)

Dispatch(t) == DispatchStep(t) \/ DispatchReturn(t)

CallbackReturn(t) == InitializeReturn(t) \/ ReadyReturn(t) \/ HandlerReturn(t)

ShutdownPlugins(t) ==
    \/ ShutdownAgain(t) \/ ShutdownStart(t)
    \/ NotifyStep(t) \/ NotifyPassEnds(t)
    \/ UnloadStep(t) \/ ShutdownReturn(t)

System(t) == LoadPlugins(t) \/ Dispatch(t) \/ ShutdownPlugins(t)

Next == \E t \in Threads : Environment(t) \/ System(t) \/ CallbackReturn(t)

Spec == Init /\ [][Next]_vars

\* The functions' own steps are taken when they can be, and a callback that is
\* able to return infinitely often returns.  Nothing makes anybody call.
FairSpec ==
    /\ Spec
    /\ \A t \in Threads : WF_vars(System(t)) /\ SF_vars(CallbackReturn(t))

-----------------------------------------------------------------------------
(* Properties.                                                             *)

\* The variables have their types; the loops stay within one step of loadOrder,
\* and a callback is always one of a listed plugin.
TypeOK ==
    /\ loadStarted \in BOOLEAN /\ shutdownFinished \in BOOLEAN
    /\ loadFinished \in BOOLEAN
    /\ lifecycleMtx \in Threads \cup {NoThread}
    /\ pending \in Seq(1 .. MaxCommands)
    /\ loadOrder \in Seq(Plugins)
    /\ required \in [Plugins -> SUBSET Plugins]
    /\ state \in [Plugins -> States]
    /\ error \in [Plugins -> Errors]
    /\ mapped \in [Plugins -> BOOLEAN]
    /\ stack \in [Threads -> Seq(Frame)]
    /\ passed \in 0 .. MaxCommands /\ kept \in 0 .. MaxCommands
    /\ calls \in [Plugins -> Seq([at : Callbacks, command : Nat])]
    /\ \A t \in Threads : \A i \in DOMAIN stack[t] :
           IF stack[t][i].call = "callback"
           THEN stack[t][i].next \in DOMAIN loadOrder
           ELSE stack[t][i].next <= Len(loadOrder) + 1

\* No thread waits for the lifecycle lock that it holds itself: it is not
\* recursive, so such a call never returns.  In particular a handler of a kept
\* command may call shutdownPlugins().
NoSelfWait ==
    \A t \in Threads : lifecycleMtx = t => stack[t] # <<>> /\ Top(t).at # "enter"

\* Commands passed before loadPlugins() finished reach every plugin in the
\* order in which they were passed and before any later command, also when
\* plugins pass commands while they handle some; no command comes twice.
KeptInOrder ==
    \A p \in Plugins :
        /\ \A k \in 1 .. kept :
               k + 2 \in DOMAIN calls[p] /\ calls[p][k + 2].at = "remoteCommand"
                   => calls[p][k + 2].command = k
        /\ \A i, j \in DOMAIN calls[p] :
               calls[p][i].at = "remoteCommand" /\ calls[p][i] = calls[p][j] => i = j

\* The commands a plugin was given.
Handed(p) ==
    {calls[p][i].command : i \in {j \in DOMAIN calls[p] : calls[p][j].at = "remoteCommand"}}

\* When the host's calls have returned, every running plugin has been given
\* every command, kept or not, unless shutdown cut the delivery short.
AllDelivered ==
    (loadFinished /\ ~shutdownFinished /\ \A t \in Threads : stack[t] = <<>>)
        => \A p \in Plugins : state[p] = "Running" => Handed(p) = 1 .. passed

\* After loading, a plugin runs unless it has an error, and an error comes from
\* the plugin itself or from a required dependency, which never goes unnoticed.
ErrorsPropagate ==
    (loadFinished /\ ~shutdownFinished) =>
        \A p \in ToSet(loadOrder) :
            /\ state[p] = "Running" <=> error[p] = "none"
            /\ error[p] = "dependency" => \E d \in required[p] : error[d] # "none"
            /\ \A d \in required[p] : error[d] # "none" => error[p] # "none"

\* shutdownPlugins() starts, and from then on no plugin is given a command: not
\* by a dispatch already under way, nor of the commands that are still kept.
NoCommandAfterShutdown ==
    [][shutdownFinished => \A p \in Plugins : Handed(p)' = Handed(p)]_vars

\* No thread is in a callback of a plugin whose library is unloaded.
NoFrameInUnmapped ==
    \A t \in Threads : \A i \in DOMAIN stack[t] :
        stack[t][i].call = "callback" => mapped[loadOrder[stack[t][i].next]]

\* A call of shutdownPlugins() that returns, on whichever thread, either came
\* before loading or leaves no library loaded that could be unloaded.
ShutdownComplete ==
    [][\A t \in Threads :
           (Len(stack'[t]) < Len(stack[t]) /\ Top(t).call = "shutdownPlugins" /\ loadStarted)
               => \A p \in Plugins : mapped'[p] => error'[p] = "unload"]_vars

\* A call of loadPlugins() that returns, on whichever thread, finds each listed
\* plugin running, stopped, or with an error.
LoadSettled ==
    [][\A t \in Threads :
           (Len(stack'[t]) < Len(stack[t]) /\ Top(t).call = "loadPlugins")
               => \A p \in ToSet(loadOrder) :
                      error[p] = "none" => state[p] \in {"Running", "Stopped"}]_vars

\* The stage of its life that a plugin is in.
Life(p) ==
    IF state[p] = "Stopped" THEN "gone"
    ELSE IF error[p] = "unload" THEN "stuck"
    ELSE IF error[p] = "init" THEN "failed"
    ELSE IF ~mapped[p] THEN "absent"
    ELSE CASE state[p] = "Loaded" -> IF calls[p] = <<>> THEN "loaded" ELSE "initializing"
           [] state[p] = "Initialized" -> IF Len(calls[p]) = 1 THEN "initialized" ELSE "readying"
           [] state[p] = "Running" ->
                  IF Last(calls[p]).at = "aboutToShutdown" THEN "told" ELSE "running"
           [] OTHER -> "unusable"

Heard(p) == Cardinality({i \in DOMAIN calls[p] : calls[p][i].at = "remoteCommand"})

Lives ==
    INSTANCE PluginLives WITH life <- [p \in Plugins |-> Life(p)],
                              heard <- [p \in Plugins |-> Heard(p)]

\* Whatever threads and handlers do, every plugin lives the life it was promised:
\* callbacks come in their order and once, what is done with a plugin is done
\* while its providers are in the same stage, it is told of the shutdown before
\* they are and before any library goes, and its library goes before theirs.
KeepsLives == Lives!Spec

\* Every call the host makes returns, whatever plugins call meanwhile.
CallsReturn == \A t \in Threads : stack[t] # <<>> ~> stack[t] = <<>>

=============================================================================
