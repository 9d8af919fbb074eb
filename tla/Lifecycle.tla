----------------------------- MODULE Lifecycle -----------------------------
(***************************************************************************)
(* main(): start, loop and end of a program built on the framework, and    *)
(* what exists meanwhile: the loggers, the document and the contents of    *)
(* the configuration, the network, the tasks.  Any step may fail; the      *)
(* functions registered with the C library, destructors of singletons      *)
(* among them, run at the end, last one first.  An access through a null   *)
(* pointer or to a deleted object ends the program.                        *)
(***************************************************************************)
EXTENDS Sequences, SequencesExt

CONSTANTS Builds,     \* -DACCEPTS_CLIENTS, -DHAS_UPSTREAM_SERVERS: [accepts, upstream]
          Configs     \* contents of the configuration file: [upstream, file_log]

ASSUME LifecycleAssumption ==
  /\ Builds \subseteq [accepts : BOOLEAN, upstream : BOOLEAN]
  /\ Configs \subseteq [upstream : BOOLEAN, file_log : BOOLEAN]

Network == {"server_listener", "client_requester", "master_connection_cache",
            "slave_connection_cache"}
Objects == Network \union {"screen_logger", "file_logger", "config_file", "extra_config",
                           "resource", "extra_resource", "tasks"}
SignalNames == {"SIGTERM", "SIGHUP", "SIGUSR1", "SIGUSR2"}

VARIABLES build, config,
          stage,      \* the step main() is at
          held,       \* objects that a pointer of the framework names
          alive,      \* objects that exist
          exits,      \* functions to run at exit()
          pending,    \* signals captured and not handled
          business,   \* "none", "running" or "finalised"
          fault       \* where what was missing, if the program crashed

lifecycle_vars == <<build, config, stage, held, alive, exits, pending, business, fault>>

NoFault == [at |-> "", of |-> {}]
NoConfig == [upstream |-> FALSE, file_log |-> FALSE]

\* The singletons that the constructor of main_app asks for are constructed,
\* hence registered for destruction, before main_app is
LifecycleInit ==
  /\ build \in Builds /\ config = NoConfig
  /\ stage = "prepare_prerequisites"
  /\ held = {"resource", "tasks"} /\ alive = held
  /\ exits = <<"config_manager", "resource_manager", "timed_task_scheduler", "main_app">>
  /\ pending = {} /\ business = "none" /\ fault = NoFault

\* A step that uses and makes objects and deletes those of gone it has a pointer to
Step(to, uses, made, gone) ==
  LET missing == (uses \ (held \intersect alive)) \union ((gone \intersect held) \ alive)
  IN IF missing = {}
     THEN /\ stage' = to
          /\ alive' = (alive \ (gone \intersect held)) \union made
          /\ held' = (held \ gone) \union made
          /\ UNCHANGED fault
     ELSE /\ stage' = "crashed" /\ fault' = [at |-> stage, of |-> missing]
          /\ UNCHANGED <<held, alive>>

At(place) == stage = place
Log == {"screen_logger"}

\* resource_manager::__clear()
Cleared == IF "resource" \in held THEN Network \union {"resource", "extra_resource"} ELSE {}
-----------------------------------------------------------------------------
\* Before the resources

PreparePrerequisites ==
  /\ At("prepare_prerequisites") /\ Step("parse_command_line", {}, Log, {})
  /\ UNCHANGED <<build, config, exits, pending, business>>

\* Help, version, errors and the parents of a daemon end here
ParseCommandLine ==
  /\ At("parse_command_line")
  /\ \E to \in {"load_configurations", "exit"} : Step(to, {}, {}, {})
  /\ UNCHANGED <<build, config, exits, pending, business>>

\* The file cannot be opened, or read to its end; the document stays open then
LoadFails ==
  /\ At("load_configurations")
  /\ \E made \in {{}, {"config_file"}, {"config_file", "extra_config"}} :
       Step("exit", Log, made, {})
  /\ UNCHANGED <<build, config, exits, pending, business>>

\* A mutant: the pointer keeps its value
ClosedKeepingPointer(h) == h

\* close_file()
Closed(h) == h \ {"config_file"}

LoadConfigurations ==
  /\ At("load_configurations") /\ stage' = "prepare_loggers"
  /\ config' \in Configs
  /\ alive' = alive \union {"extra_config"}
  /\ held' = Closed(held \union {"config_file", "extra_config"})
  /\ UNCHANGED <<build, exits, pending, business, fault>>
-----------------------------------------------------------------------------
\* prepare_resources()

\* An unknown level
PrepareLoggersFails ==
  /\ At("prepare_loggers") /\ Step("exit", Log, {}, Cleared)
  /\ UNCHANGED <<build, config, exits, pending, business>>

\* A logger cannot be opened: init_logger() clears the loggers and its callers
\* write a message
InitLoggerFails ==
  /\ At("prepare_loggers")
  /\ alive' = alive \ Log /\ held' = held \ Log
  /\ stage' = "crashed" /\ fault' = [at |-> stage, of |-> Log]
  /\ UNCHANGED <<build, config, exits, pending, business>>

\* A mutant: the file is left to the operating system
InitLoggerForgetting ==
  /\ At("prepare_loggers")
  /\ Step("prepare_network", Log, IF config.file_log THEN {"file_logger"} ELSE {}, {})
  /\ UNCHANGED <<build, config, exits, pending, business>>

InitLogger ==
  /\ At("prepare_loggers")
  /\ Step("prepare_network", Log, IF config.file_log THEN {"file_logger"} ELSE {}, {})
  /\ exits' = Append(exits, "clear_logger")
  /\ UNCHANGED <<build, config, pending, business>>

\* The address is taken or an entry is bad; what was made is taken back
PrepareNetworkFails ==
  /\ At("prepare_network") /\ build.accepts
  /\ Step("exit", Log, {}, Cleared)
  /\ UNCHANGED <<build, config, exits, pending, business>>

\* The address of every upstream server is compared with the one of the
\* listener, which the local variable names only #if defined(ACCEPTS_CLIENTS)
ComparesAddress == build.upstream /\ config.upstream

PrepareNetwork ==
  /\ At("prepare_network")
  /\ IF ComparesAddress /\ ~build.accepts
     THEN /\ stage' = "crashed" /\ fault' = [at |-> stage, of |-> {"server_listener"}]
          /\ UNCHANGED <<held, alive>>
     ELSE Step("prepare_extra_resource", Log, Network, {})
  /\ UNCHANGED <<build, config, exits, pending, business>>

PrepareExtraResourceFails ==
  /\ At("prepare_extra_resource") /\ Step("exit", Log, {}, Cleared)
  /\ UNCHANGED <<build, config, exits, pending, business>>

\* The hook of the business is given the pointer by value: what it makes, no
\* pointer of the framework names
PrepareExtraResource ==
  /\ At("prepare_extra_resource") /\ stage' = "build_component_map"
  /\ \E made \in {{}, {"extra_resource"}} : alive' = alive \union made
  /\ UNCHANGED <<build, config, held, exits, pending, business, fault>>
-----------------------------------------------------------------------------
\* The rest of main()

\* One of two steps that return to the system on failure and leave the rest to
\* the destructors
BuildOrRegister ==
  /\ \/ /\ At("build_component_map") /\ \E to \in {"register_signals", "exit"} : Step(to, Log, {}, {})
     \/ /\ At("register_signals") /\ \E to \in {"register_timed_tasks", "exit"} : Step(to, Log, {}, {})
  /\ UNCHANGED <<build, config, exits, pending, business>>

RegisterTimedTasks ==
  /\ At("register_timed_tasks")
  /\ \/ Step("initialize_business", Log \union {"tasks"}, {}, {})
     \/ Step("exit", Log \union {"tasks"}, {}, Cleared)
  /\ UNCHANGED <<build, config, exits, pending, business>>

InitializeBusiness ==
  /\ At("initialize_business")
  /\ \/ Step("handle_all", {}, {}, {}) /\ business' = "running"
     \/ Step("exit", {}, {}, Cleared) /\ UNCHANGED business
  /\ UNCHANGED <<build, config, exits, pending>>

\* What the default handlers use
UsedBy(signal) ==
  CASE signal = "SIGHUP"  -> Log \union {"config_file", "extra_config"}
    [] signal = "SIGUSR1" -> Log \union Network
    [] OTHER              -> Log

HandleSignal(signal) ==
  /\ At("handle_all") /\ signal \in pending
  /\ pending' = pending \ {signal}
  /\ Step(IF signal = "SIGTERM" THEN "finalize_business" ELSE "handle_all", UsedBy(signal), {}, {})
  /\ UNCHANGED <<build, config, exits, business>>

HandleNothing ==
  /\ At("handle_all") /\ pending = {} /\ Step("poll_and_process", {}, {}, {})
  /\ UNCHANGED <<build, config, exits, pending, business>>

PollAndProcess ==
  /\ At("poll_and_process")
  /\ LET polled == (IF build.accepts THEN {"server_listener"} ELSE {}) \union
                   (IF build.upstream THEN {"client_requester"} ELSE {})
     IN \/ Step("check_and_execute", polled, {}, {})
        \/ polled # {} /\ Step("finalize_business", polled, {}, {})
  /\ UNCHANGED <<build, config, exits, pending, business>>

CheckAndExecute ==
  /\ At("check_and_execute")
  /\ Step("run_private_business", {"tasks"} \union Network, {}, {})
  /\ UNCHANGED <<build, config, exits, pending, business>>

RunPrivateBusiness ==
  /\ At("run_private_business")
  /\ \E to \in {"handle_all", "finalize_business"} : Step(to, {}, {}, {})
  /\ UNCHANGED <<build, config, exits, pending, business>>

\* A mutant: the resources are released first
ReleaseThenFinalize ==
  /\ At("finalize_business") /\ Step("release_resources", Log, {}, Cleared)
  /\ UNCHANGED <<build, config, exits, pending, business>>

FinalizeBusiness ==
  /\ At("finalize_business") /\ Step("release_resources", Log, {}, {})
  /\ business' = "finalised"
  /\ UNCHANGED <<build, config, exits, pending>>

ReleaseResources ==
  /\ At("release_resources") /\ Step("exit", {}, {}, Cleared)
  /\ UNCHANGED <<build, config, exits, pending, business>>

\* An exit function; the destructor of config_manager closes a document left open
ExitUses(f) == IF f = "config_manager" /\ "config_file" \in held THEN Log ELSE {}

ExitDeletes(f) ==
  CASE f = "clear_logger"         -> {"screen_logger", "file_logger"}
    [] f = "timed_task_scheduler" -> {"tasks"}
    [] f = "config_manager"       -> {"config_file", "extra_config"}
    [] OTHER                      -> Cleared

ExitFunction ==
  /\ At("exit") /\ exits # <<>>
  /\ Step("exit", ExitUses(Last(exits)), {}, ExitDeletes(Last(exits)))
  /\ exits' = Front(exits)
  /\ UNCHANGED <<build, config, pending, business>>

End == /\ At("exit") /\ exits = <<>> /\ stage' = "gone"
       /\ UNCHANGED <<build, config, held, alive, exits, pending, business, fault>>

\* A signal that register_signals() has given a handler
SignalArrives(signal) ==
  /\ stage \in {"register_timed_tasks", "initialize_business", "handle_all", "poll_and_process",
             "check_and_execute", "run_private_business", "finalize_business"}
  /\ pending' = pending \union {signal}
  /\ UNCHANGED <<build, config, stage, held, alive, exits, business, fault>>

Start == \/ PreparePrerequisites \/ ParseCommandLine \/ LoadFails \/ LoadConfigurations
         \/ PrepareLoggersFails \/ InitLoggerFails \/ InitLogger
         \/ PrepareNetworkFails \/ PrepareNetwork
         \/ PrepareExtraResourceFails \/ PrepareExtraResource
         \/ BuildOrRegister \/ RegisterTimedTasks \/ InitializeBusiness

Loop == \/ \E s \in SignalNames : HandleSignal(s)
        \/ HandleNothing \/ PollAndProcess \/ CheckAndExecute \/ RunPrivateBusiness

Finish == FinalizeBusiness \/ ReleaseResources \/ ExitFunction \/ End

LifecycleNext == Start \/ Loop \/ Finish \/ \E s \in SignalNames : SignalArrives(s)

LifecycleSpec == LifecycleInit /\ [][LifecycleNext]_lifecycle_vars
-----------------------------------------------------------------------------
LifecycleTypeOK ==
  /\ build \in Builds /\ config \in Configs \union {NoConfig}
  /\ held \subseteq Objects /\ alive \subseteq Objects /\ pending \subseteq SignalNames
  /\ business \in {"none", "running", "finalised"}
  /\ exits \in Seq({"config_manager", "resource_manager", "timed_task_scheduler",
                    "main_app", "clear_logger"})
  /\ fault.of \subseteq Objects

\* Handlers, tasks, the loop and the exit functions find what they use, in
\* every order of starts that fail and signals that come, but for three uses
\* that crash: the document after the load, the screen logger after a failure
\* of init_logger(), the listener of a build that accepts no clients.
UsedWhileThere ==
  fault \in {NoFault,
             [at |-> "handle_all", of |-> {"config_file"}],
             [at |-> "prepare_loggers", of |-> Log],
             [at |-> "prepare_network", of |-> {"server_listener"}]}

\* However far the start came, a program that ends by itself has closed its
\* listening socket, its log file and its document, each once; only the screen
\* logger and what the business made in prepare_extra_resource() may stay.
NothingLeft == stage = "gone" => alive \subseteq {"screen_logger", "extra_resource"}

\* The business is finalised if and only if it was initialised, and the network
\* outlives it.
BusinessEndsFirst ==
  /\ business = "running" => Network \subseteq alive
  /\ stage = "gone" => business # "running"

\* signal_registration.cpp:53, "sighup received, reloading partial
\* configurations ...": the handler finds a document to read again.
HangupReloads == fault # [at |-> "handle_all", of |-> {"config_file"}]
=============================================================================
