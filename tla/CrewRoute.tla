------------------------------- MODULE CrewRoute -------------------------------
(***************************************************************************)
(* One call of a crew backend over the vendor's native ACP transport.  The *)
(* CodeBuddy and the Qoder backend run the same machine; where they differ *)
(* the vendor of the job tells them apart.                                 *)
(*                                                                         *)
(* Four threads of the runtime meet in it: the worker, which talks JSON-   *)
(* RPC to the vendor's program; the reader, which takes the program's      *)
(* lines apart; a handler, started for a request the program makes of the  *)
(* client; and a canceller, which comes in through the backend's cancel    *)
(* at any time.  The program itself is not trusted: it may answer twice,   *)
(* chatter, send garbage, stop reading its input, close it or die.         *)
(***************************************************************************)
EXTENDS Naturals, Sequences

CONSTANTS Jobs,          \* the calls to consider: vendor, access mode, setting
          MaxExtra,      \* bound: lines besides a first reply to each request
          MaxUnread,     \* bound: lines of it that wait for the reader
          MaxDuration,   \* max_task_duration_seconds, in ticks
          IdleLimit,     \* idle_timeout_seconds
          RequestLimit   \* the fixed timeouts of the handshake requests

ASSUME RouteAssumption ==
  /\ Jobs \subseteq [vendor : {"codebuddy", "qoder"},
                      mode : {"read_only", "patch", "verification"},
                      wants : {"nothing", "model", "effort"}]
  /\ MaxExtra \in Nat /\ MaxUnread \in Nat \ {0}
  /\ {MaxDuration, IdleLimit, RequestLimit} \subseteq Nat \ {0}

VARIABLES
  job,       \* what was asked: access mode, and the setting to apply
  worker,    \* where the worker is, the request it waits for, the outcome
  client,    \* CodeBuddyAcpClient: flags, response slot, who holds _write_lock
  agent,     \* the program: alive, its two pipes, what it was asked
  reader,    \* the reader thread
  handler,   \* a thread of _handle_agent_request
  terminal,  \* a command started for the program
  registry,  \* the backend's _live and _pending_cancel, for this task
  canceller, \* a thread in the backend's cancel
  clock,     \* ticks: since the start, since activity, since the request
  snapshot,  \* the disposable working directory exists
  usage,     \* updates of consumption: heard, in the result's copy, told on
  doomed     \* history: the registry knew of a cancel before the prompt

vars == <<job, worker, client, agent, reader, handler, terminal, registry,
          canceller, clock, snapshot, usage, doomed>>

Requests == {"initialize", "session", "config", "prompt"}
\* What the program may ask of the client; "denied" is a path or a command
\* outside what the task was given.
ClientOps == {"read", "write", "terminal", "release", "permission",
              "denied"}
Lines == [kind : {"reply"}, req : Requests, ok : BOOLEAN]
         \cup [kind : {"update", "garbage"}]
         \cup [kind : {"usage"}, n : 1 .. MaxExtra]
         \cup [kind : {"ask"}, op : ClientOps]
\* Updates of consumption, by number; those that are due were written before an
\* answer to the prompt.
Updates == SUBSET (1 .. MaxExtra)
Outcomes == {"none", "completed", "cancelled", "refused", "protocol",
             "timeout", "unavailable"}
Threads == {"worker", "handler", "canceller"}

\* Every variable keeps the type the code gives it.
RouteTypeOK ==
  /\ job \in Jobs
  /\ worker \in [at : {"new", "register", "check", "send", "poll", "get",
                       "gate", "accepted", "notify", "report", "close",
                       "unregister", "done"},
                 req : Requests, then : {"prompt", "timeout"},
                 outcome : Outcomes]
  /\ client \in [cancelled : BOOLEAN, closed : BOOLEAN, failed : BOOLEAN,
                 slot : {"none", "empty", "ok", "error"},
                 writing : Threads \cup {"nobody"}]
  /\ agent.alive \in BOOLEAN /\ agent.stdin \in {"open", "full", "closed"}
  /\ agent.out \in Seq(Lines) /\ agent.asked \subseteq Requests
  /\ agent.answered \subseteq Requests /\ agent.extra \in 0 .. MaxExtra
  /\ reader \in {"idle", "reading", "stopped"}
  /\ handler.at \in {"idle", "asked", "started", "reply"}
  /\ terminal \in {"none", "started", "registered", "orphan", "dead"}
  /\ registry \in [live : BOOLEAN, pending : BOOLEAN, flag : BOOLEAN,
                   session : BOOLEAN]
  /\ canceller \in {"idle", "found", "notify", "kill", "done"}
  /\ clock \in [total : 0 .. MaxDuration, quiet : 0 .. IdleLimit,
                request : 0 .. RequestLimit]
  /\ usage \in [due : Updates, heard : Updates, copied : Updates,
                told : Updates]
  /\ snapshot \in BOOLEAN /\ doomed \in BOOLEAN

RouteInit ==
  /\ job \in Jobs
  /\ worker = [at |-> "new", req |-> "initialize", then |-> "prompt",
               outcome |-> "none"]
  /\ client = [cancelled |-> FALSE, closed |-> FALSE, failed |-> FALSE,
               slot |-> "none", writing |-> "nobody"]
  /\ agent = [alive |-> FALSE, stdin |-> "open", out |-> <<>>, asked |-> {},
              answered |-> {}, extra |-> 0]
  /\ reader = "idle"
  /\ handler = [at |-> "idle"]
  /\ terminal = "none"
  /\ registry = [live |-> FALSE, pending |-> FALSE, flag |-> FALSE,
                 session |-> FALSE]
  /\ canceller = "idle"
  /\ clock = [total |-> 0, quiet |-> 0, request |-> 0]
  /\ snapshot = (job.mode = "read_only")
  /\ usage = [due |-> {}, heard |-> {}, copied |-> {}, told |-> {}]
  /\ doomed = FALSE

--------------------------------------------------------------------------------
(* Writing to the program.  _send holds _write_lock over a blocking write:  *)
(* a program that stopped reading keeps the writer, and the lock.           *)

MayWrite(t) == client.writing \in {"nobody", t}
Blocked == agent.stdin = "full"
Broken == agent.stdin = "closed"

\* The writer enters the write and does not come back.
WriteBlocks(t) ==
  /\ client.writing = "nobody" /\ Blocked
  /\ client' = [client EXCEPT !.writing = t]

\* The lock is free again once the write returns or raises.
Unlocked == [client EXCEPT !.writing = "nobody"]

\* terminate_process_tree, on the program.
Killed == [agent EXCEPT !.alive = FALSE, !.stdin = "closed"]

Leave(how) == worker' = [worker EXCEPT !.at = "report", !.outcome = how]
Goto(place) == worker' = [worker EXCEPT !.at = place]

--------------------------------------------------------------------------------
(* The worker: the backend's _run_acp around the client's run.              *)

\* The client's constructor starts the program and the reader, or raises
\* before anything is registered; the working directory is then removed.
Construct ==
  /\ worker.at = "new"
  /\ \/ /\ Goto("register")
        /\ agent' = [agent EXCEPT !.alive = TRUE]
        /\ reader' = "reading"
        /\ UNCHANGED snapshot
     \/ /\ worker' = [worker EXCEPT !.at = "done", !.outcome = "unavailable"]
        /\ snapshot' = FALSE
        /\ UNCHANGED <<agent, reader>>
  /\ UNCHANGED <<job, client, handler, terminal, registry, canceller, clock,
                 usage, doomed>>

\* A cancellation that came before the call is taken over from the set of
\* pending ones.
Register ==
  /\ worker.at = "register"
  /\ registry' = [registry EXCEPT !.live = TRUE, !.pending = FALSE,
                                  !.flag = registry.pending]
  /\ doomed' = registry.pending
  /\ Goto("check")
  /\ UNCHANGED <<job, client, agent, reader, handler, terminal, canceller,
                 clock, snapshot, usage>>

CheckPending ==
  /\ worker.at = "check"
  /\ IF registry.flag
       THEN /\ client' = [client EXCEPT !.cancelled = TRUE]
            /\ agent' = Killed
            /\ Leave("cancelled")
       ELSE Goto("send") /\ UNCHANGED <<client, agent>>
  /\ UNCHANGED <<job, reader, handler, terminal, registry, canceller, clock,
                 snapshot, usage, doomed>>

\* A setting is applied by a request of its own, if the program declared it.
\* An effort that is not applied fails the call; a model only goes unapplied.
AfterConfig(applied) ==
  IF job.wants = "effort" /\ ~applied
    THEN Leave("protocol")
    ELSE worker' = [worker EXCEPT !.at = "gate", !.req = "prompt"]

AfterSession ==
  \/ job.wants = "nothing" /\ AfterConfig(TRUE)
  \/ job.wants # "nothing" /\ AfterConfig(FALSE)
  \/ /\ job.wants # "nothing"
     /\ worker' = [worker EXCEPT !.at = "send", !.req = "config"]

\* BackendProtocolError ends the call, except that _apply_config_option takes
\* any of them, a dead program included, for a setting not applied.
ProtocolError ==
  IF worker.req = "config" THEN AfterConfig(FALSE) ELSE Leave("protocol")

\* A response slot is opened under the request's id, then the line written.
Send ==
  /\ worker.at = "send" /\ MayWrite("worker")
  /\ \/ /\ WriteBlocks("worker")
        /\ UNCHANGED <<worker, agent, clock>>
     \/ /\ ~Blocked /\ ~Broken
        /\ client' = [Unlocked EXCEPT !.slot = "empty"]
        /\ agent' = [agent EXCEPT !.asked = @ \cup {worker.req}]
        /\ clock' = [clock EXCEPT !.request = 0]
        /\ Goto("poll")
     \/ /\ Broken
        /\ client' = Unlocked
        /\ ProtocolError
        /\ UNCHANGED <<agent, clock>>
  /\ UNCHANGED <<job, reader, handler, terminal, registry, canceller,
                 snapshot, usage, doomed>>

\* Defect: nothing bounds the wait for the answer to the prompt.
Overdue_PromptWaits == worker.req # "prompt" /\ clock.request = RequestLimit

Overdue == IF worker.req = "prompt"
             THEN clock.total = MaxDuration \/ clock.quiet = IdleLimit
             ELSE clock.request = RequestLimit

\* The program is gone and nothing it said is waiting to be taken.
Gone == ~agent.alive /\ client.slot = "empty"

\* The slot is taken away with every way out of the waiting loop.
NoSlot == client' = [client EXCEPT !.slot = "none"]

\* One turn of the waiting loop, in the order of its checks.  Running out of
\* time while the prompt is out goes through the client's own cancel.
Poll ==
  /\ worker.at = "poll"
  /\ LET broken == ~client.cancelled /\ (client.failed \/ Gone)
         going == ~client.cancelled /\ ~broken
     IN \/ client.cancelled /\ Leave("cancelled") /\ NoSlot
        \/ broken /\ ProtocolError /\ NoSlot
        \/ /\ going /\ Overdue /\ worker.req # "prompt"
           /\ Leave("timeout") /\ NoSlot
        \/ /\ going /\ Overdue /\ worker.req = "prompt"
           /\ worker' = [worker EXCEPT !.at = "notify", !.then = "timeout"]
           /\ client' = [client EXCEPT !.cancelled = TRUE]
        \/ going /\ ~Overdue /\ Goto("get") /\ UNCHANGED client
  /\ UNCHANGED <<job, agent, reader, handler, terminal, registry, canceller,
                 clock, snapshot, usage, doomed>>

\* What was waiting is taken without a second look at the flags.  The result of
\* a completed call has a copy of what was heard of consumption by then.
Get ==
  /\ worker.at = "get"
  /\ \/ client.slot = "empty" /\ Goto("poll") /\ UNCHANGED client
     \/ client.slot = "error" /\ ProtocolError /\ NoSlot
     \/ /\ client.slot = "ok" /\ NoSlot
        /\ \/ /\ worker.req = "initialize"
              /\ worker' = [worker EXCEPT !.at = "send", !.req = "session"]
           \/ worker.req = "session" /\ AfterSession
           \/ worker.req = "session" /\ Leave("protocol")
           \/ worker.req = "config" /\ AfterConfig(TRUE)
           \/ worker.req = "prompt" /\ Leave("completed")
  /\ usage' = IF client.slot = "ok" /\ worker.req = "prompt"
                THEN [usage EXCEPT !.copied = usage.heard] ELSE usage
  /\ UNCHANGED <<job, agent, reader, handler, terminal, registry, canceller,
                 clock, snapshot, doomed>>

\* The durable dispatch gate; the session id is published before it is tried.
Gate ==
  /\ worker.at = "gate"
  /\ registry' = [registry EXCEPT !.session = TRUE]
  /\ Goto("accepted") \/ Leave("refused")
  /\ UNCHANGED <<job, client, agent, reader, handler, terminal, canceller,
                 clock, snapshot, usage, doomed>>

\* Defect: the flag is not looked at again after the gate.
Accepted_NoSecondLook ==
  /\ worker.at = "accepted" /\ Goto("send")
  /\ UNCHANGED <<job, client, agent, reader, handler, terminal, registry,
                 canceller, clock, snapshot, usage, doomed>>

Accepted ==
  /\ worker.at = "accepted"
  /\ IF registry.flag
       THEN /\ client' = [client EXCEPT !.cancelled = TRUE]
            /\ worker' = [worker EXCEPT !.at = "notify", !.then = "prompt"]
       ELSE Goto("send") /\ UNCHANGED client
  /\ UNCHANGED <<job, agent, reader, handler, terminal, registry, canceller,
                 clock, snapshot, usage, doomed>>

\* session/cancel, then the end of the process tree.  A write that fails
\* raises something cancel does not expect, and nothing is terminated here.
Notify ==
  /\ worker.at = "notify"
  /\ agent.alive => MayWrite("worker")
  /\ \/ /\ WriteBlocks("worker")
        /\ UNCHANGED <<worker, agent>>
     \/ /\ agent.alive /\ agent.stdin = "closed"
        /\ Leave("protocol")
        /\ client' = [Unlocked EXCEPT !.slot = "none"]
        /\ UNCHANGED agent
     \/ /\ ~(agent.alive /\ agent.stdin # "open")
        /\ agent' = Killed
        /\ IF worker.then = "prompt"
             THEN Goto("send") /\ client' = client
             ELSE Leave("timeout") /\ NoSlot
  /\ UNCHANGED <<job, reader, handler, terminal, registry, canceller, clock,
                 snapshot, usage, doomed>>

\* Defect: the finally clause takes an answer to mean that all has been told.
ReportUsage_FailuresOnly ==
  /\ worker.at = "report"
  /\ usage' = IF worker.outcome = "completed" THEN usage
              ELSE [usage EXCEPT !.told = usage.heard]
  /\ Goto("close")
  /\ UNCHANGED <<job, client, agent, reader, handler, terminal, registry,
                 canceller, clock, snapshot, doomed>>

\* CodeBuddy's backend tells the copy, and only with an answer; the finally
\* clause of Qoder's tells what has been heard when it looks, whatever the
\* outcome.  What is heard after that is told to nobody.
ReportUsage ==
  /\ worker.at = "report"
  /\ usage' = [usage EXCEPT
       !.told = CASE job.vendor = "qoder"            -> usage.heard
                  [] worker.outcome = "completed"    -> usage.copied
                  [] OTHER                           -> {}]
  /\ Goto("close")
  /\ UNCHANGED <<job, client, agent, reader, handler, terminal, registry,
                 canceller, clock, snapshot, doomed>>

\* Defect: the commands started for the program are not ended.
Close_LeavesCommands ==
  /\ worker.at = "close"
  /\ client' = [client EXCEPT !.closed = TRUE]
  /\ agent' = [Killed EXCEPT !.out = <<>>]
  /\ Goto("unregister")
  /\ UNCHANGED <<job, reader, handler, terminal, registry, canceller, clock,
                 snapshot, usage, doomed>>

\* The finally clause: the commands the client knows of, then the program.
Close ==
  /\ worker.at = "close"
  /\ client' = [client EXCEPT !.closed = TRUE]
  /\ terminal' = IF terminal = "registered" THEN "dead" ELSE terminal
  /\ agent' = [Killed EXCEPT !.out = <<>>]   \* nothing more is read
  /\ Goto("unregister")
  /\ UNCHANGED <<job, reader, handler, registry, canceller, clock, snapshot,
                 usage, doomed>>

\* Qoder gives up on a directory that something still holds.
Removed == IF job.vendor = "qoder" THEN {FALSE, snapshot} ELSE {FALSE}

Unregister ==
  /\ worker.at = "unregister"
  /\ registry' = [registry EXCEPT !.live = FALSE, !.pending = FALSE]
  /\ snapshot' \in Removed
  /\ Goto("done")
  /\ UNCHANGED <<job, client, agent, reader, handler, terminal, canceller,
                 clock, usage, doomed>>

WorkerStep == \/ Construct \/ Register \/ CheckPending \/ Send \/ Poll \/ Get
              \/ Gate \/ Accepted \/ Notify \/ ReportUsage \/ Close
              \/ Unregister

--------------------------------------------------------------------------------
(* The reader, and the threads it starts for what the program asks.         *)

\* Defect: whatever reply comes is taken for the one awaited.
Deliver_AnyReply(line) ==
  IF client.slot = "empty"
    THEN client' = [client EXCEPT !.slot = IF line.ok THEN "ok" ELSE "error"]
    ELSE UNCHANGED client

\* A reply finds the slot of its own id or is dropped, a second one too.
Deliver(line) ==
  IF line.req = worker.req /\ client.slot = "empty"
    THEN client' = [client EXCEPT !.slot = IF line.ok THEN "ok" ELSE "error"]
    ELSE UNCHANGED client

\* What the program reports, or does through the client, counts as activity;
\* a reply does not.
Active == [clock EXCEPT !.quiet = 0]

Read ==
  /\ reader = "reading" /\ ~client.closed /\ agent.out # <<>>
  /\ agent' = [agent EXCEPT !.out = Tail(@)]
  /\ LET line == Head(agent.out)
     IN \/ /\ line.kind = "reply" /\ Deliver(line)
           /\ UNCHANGED <<reader, handler, clock, usage>>
        \/ /\ line.kind = "update"
           /\ clock' = Active
           /\ UNCHANGED <<client, reader, handler, usage>>
        \/ /\ line.kind = "usage"
           /\ clock' = Active
           /\ usage' = [usage EXCEPT !.heard = @ \cup {line.n}]
           /\ UNCHANGED <<client, reader, handler>>
        \/ /\ line.kind = "garbage"
           /\ client' = [client EXCEPT !.failed = TRUE]
           /\ reader' = "stopped"
           /\ UNCHANGED <<handler, clock, usage>>
        \/ /\ line.kind = "ask"
           /\ handler' = [at |-> "asked", op |-> line.op]
           /\ UNCHANGED <<client, reader, clock, usage>>
  /\ UNCHANGED <<job, worker, terminal, registry, canceller, snapshot, doomed>>

\* The end of the program's output is no error to the reader.
ReaderStops ==
  /\ reader = "reading"
  /\ client.closed \/ (~agent.alive /\ agent.out = <<>>)
  /\ reader' = "stopped"
  /\ UNCHANGED <<job, worker, client, agent, handler, terminal, registry,
                 canceller, clock, snapshot, usage, doomed>>

\* _safe_path, the access mode and the list of commands decide together.
Permitted == /\ handler.op # "denied"
             /\ handler.op = "write" => job.mode = "patch"
             /\ handler.op = "terminal" => job.mode # "read_only"

\* A file, a permission or the end of a command is answered in one step; the
\* file operations count as activity, a refusal does not.
HandleRequest ==
  /\ handler.at = "asked" /\ ~(handler.op = "terminal" /\ Permitted)
  /\ handler' = [handler EXCEPT !.at = "reply"]
  /\ clock' = IF Permitted /\ handler.op \in {"read", "write"}
                THEN Active ELSE clock
  /\ terminal' = IF handler.op = "release" /\ terminal = "registered"
                   THEN "dead" ELSE terminal
  /\ UNCHANGED <<job, worker, client, agent, reader, registry, canceller,
                 snapshot, usage, doomed>>

\* The command runs before the client has written down that it does.
StartTerminal ==
  /\ handler.at = "asked" /\ handler.op = "terminal" /\ Permitted
  /\ terminal' = "started"
  /\ handler' = [handler EXCEPT !.at = "started"]
  /\ UNCHANGED <<job, worker, client, agent, reader, registry, canceller,
                 clock, snapshot, usage, doomed>>

RegisterTerminal ==
  /\ handler.at = "started"
  /\ terminal' = IF client.closed THEN "orphan" ELSE "registered"
  /\ handler' = [handler EXCEPT !.at = "reply"]
  /\ clock' = Active
  /\ UNCHANGED <<job, worker, client, agent, reader, registry, canceller,
                 snapshot, usage, doomed>>

\* A handler that cannot write gives up without a word.
HandlerReplies ==
  /\ handler.at = "reply" /\ MayWrite("handler")
  /\ \/ WriteBlocks("handler") /\ UNCHANGED handler
     \/ /\ ~Blocked
        /\ client' = Unlocked
        /\ handler' = [at |-> "idle"]
  /\ UNCHANGED <<job, worker, agent, reader, terminal, registry, canceller,
                 clock, snapshot, usage, doomed>>

HandlerStep == \/ HandleRequest \/ StartTerminal \/ RegisterTerminal
               \/ HandlerReplies

--------------------------------------------------------------------------------
(* CodeBuddyBackend.cancel, once, at any time.                              *)

\* Nothing live under the task: the request is remembered, for a call that
\* may come or may be over.
CancelEarly ==
  /\ canceller = "idle" /\ ~registry.live
  /\ registry' = [registry EXCEPT !.pending = TRUE]
  /\ canceller' = "done"
  /\ UNCHANGED <<job, worker, client, agent, reader, handler, terminal, clock,
                 snapshot, usage, doomed>>

\* The worker has still to look at the flag before it prompts.
BeforeGatePassed ==
  worker.at \in {"check", "gate", "accepted"} \/
  (worker.at \in {"send", "poll", "get"} /\ worker.req # "prompt")

CancelFinds ==
  /\ canceller = "idle" /\ registry.live
  /\ registry' = [registry EXCEPT !.flag = TRUE]
  /\ doomed' = (doomed \/ BeforeGatePassed)
  /\ canceller' = "found"
  /\ UNCHANGED <<job, worker, client, agent, reader, handler, terminal, clock,
                 snapshot, usage>>

CancelFlags ==
  /\ canceller = "found"
  /\ client' = [client EXCEPT !.cancelled = TRUE]
  /\ canceller' = IF registry.session /\ agent.alive THEN "notify" ELSE "kill"
  /\ UNCHANGED <<job, worker, agent, reader, handler, terminal, registry,
                 clock, snapshot, usage, doomed>>

CancelNotifies ==
  /\ canceller = "notify" /\ MayWrite("canceller")
  /\ \/ WriteBlocks("canceller") /\ UNCHANGED canceller
     \/ /\ ~Blocked
        /\ client' = Unlocked
        /\ canceller' = IF Broken THEN "done" ELSE "kill"
  /\ UNCHANGED <<job, worker, agent, reader, handler, terminal, registry,
                 clock, snapshot, usage, doomed>>

CancelKills ==
  /\ canceller = "kill"
  /\ agent' = Killed
  /\ canceller' = "done"
  /\ UNCHANGED <<job, worker, client, reader, handler, terminal, registry,
                 clock, snapshot, usage, doomed>>

CancelStep == \/ CancelEarly \/ CancelFinds \/ CancelFlags \/ CancelNotifies
              \/ CancelKills

--------------------------------------------------------------------------------
(* The vendor's program (external), and time.                               *)

\* The first reply to a request is expected; everything else is counted.
Says(line) ==
  LET due == line.kind = "reply" /\ line.req \notin agent.answered
  IN /\ Len(agent.out) < MaxUnread
     /\ due \/ agent.extra < MaxExtra
     /\ agent' = [agent EXCEPT
          !.out = Append(@, line),
          !.extra = IF due THEN @ ELSE @ + 1,
          !.answered = IF due THEN @ \cup {line.req} ELSE @]

\* One request at a time and one command in all: a bound on handlers.
MayAsk(op) == /\ handler.at = "idle"
              /\ \A i \in DOMAIN agent.out : agent.out[i].kind # "ask"
              /\ op = "terminal" => terminal = "none"

\* The program reports its consumption, at any time.
AgentReports ==
  /\ agent.alive
  /\ LET n == agent.extra + 1
     IN /\ Says([kind |-> "usage", n |-> n])
        /\ usage' = IF "prompt" \in agent.answered THEN usage
                     ELSE [usage EXCEPT !.due = @ \cup {n}]
  /\ UNCHANGED <<job, worker, client, reader, handler, terminal, registry,
                 canceller, clock, snapshot, doomed>>

\* It may answer what it was asked, more than once; it may stop reading its
\* input, and take it up again; close it; or end.
AgentStep ==
  /\ agent.alive
  /\ \/ \E r \in agent.asked, ok \in BOOLEAN :
          Says([kind |-> "reply", req |-> r, ok |-> ok])
     \/ \E k \in {"update", "garbage"} : Says([kind |-> k])
     \/ \E op \in ClientOps : MayAsk(op) /\ Says([kind |-> "ask", op |-> op])
     \/ agent.stdin = "open" /\ agent' = [agent EXCEPT !.stdin = "full"]
     \/ agent.stdin = "full" /\ agent' = [agent EXCEPT !.stdin = "open"]
     \/ agent.stdin = "open" /\ agent' = [agent EXCEPT !.stdin = "closed"]
     \/ agent' = Killed
  /\ UNCHANGED <<job, worker, client, reader, handler, terminal, registry,
                 canceller, clock, snapshot, usage, doomed>>

Up(n, limit) == IF n = limit THEN n ELSE n + 1

Tick ==
  /\ worker.at \notin {"new", "done"}
  /\ clock' = [total |-> Up(clock.total, MaxDuration),
               quiet |-> Up(clock.quiet, IdleLimit),
               request |-> IF worker.at \in {"poll", "get"} /\
                              worker.req # "prompt"
                             THEN Up(clock.request, RequestLimit) ELSE 0]
  /\ clock' # clock
  /\ UNCHANGED <<job, worker, client, agent, reader, handler, terminal,
                 registry, canceller, snapshot, usage, doomed>>

RouteNext == \/ WorkerStep \/ Read \/ ReaderStops \/ HandlerStep
             \/ CancelStep \/ AgentStep \/ AgentReports \/ Tick

\* Threads run and time passes; the program owes nothing, and nobody has to
\* ask for a cancellation.
RouteFairness == /\ WF_vars(WorkerStep) /\ WF_vars(Read \/ ReaderStops)
                 /\ WF_vars(HandlerStep) /\ WF_vars(Tick)
                 /\ WF_vars(CancelFlags \/ CancelNotifies \/ CancelKills)

RouteSpec == RouteInit /\ [][RouteNext]_vars /\ RouteFairness

--------------------------------------------------------------------------------
(* Properties.                                                              *)

\* What the call promises: see RouteContract.
Contract == INSTANCE RouteContract WITH
  phase <- IF worker.outcome # "none" THEN "ended"
           ELSE IF "prompt" \in agent.asked THEN "prompted" ELSE "preparing",
  asked <- canceller # "idle",
  outcome <- worker.outcome

ImplementsRoute == Contract!CSpec

\* A completed call has an answer the program wrote to this prompt: a second
\* reply to an earlier request is never taken for it.
OwnReply == worker.outcome = "completed" => "prompt" \in agent.answered

\* When the call has returned, the program is gone, the registry forgot the
\* task, CodeBuddy's snapshot is removed, the only command that can still run
\* is one that was being started while the client closed, and after a completed
\* call every update of consumption that the program wrote before its answer is
\* told, by either backend: one that comes behind the answer need not be.
NothingLeftBehind ==
  worker.at = "done" =>
    /\ ~agent.alive /\ ~registry.live
    /\ job.vendor = "codebuddy" => ~snapshot
    /\ terminal # "registered"
    /\ worker.outcome = "completed" => usage.due \subseteq usage.told

\* Values keep their types, and a call that has returned leaves nothing running.
RouteStands == RouteTypeOK /\ NothingLeftBehind

\* The call returns, whatever the program says or leaves unsaid, unless the
\* program stops reading its input again and again, or for good: then the
\* worker may be inside a write that no timeout covers.
RouteReturns ==
  []<>(agent.stdin = "full") \/ <>(worker.at = "done")
================================================================================
