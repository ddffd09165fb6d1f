-------------------------- MODULE CrewRouteProofs --------------------------
(***************************************************************************)
(* Proofs about one call of a crew backend, for any job, any time limits   *)
(* and a program that says any number of lines.  The worker, the reader,   *)
(* the handlers and the canceller each know something of the others by     *)
(* where they are; that is the inductive invariant.                        *)
(***************************************************************************)
EXTENDS CrewRoute, SequenceTheorems, TLAPS

WorkerType == [at : {"new", "register", "check", "send", "poll", "get", "gate",
                     "accepted", "notify", "report", "close", "unregister",
                     "done"},
               req : Requests, then : {"prompt", "timeout"}, outcome : Outcomes]
ClientType == [cancelled : BOOLEAN, closed : BOOLEAN, failed : BOOLEAN,
               slot : {"none", "empty", "ok", "error"},
               writing : Threads \cup {"nobody"}]
RegistryType == [live : BOOLEAN, pending : BOOLEAN, flag : BOOLEAN,
                 session : BOOLEAN]
AgentType == [alive : BOOLEAN, stdin : {"open", "full", "closed"},
              out : Seq(Lines), asked : SUBSET Requests,
              answered : SUBSET Requests, extra : 0 .. MaxExtra]
UsageType == [due : Updates, heard : Updates, copied : Updates,
              told : Updates]
HandlerType == [at : {"idle"}]
               \cup [at : {"asked", "started", "reply"}, op : ClientOps]

\* RouteTypeOK, with what it leaves open: the shape of the agent's record and
\* what a handler is busy with.
Typed == RouteTypeOK /\ agent \in AgentType /\ handler \in HandlerType

\* The worker waits for an answer.
Waiting == \/ worker.at \in {"poll", "get"}
           \/ worker.at = "notify" /\ worker.then = "timeout"

\* It is out of the call.
Over == worker.at \in {"report", "close", "unregister", "done"}

\* The response slot is there only while the worker waits, and is filled only
\* with what the program wrote to the request the worker waits for.
SlotInv ==
  /\ client.slot # "none" => Waiting
  /\ client.slot \in {"ok", "error"} => worker.req \in agent.answered
  /\ agent.answered \subseteq agent.asked
  /\ \A i \in DOMAIN agent.out :
       agent.out[i].kind = "reply" => agent.out[i].req \in agent.answered

\* Once the prompt is out the worker waits for its answer or is out of the call.
AskedInv ==
  /\ "prompt" \in agent.asked => Over \/ (Waiting /\ worker.req = "prompt")
  /\ worker.at \in {"gate", "accepted", "notify"} => worker.req = "prompt"
  /\ ~Over => worker.outcome = "none"

\* What the registry and the client know of a cancellation, somebody asked.
CancelInv ==
  /\ registry.pending \/ registry.flag => canceller # "idle"
  /\ client.cancelled =>
       canceller # "idle" \/ Over \/ (worker.at = "notify" /\ worker.then = "timeout")
  /\ registry.live => worker.at \notin {"new", "register", "done"}

\* A doomed call does not get to wait for the answer to its prompt.
DoomInv ==
  doomed =>
    /\ registry.flag
    /\ worker.at \notin {"new", "register"}
    /\ worker.at \in {"send", "poll", "notify"} /\ worker.req = "prompt" => client.cancelled
    /\ ~(worker.at = "get" /\ worker.req = "prompt")
    /\ worker.outcome # "completed"

\* What is running when, and what is still to be cleaned up.
Untouched == /\ ~agent.alive /\ reader = "idle" /\ handler.at = "idle"
             /\ terminal = "none"

CleanInv ==
  /\ worker.at = "new" => Untouched
  /\ worker.at \in {"unregister", "done"} =>
       /\ ~agent.alive
       /\ terminal # "registered"
       /\ client.closed \/ (reader = "idle" /\ handler.at = "idle")
  /\ worker.at = "done" /\ job.vendor = "codebuddy" => ~snapshot

\* An update that is due and not yet heard waits in front of every answer to the
\* prompt.
Answer(line) == line.kind = "reply" /\ line.req = "prompt"
WaitsIn(out, n) ==
  \E i \in DOMAIN out : /\ out[i].kind = "usage" /\ out[i].n = n
                        /\ \A j \in DOMAIN out : j < i => ~Answer(out[j])
UnheardInv ==
  ~client.closed =>
    \A n \in usage.due : n \in usage.heard \/ WaitsIn(agent.out, n)

\* So the answer finds it heard, the result has it, and the backend tells it.
UsageInv ==
  /\ client.slot \in {"ok", "error"} /\ worker.req = "prompt" =>
       usage.due \subseteq usage.heard
  /\ worker.outcome = "completed" =>
       /\ usage.due \subseteq usage.heard /\ usage.due \subseteq usage.copied
       /\ worker.at \in {"close", "unregister", "done"} =>
            usage.due \subseteq usage.told

RouteInv ==
  /\ Typed /\ SlotInv /\ AskedInv /\ CancelInv /\ DoomInv /\ CleanInv
  /\ OwnReply /\ UnheardInv /\ UsageInv

-----------------------------------------------------------------------------
(***************************************************************************)
(* What the worker's steps do                                              *)
(***************************************************************************)

\* The records have the declared fields.
LEMMA Shape ==
  ASSUME Typed
  PROVE  /\ worker \in WorkerType /\ client \in ClientType
         /\ agent \in AgentType /\ registry \in RegistryType
         /\ handler \in HandlerType /\ usage \in UsageType
  BY DEF Typed, RouteTypeOK, WorkerType, ClientType, RegistryType, UsageType

\* The worker's record in the next state, field by field.
Worker(at, req, outcome) ==
  /\ worker' \in WorkerType /\ worker'.then = worker.then
  /\ worker'.at = at /\ worker'.req = req /\ worker'.outcome = outcome

\* The client's, where only the slot and the lock may have moved.
Slot(slot) ==
  /\ client' \in ClientType /\ client'.slot = slot
  /\ client'.cancelled = client.cancelled /\ client'.closed = client.closed

\* A protocol error ends the call, or the try to apply a setting.
Fails == \/ Worker("report", worker.req, "protocol")
         \/ worker.req = "config" /\ Worker("gate", "prompt", worker.outcome)

LEMMA LeaveEffect ==
  ASSUME Typed, NEW how \in Outcomes, Leave(how)
  PROVE  Worker("report", worker.req, how)
  BY Shape DEF Leave, Worker, WorkerType

LEMMA GotoEffect ==
  ASSUME Typed, NEW place \in {"check", "send", "poll", "get", "gate", "accepted",
                               "register", "close", "unregister", "done"}, Goto(place)
  PROVE  Worker(place, worker.req, worker.outcome)
  BY Shape DEF Goto, Worker, WorkerType

LEMMA ConfigEffect ==
  ASSUME Typed, NEW applied \in BOOLEAN, AfterConfig(applied)
  PROVE  \/ Worker("report", worker.req, "protocol")
         \/ Worker("gate", "prompt", worker.outcome)
<1>1. CASE job.wants = "effort" /\ ~applied
  BY <1>1, LeaveEffect DEF AfterConfig, Outcomes
<1>2. CASE ~(job.wants = "effort" /\ ~applied)
  BY <1>2, Shape DEF AfterConfig, Worker, WorkerType, Requests
<1> QED
  BY <1>1, <1>2

LEMMA ErrorEffect ==
  ASSUME Typed, ProtocolError
  PROVE  Fails
<1>1. CASE worker.req = "config"
  BY <1>1, ConfigEffect DEF ProtocolError, Fails
<1>2. CASE worker.req # "config"
  BY <1>2, LeaveEffect DEF ProtocolError, Fails, Outcomes
<1> QED
  BY <1>1, <1>2

LEMMA NoSlotEffect ==
  ASSUME Typed, NoSlot
  PROVE  Slot("none")
  BY Shape DEF NoSlot, Slot, ClientType

LEMMA UnlockedEffect ==
  ASSUME Typed, client' = Unlocked
  PROVE  Slot(client.slot)
  BY Shape DEF Unlocked, Slot, ClientType

LEMMA WriteBlocksEffect ==
  ASSUME Typed, NEW t \in Threads, WriteBlocks(t)
  PROVE  Slot(client.slot)
  BY Shape DEF WriteBlocks, Slot, ClientType

\* A line is written to a program that reads, or the write blocks, or fails.
LEMMA SendEffect ==
  ASSUME Typed, Send
  PROVE  /\ worker.at = "send"
         /\ \/ UNCHANGED <<worker, agent>> /\ Slot(client.slot)
            \/ /\ agent.stdin = "open"
               /\ Worker("poll", worker.req, worker.outcome) /\ Slot("empty")
               /\ agent' = [agent EXCEPT !.asked = @ \cup {worker.req}]
            \/ agent.stdin = "closed" /\ UNCHANGED agent /\ Fails /\ Slot(client.slot)
<1>1. CASE WriteBlocks("worker") /\ UNCHANGED <<worker, agent, clock>>
  BY <1>1, WriteBlocksEffect DEF Send, Threads
<1>2. CASE /\ ~Blocked /\ ~Broken
           /\ client' = [Unlocked EXCEPT !.slot = "empty"]
           /\ agent' = [agent EXCEPT !.asked = @ \cup {worker.req}]
           /\ Goto("poll")
  <2>1. Slot("empty")
    BY <1>2, Shape DEF Unlocked, Slot, ClientType
  <2>2. agent.stdin = "open"
    BY <1>2, Shape DEF Blocked, Broken, AgentType
  <2> QED
    BY <1>2, <2>1, <2>2, GotoEffect DEF Send
<1>3. CASE Broken /\ client' = Unlocked /\ ProtocolError /\ UNCHANGED <<agent, clock>>
  BY <1>3, ErrorEffect, UnlockedEffect DEF Send, Broken
<1> QED
  BY <1>1, <1>2, <1>3 DEF Send

\* The waiting loop is left, goes on to take the answer, or gives notice.
LEMMA PollEffect ==
  ASSUME Typed, Poll
  PROVE  /\ worker.at = "poll"
         /\ \/ client.cancelled /\ Worker("report", worker.req, "cancelled") /\ Slot("none")
            \/ ~client.cancelled /\ Fails /\ Slot("none")
            \/ ~client.cancelled /\ Worker("report", worker.req, "timeout") /\ Slot("none")
            \/ /\ ~client.cancelled /\ worker.req = "prompt"
               /\ worker' \in WorkerType /\ worker'.at = "notify"
               /\ worker'.then = "timeout" /\ worker'.req = "prompt"
               /\ worker'.outcome = worker.outcome
               /\ client' \in ClientType /\ client'.cancelled
               /\ client'.slot = client.slot /\ client'.closed = client.closed
            \/ ~client.cancelled /\ UNCHANGED client
                 /\ Worker("get", worker.req, worker.outcome)
<1>1. worker.at = "poll"
  BY DEF Poll
<1>2. CASE client.cancelled /\ Leave("cancelled") /\ NoSlot
  BY <1>1, <1>2, LeaveEffect, NoSlotEffect DEF Outcomes
<1>3. CASE ~client.cancelled /\ ProtocolError /\ NoSlot
  BY <1>1, <1>3, ErrorEffect, NoSlotEffect
<1>4. CASE ~client.cancelled /\ Leave("timeout") /\ NoSlot
  BY <1>1, <1>4, LeaveEffect, NoSlotEffect DEF Outcomes
<1>5. CASE /\ ~client.cancelled /\ worker.req = "prompt"
           /\ worker' = [worker EXCEPT !.at = "notify", !.then = "timeout"]
           /\ client' = [client EXCEPT !.cancelled = TRUE]
  <2>1. /\ worker' \in WorkerType /\ worker'.at = "notify"
        /\ worker'.then = "timeout" /\ worker'.req = "prompt"
        /\ worker'.outcome = worker.outcome
    BY <1>5, Shape DEF WorkerType
  <2>2. /\ client' \in ClientType /\ client'.cancelled
        /\ client'.slot = client.slot /\ client'.closed = client.closed
    BY <1>5, Shape DEF ClientType
  <2> QED
    BY <1>1, <1>5, <2>1, <2>2
<1>6. CASE ~client.cancelled /\ Goto("get") /\ UNCHANGED client
  BY <1>1, <1>6, GotoEffect
<1> QED
  BY <1>2, <1>3, <1>4, <1>5, <1>6 DEF Poll

\* An answer is taken, if there is one.
LEMMA GetEffect ==
  ASSUME Typed, Get
  PROVE  /\ worker.at = "get"
         /\ \/ client.slot = "empty" /\ Worker("poll", worker.req, worker.outcome)
                 /\ UNCHANGED client
            \/ Slot("none") /\ Fails
            \/ /\ Slot("none") /\ worker.req # "prompt"
               /\ \/ Worker("report", worker.req, "protocol")
                  \/ \E r \in Requests \ {"prompt"} : Worker("send", r, worker.outcome)
                  \/ Worker("gate", "prompt", worker.outcome)
            \/ /\ Slot("none") /\ worker.req = "prompt" /\ client.slot = "ok"
               /\ Worker("report", worker.req, "completed")
<1>1. worker.at = "get"
  BY DEF Get
<1>2. CASE client.slot = "empty" /\ Goto("poll") /\ UNCHANGED client
  BY <1>1, <1>2, GotoEffect
<1>3. CASE client.slot = "error" /\ ProtocolError /\ NoSlot
  BY <1>1, <1>3, ErrorEffect, NoSlotEffect
<1>4. ASSUME NEW r \in Requests \ {"prompt"}, worker' = [worker EXCEPT !.at = "send", !.req = r]
      PROVE  Worker("send", r, worker.outcome)
  BY <1>4, Shape DEF Worker, WorkerType
<1>5. CASE client.slot = "ok" /\ NoSlot /\ worker.req = "initialize"
           /\ worker' = [worker EXCEPT !.at = "send", !.req = "session"]
  BY <1>1, <1>4, <1>5, NoSlotEffect DEF Requests
<1>6. CASE client.slot = "ok" /\ NoSlot /\ worker.req = "session" /\ AfterSession
  BY <1>1, <1>4, <1>6, NoSlotEffect, ConfigEffect DEF AfterSession, Requests
<1>7. CASE client.slot = "ok" /\ NoSlot /\ worker.req = "session" /\ Leave("protocol")
  BY <1>1, <1>7, NoSlotEffect, LeaveEffect DEF Outcomes
<1>8. CASE client.slot = "ok" /\ NoSlot /\ worker.req = "config" /\ AfterConfig(TRUE)
  BY <1>1, <1>8, NoSlotEffect, ConfigEffect
<1>9. CASE client.slot = "ok" /\ NoSlot /\ worker.req = "prompt" /\ Leave("completed")
  BY <1>1, <1>9, NoSlotEffect, LeaveEffect DEF Outcomes
<1> QED
  BY <1>2, <1>3, <1>5, <1>6, <1>7, <1>8, <1>9 DEF Get

\* Past the gate the registry's flag is looked at once more.
LEMMA AcceptedEffect ==
  ASSUME Typed, Accepted
  PROVE  /\ worker.at = "accepted"
         /\ \/ /\ registry.flag
               /\ worker' \in WorkerType /\ worker'.at = "notify"
               /\ worker'.then = "prompt" /\ worker'.req = worker.req
               /\ worker'.outcome = worker.outcome
               /\ client' \in ClientType /\ client'.cancelled
               /\ client'.slot = client.slot /\ client'.closed = client.closed
            \/ ~registry.flag /\ Worker("send", worker.req, worker.outcome) /\ UNCHANGED client
<1>1. CASE registry.flag
  <2>1. /\ worker' \in WorkerType /\ worker'.at = "notify"
        /\ worker'.then = "prompt" /\ worker'.req = worker.req
        /\ worker'.outcome = worker.outcome
    BY <1>1, Shape DEF Accepted, WorkerType
  <2>2. /\ client' \in ClientType /\ client'.cancelled
        /\ client'.slot = client.slot /\ client'.closed = client.closed
    BY <1>1, Shape DEF Accepted, ClientType
  <2> QED
    BY <1>1, <2>1, <2>2 DEF Accepted
<1>2. CASE ~registry.flag
  BY <1>2, GotoEffect DEF Accepted
<1> QED
  BY <1>1, <1>2

\* Notice is given and the program ended, unless the write blocks or fails.
LEMMA NotifyEffect ==
  ASSUME Typed, Notify
  PROVE  /\ worker.at = "notify"
         /\ \/ UNCHANGED <<worker, agent>> /\ Slot(client.slot)
            \/ Worker("report", worker.req, "protocol") /\ Slot("none") /\ UNCHANGED agent
            \/ /\ worker.then = "prompt" /\ agent' = Killed
               /\ Worker("send", worker.req, worker.outcome) /\ UNCHANGED client
            \/ /\ worker.then = "timeout" /\ agent' = Killed
               /\ Worker("report", worker.req, "timeout") /\ Slot("none")
<1>1. worker.at = "notify" /\ worker.then \in {"prompt", "timeout"}
  BY Shape DEF Notify, WorkerType
<1>2. CASE WriteBlocks("worker") /\ UNCHANGED <<worker, agent>>
  BY <1>1, <1>2, WriteBlocksEffect DEF Threads
<1>3. CASE Leave("protocol") /\ client' = [Unlocked EXCEPT !.slot = "none"] /\ UNCHANGED agent
  <2>1. Slot("none")
    BY <1>3, Shape DEF Unlocked, Slot, ClientType
  <2> QED
    BY <1>1, <1>3, <2>1, LeaveEffect DEF Outcomes
<1>4. CASE agent' = Killed /\ worker.then = "prompt" /\ Goto("send") /\ client' = client
  BY <1>1, <1>4, GotoEffect
<1>5. CASE agent' = Killed /\ worker.then # "prompt" /\ Leave("timeout") /\ NoSlot
  BY <1>1, <1>5, LeaveEffect, NoSlotEffect DEF Outcomes
<1> QED
  BY <1>2, <1>3, <1>4, <1>5 DEF Notify

\* A flag carried over from before the call ends it at once.
LEMMA CheckEffect ==
  ASSUME Typed, CheckPending
  PROVE  /\ worker.at = "check"
         /\ \/ /\ registry.flag
               /\ Worker("report", worker.req, "cancelled")
               /\ client' \in ClientType /\ client'.cancelled
               /\ client'.slot = client.slot /\ client'.closed = client.closed
               /\ agent' = Killed
            \/ /\ ~registry.flag /\ UNCHANGED <<client, agent>>
               /\ Worker("send", worker.req, worker.outcome)
<1>1. CASE registry.flag
  <2>1. /\ client' \in ClientType /\ client'.cancelled
        /\ client'.slot = client.slot /\ client'.closed = client.closed
    BY <1>1, Shape DEF CheckPending, ClientType
  <2> QED
    BY <1>1, <2>1, LeaveEffect DEF CheckPending, Outcomes
<1>2. CASE ~registry.flag
  BY <1>2, GotoEffect DEF CheckPending
<1> QED
  BY <1>1, <1>2

\* A line of the program goes behind the ones that wait.
LEMMA SaysEffect ==
  ASSUME Typed, NEW line \in Lines, Says(line),
         line.kind = "reply" => line.req \in agent.asked
  PROVE  /\ agent' \in AgentType
         /\ agent'.alive = agent.alive /\ agent'.asked = agent.asked
         /\ agent.answered \subseteq agent'.answered
         /\ agent'.answered \subseteq agent.answered \cup agent.asked
         /\ agent'.out = Append(agent.out, line)
         /\ line.kind = "reply" => line.req \in agent'.answered
<1> DEFINE due == line.kind = "reply" /\ line.req \notin agent.answered
           told == IF due THEN agent.answered \cup {line.req} ELSE agent.answered
           more == IF due THEN agent.extra ELSE agent.extra + 1
<1>1. agent \in AgentType
  BY Shape
<1>2. agent' = [agent EXCEPT !.out = Append(@, line), !.extra = more, !.answered = told]
  BY DEF Says
<1>3. Append(agent.out, line) \in Seq(Lines)
  BY <1>1, AppendProperties DEF AgentType
<1>4. more \in 0 .. MaxExtra
  BY <1>1, RouteAssumption DEF Says, AgentType
<1>5. told \subseteq agent.answered \cup agent.asked /\ agent.answered \subseteq told
  OBVIOUS
<1>6. told \subseteq Requests
  BY <1>1, <1>5 DEF AgentType
<1>7. line.kind = "reply" => line.req \in told
  OBVIOUS
<1> HIDE DEF due, told, more
<1> QED
  BY <1>1, <1>2, <1>3, <1>4, <1>5, <1>6, <1>7 DEF AgentType

\* What the program does keeps the record of what it was asked, and never
\* takes back what it answered.
AgentMoves ==
  /\ agent' \in AgentType /\ agent'.asked = agent.asked
  /\ agent.answered \subseteq agent'.answered
  /\ agent'.answered \subseteq agent.answered \cup agent.asked
  /\ \/ agent'.out = agent.out
     \/ \E line \in Lines : /\ agent'.out = Append(agent.out, line)
                            /\ line.kind = "reply" => line.req \in agent'.answered

\* A report of consumption is a line like the others.
LEMMA ReportsEffect ==
  ASSUME Typed, AgentReports
  PROVE  /\ AgentMoves /\ agent.extra + 1 \in 1 .. MaxExtra
         /\ agent'.out = Append(agent.out, [kind |-> "usage", n |-> agent.extra + 1])
<1> DEFINE n == agent.extra + 1
           line == [kind |-> "usage", n |-> n]
<1>1. agent.extra \in 0 .. MaxExtra
  BY Shape DEF AgentType
<1>2. agent.extra < MaxExtra
  BY DEF AgentReports, Says
<1>3. n \in 1 .. MaxExtra
  BY <1>1, <1>2, RouteAssumption
<1>4. Says(line)
  BY DEF AgentReports
<1> HIDE DEF n
<1>5. line \in Lines /\ line.kind = "usage"
  BY <1>3 DEF Lines
<1> HIDE DEF line
<1>6. AgentMoves /\ agent'.out = Append(agent.out, line)
  BY <1>4, <1>5, SaysEffect DEF AgentMoves
<1> QED
  BY <1>3, <1>6 DEF line, n

LEMMA AgentEffect ==
  ASSUME Typed, AgentStep \/ AgentReports
  PROVE  agent.alive /\ AgentMoves
<1>1. agent \in AgentType /\ agent.alive
  BY Shape DEF AgentStep, AgentReports
<1>2. ASSUME NEW r \in agent.asked, NEW ok \in BOOLEAN,
             Says([kind |-> "reply", req |-> r, ok |-> ok])
      PROVE  AgentMoves
  <2> DEFINE line == [kind |-> "reply", req |-> r, ok |-> ok]
  <2>1. line \in Lines /\ line.req = r
    BY <1>1 DEF Lines, AgentType
  <2> HIDE DEF line
  <2> QED
    BY <1>2, <2>1, SaysEffect DEF line, AgentMoves
<1>3. ASSUME NEW k \in {"update", "garbage"}, Says([kind |-> k])
      PROVE  AgentMoves
  <2> DEFINE line == [kind |-> k]
  <2>1. line \in Lines /\ line.kind # "reply"
    BY DEF Lines
  <2> HIDE DEF line
  <2> QED
    BY <1>3, <2>1, SaysEffect DEF line, AgentMoves
<1>4. ASSUME NEW op \in ClientOps, Says([kind |-> "ask", op |-> op])
      PROVE  AgentMoves
  <2> DEFINE line == [kind |-> "ask", op |-> op]
  <2>1. line \in Lines /\ line.kind # "reply"
    BY DEF Lines
  <2> HIDE DEF line
  <2> QED
    BY <1>4, <2>1, SaysEffect DEF line, AgentMoves
<1>5. CASE \/ agent' = [agent EXCEPT !.stdin = "full"]
           \/ agent' = [agent EXCEPT !.stdin = "open"]
           \/ agent' = [agent EXCEPT !.stdin = "closed"]
           \/ agent' = Killed
  BY <1>1, <1>5 DEF Killed, AgentType, AgentMoves
<1>6. CASE AgentReports
  BY <1>1, <1>6, ReportsEffect
<1> QED
  BY <1>1, <1>2, <1>3, <1>4, <1>5, <1>6 DEF AgentStep

-----------------------------------------------------------------------------
(***************************************************************************)
(* Every step keeps the invariant                                          *)
(***************************************************************************)

\* Nobody knows of a cancellation that was not asked for.
LEMMA CancelStepInv ==
  ASSUME Typed, AskedInv, CancelInv, [RouteNext]_vars
  PROVE  CancelInv'
<1> USE Shape DEF CancelInv, AskedInv, Over
<1>1. CASE Construct
  BY <1>1
     DEF Construct, Goto, WorkerType, ClientType, AgentType, RegistryType
<1>2. CASE Register
  BY <1>2
     DEF Register, Goto, WorkerType, ClientType, AgentType, RegistryType
<1>3. CASE CheckPending
  BY <1>3, CheckEffect
     DEF CheckPending, Worker, Slot, Fails, Killed, WorkerType, ClientType, AgentType
<1>4. CASE Send
  BY <1>4, SendEffect
     DEF Send, Worker, Slot, Fails, Killed, WorkerType, ClientType, AgentType
<1>5. CASE Poll
  BY <1>5, PollEffect
     DEF Poll, Worker, Slot, Fails, Killed, WorkerType, ClientType, AgentType
<1>6. CASE Get
  BY <1>6, GetEffect
     DEF Get, Worker, Slot, Fails, Killed, WorkerType, ClientType, AgentType
<1>7. CASE Gate
  BY <1>7
     DEF Gate, Leave, Goto, WorkerType, ClientType, AgentType, RegistryType
<1>8. CASE Accepted
  BY <1>8, AcceptedEffect
     DEF Accepted, Worker, Slot, Fails, Killed, WorkerType, ClientType, AgentType
<1>9. CASE Notify
  BY <1>9, NotifyEffect
     DEF Notify, Worker, Slot, Fails, Killed, WorkerType, ClientType, AgentType
<1>10. CASE ReportUsage
  BY <1>10
     DEF ReportUsage, Goto, WorkerType, ClientType, AgentType, RegistryType
<1>11. CASE Close
  BY <1>11
     DEF Close, Killed, Goto, WorkerType, ClientType, AgentType, RegistryType
<1>12. CASE Unregister
  BY <1>12
     DEF Unregister, Removed, Goto, WorkerType, ClientType, AgentType, RegistryType
<1>13. CASE Read
  BY <1>13
     DEF Read, Deliver, Active, WorkerType, ClientType, AgentType, RegistryType
<1>14. CASE ReaderStops
  BY <1>14
     DEF ReaderStops, WorkerType, ClientType, AgentType, RegistryType
<1>15. CASE HandleRequest
  BY <1>15
     DEF HandleRequest, Active, WorkerType, ClientType, AgentType, RegistryType
<1>16. CASE StartTerminal
  BY <1>16
     DEF StartTerminal, WorkerType, ClientType, AgentType, RegistryType
<1>17. CASE RegisterTerminal
  BY <1>17
     DEF RegisterTerminal, Active, WorkerType, ClientType, AgentType, RegistryType
<1>18. CASE HandlerReplies
  BY <1>18
     DEF HandlerReplies, WriteBlocks, Unlocked, Blocked, WorkerType, ClientType, AgentType, RegistryType
<1>19. CASE CancelEarly
  BY <1>19
     DEF CancelEarly, WorkerType, ClientType, AgentType, RegistryType
<1>20. CASE CancelFinds
  BY <1>20
     DEF CancelFinds, BeforeGatePassed, WorkerType, ClientType, AgentType, RegistryType
<1>21. CASE CancelFlags
  BY <1>21
     DEF CancelFlags, WorkerType, ClientType, AgentType, RegistryType
<1>22. CASE CancelNotifies
  BY <1>22
     DEF CancelNotifies, WriteBlocks, Unlocked, Blocked, WorkerType, ClientType, AgentType, RegistryType
<1>23. CASE CancelKills
  BY <1>23
     DEF CancelKills, Killed, WorkerType, ClientType, AgentType, RegistryType
<1>24. CASE AgentStep \/ AgentReports
  BY <1>24, AgentEffect
     DEF AgentStep, AgentReports, Worker, Slot, Fails, Killed, WorkerType, ClientType, AgentType, AgentMoves
<1>25. CASE Tick
  BY <1>25
     DEF Tick, Up, WorkerType, ClientType, AgentType, RegistryType
<1>26. CASE UNCHANGED vars
  BY <1>26 DEF vars
<1> QED
  BY <1>1, <1>2, <1>3, <1>4, <1>5, <1>6, <1>7, <1>8, <1>9, <1>10, <1>11, <1>12, <1>13, <1>14, <1>15, <1>16, <1>17, <1>18, <1>19, <1>20, <1>21, <1>22, <1>23, <1>24, <1>25, <1>26
     DEF RouteNext, WorkerStep, HandlerStep, CancelStep

\* Where the worker is tells whether the prompt is out, and that the call is not.
LEMMA AskedStepInv ==
  ASSUME Typed, SlotInv, AskedInv, [RouteNext]_vars
  PROVE  AskedInv'
<1> USE Shape DEF SlotInv, AskedInv, Over, Waiting
<1>1. CASE Construct
  BY <1>1
     DEF Construct, Goto, WorkerType, ClientType, AgentType, RegistryType
<1>2. CASE Register
  BY <1>2
     DEF Register, Goto, WorkerType, ClientType, AgentType, RegistryType
<1>3. CASE CheckPending
  BY <1>3, CheckEffect
     DEF CheckPending, Worker, Slot, Fails, Killed, WorkerType, ClientType, AgentType
<1>4. CASE Send
  BY <1>4, SendEffect
     DEF Send, Worker, Slot, Fails, Killed, WorkerType, ClientType, AgentType
<1>5. CASE Poll
  BY <1>5, PollEffect
     DEF Poll, Worker, Slot, Fails, Killed, WorkerType, ClientType, AgentType
<1>6. CASE Get
  BY <1>6, GetEffect
     DEF Get, Worker, Slot, Fails, Killed, WorkerType, ClientType, AgentType
<1>7. CASE Gate
  BY <1>7
     DEF Gate, Leave, Goto, WorkerType, ClientType, AgentType, RegistryType
<1>8. CASE Accepted
  BY <1>8, AcceptedEffect
     DEF Accepted, Worker, Slot, Fails, Killed, WorkerType, ClientType, AgentType
<1>9. CASE Notify
  BY <1>9, NotifyEffect
     DEF Notify, Worker, Slot, Fails, Killed, WorkerType, ClientType, AgentType
<1>10. CASE ReportUsage
  BY <1>10
     DEF ReportUsage, Goto, WorkerType, ClientType, AgentType, RegistryType
<1>11. CASE Close
  BY <1>11
     DEF Close, Killed, Goto, WorkerType, ClientType, AgentType, RegistryType
<1>12. CASE Unregister
  BY <1>12
     DEF Unregister, Removed, Goto, WorkerType, ClientType, AgentType, RegistryType
<1>13. CASE Read
  BY <1>13
     DEF Read, Deliver, Active, WorkerType, ClientType, AgentType, RegistryType
<1>14. CASE ReaderStops
  BY <1>14
     DEF ReaderStops, WorkerType, ClientType, AgentType, RegistryType
<1>15. CASE HandleRequest
  BY <1>15
     DEF HandleRequest, Active, WorkerType, ClientType, AgentType, RegistryType
<1>16. CASE StartTerminal
  BY <1>16
     DEF StartTerminal, WorkerType, ClientType, AgentType, RegistryType
<1>17. CASE RegisterTerminal
  BY <1>17
     DEF RegisterTerminal, Active, WorkerType, ClientType, AgentType, RegistryType
<1>18. CASE HandlerReplies
  BY <1>18
     DEF HandlerReplies, WriteBlocks, Unlocked, Blocked, WorkerType, ClientType, AgentType, RegistryType
<1>19. CASE CancelEarly
  BY <1>19
     DEF CancelEarly, WorkerType, ClientType, AgentType, RegistryType
<1>20. CASE CancelFinds
  BY <1>20
     DEF CancelFinds, BeforeGatePassed, WorkerType, ClientType, AgentType, RegistryType
<1>21. CASE CancelFlags
  BY <1>21
     DEF CancelFlags, WorkerType, ClientType, AgentType, RegistryType
<1>22. CASE CancelNotifies
  BY <1>22
     DEF CancelNotifies, WriteBlocks, Unlocked, Blocked, WorkerType, ClientType, AgentType, RegistryType
<1>23. CASE CancelKills
  BY <1>23
     DEF CancelKills, Killed, WorkerType, ClientType, AgentType, RegistryType
<1>24. CASE AgentStep \/ AgentReports
  BY <1>24, AgentEffect
     DEF AgentStep, AgentReports, Worker, Slot, Fails, Killed, WorkerType, ClientType, AgentType, AgentMoves
<1>25. CASE Tick
  BY <1>25
     DEF Tick, Up, WorkerType, ClientType, AgentType, RegistryType
<1>26. CASE UNCHANGED vars
  BY <1>26 DEF vars
<1> QED
  BY <1>1, <1>2, <1>3, <1>4, <1>5, <1>6, <1>7, <1>8, <1>9, <1>10, <1>11, <1>12, <1>13, <1>14, <1>15, <1>16, <1>17, <1>18, <1>19, <1>20, <1>21, <1>22, <1>23, <1>24, <1>25, <1>26
     DEF RouteNext, WorkerStep, HandlerStep, CancelStep

\* The response slot holds an answer to the request the worker waits for.
LEMMA SlotStepInv ==
  ASSUME Typed, SlotInv, AskedInv, [RouteNext]_vars
  PROVE  SlotInv'
<1> USE Shape DEF SlotInv, AskedInv, Over, Waiting
<1>1. CASE Construct
  BY <1>1
     DEF Construct, Goto, WorkerType, ClientType, AgentType, RegistryType
<1>2. CASE Register
  BY <1>2
     DEF Register, Goto, WorkerType, ClientType, AgentType, RegistryType
<1>3. CASE CheckPending
  <2>1. agent'.out = agent.out /\ agent'.answered = agent.answered /\ agent'.asked = agent.asked
    BY <1>3, CheckEffect DEF Killed, AgentType
  <2>2. client'.slot = client.slot /\ worker.at = "check"
    BY <1>3, CheckEffect
  <2> QED
    BY <2>1, <2>2
<1>4. CASE Send
  BY <1>4, SendEffect
     DEF Send, Worker, Slot, Fails, Killed, WorkerType, ClientType, AgentType
<1>5. CASE Poll
  BY <1>5, PollEffect
     DEF Poll, Worker, Slot, Fails, Killed, WorkerType, ClientType, AgentType
<1>6. CASE Get
  BY <1>6, GetEffect
     DEF Get, Worker, Slot, Fails, Killed, WorkerType, ClientType, AgentType
<1>7. CASE Gate
  BY <1>7
     DEF Gate, Leave, Goto, WorkerType, ClientType, AgentType, RegistryType
<1>8. CASE Accepted
  BY <1>8, AcceptedEffect
     DEF Accepted, Worker, Slot, Fails, Killed, WorkerType, ClientType, AgentType
<1>9. CASE Notify
  BY <1>9, NotifyEffect
     DEF Notify, Worker, Slot, Fails, Killed, WorkerType, ClientType, AgentType
<1>10. CASE ReportUsage
  BY <1>10
     DEF ReportUsage, Goto, WorkerType, ClientType, AgentType, RegistryType
<1>11. CASE Close
  BY <1>11
     DEF Close, Killed, Goto, WorkerType, ClientType, AgentType, RegistryType
<1>12. CASE Unregister
  BY <1>12
     DEF Unregister, Removed, Goto, WorkerType, ClientType, AgentType, RegistryType
<1>13. CASE Read
  BY <1>13
     DEF Read, Deliver, Active, WorkerType, ClientType, AgentType, RegistryType
<1>14. CASE ReaderStops
  BY <1>14
     DEF ReaderStops, WorkerType, ClientType, AgentType, RegistryType
<1>15. CASE HandleRequest
  BY <1>15
     DEF HandleRequest, Active, WorkerType, ClientType, AgentType, RegistryType
<1>16. CASE StartTerminal
  BY <1>16
     DEF StartTerminal, WorkerType, ClientType, AgentType, RegistryType
<1>17. CASE RegisterTerminal
  BY <1>17
     DEF RegisterTerminal, Active, WorkerType, ClientType, AgentType, RegistryType
<1>18. CASE HandlerReplies
  BY <1>18
     DEF HandlerReplies, WriteBlocks, Unlocked, Blocked, WorkerType, ClientType, AgentType, RegistryType
<1>19. CASE CancelEarly
  BY <1>19
     DEF CancelEarly, WorkerType, ClientType, AgentType, RegistryType
<1>20. CASE CancelFinds
  BY <1>20
     DEF CancelFinds, BeforeGatePassed, WorkerType, ClientType, AgentType, RegistryType
<1>21. CASE CancelFlags
  BY <1>21
     DEF CancelFlags, WorkerType, ClientType, AgentType, RegistryType
<1>22. CASE CancelNotifies
  BY <1>22
     DEF CancelNotifies, WriteBlocks, Unlocked, Blocked, WorkerType, ClientType, AgentType, RegistryType
<1>23. CASE CancelKills
  BY <1>23
     DEF CancelKills, Killed, WorkerType, ClientType, AgentType, RegistryType
<1>24. CASE AgentStep \/ AgentReports
  <2>1. AgentMoves /\ UNCHANGED <<worker, client>>
    BY <1>24, AgentEffect DEF AgentStep, AgentReports
  <2>2. \A i \in DOMAIN agent'.out :
          agent'.out[i].kind = "reply" => agent'.out[i].req \in agent'.answered
    <3>1. CASE agent'.out = agent.out
      BY <2>1, <3>1 DEF AgentMoves
    <3>2. ASSUME NEW line \in Lines, agent'.out = Append(agent.out, line),
                 line.kind = "reply" => line.req \in agent'.answered
          PROVE  \A i \in DOMAIN agent'.out :
                   agent'.out[i].kind = "reply" => agent'.out[i].req \in agent'.answered
      <4>1. agent.out \in Seq(Lines)
        BY DEF AgentType
      <4>2. \A i \in DOMAIN agent'.out :
              (i \in DOMAIN agent.out /\ agent'.out[i] = agent.out[i]) \/ agent'.out[i] = line
        BY <3>2, <4>1, AppendProperties, LenProperties
      <4> QED
        BY <2>1, <3>2, <4>2 DEF AgentMoves
    <3> QED
      BY <2>1, <3>1, <3>2 DEF AgentMoves
  <2> QED
    BY <2>1, <2>2 DEF AgentMoves
<1>25. CASE Tick
  BY <1>25
     DEF Tick, Up, WorkerType, ClientType, AgentType, RegistryType
<1>26. CASE UNCHANGED vars
  BY <1>26 DEF vars
<1> QED
  BY <1>1, <1>2, <1>3, <1>4, <1>5, <1>6, <1>7, <1>8, <1>9, <1>10, <1>11, <1>12, <1>13, <1>14, <1>15, <1>16, <1>17, <1>18, <1>19, <1>20, <1>21, <1>22, <1>23, <1>24, <1>25, <1>26
     DEF RouteNext, WorkerStep, HandlerStep, CancelStep

\* A doomed call stays kept from its answer, wherever the canceller comes in.
LEMMA DoomStepInv ==
  ASSUME Typed, AskedInv, CancelInv, DoomInv, [RouteNext]_vars
  PROVE  DoomInv'
<1> USE Shape DEF AskedInv, CancelInv, DoomInv, Over
<1>1. CASE Construct
  BY <1>1
     DEF Construct, Goto, WorkerType, ClientType, AgentType, RegistryType
<1>2. CASE Register
  BY <1>2
     DEF Register, Goto, WorkerType, ClientType, AgentType, RegistryType
<1>3. CASE CheckPending
  BY <1>3, CheckEffect
     DEF CheckPending, Worker, Slot, Fails, Killed, WorkerType, ClientType, AgentType
<1>4. CASE Send
  BY <1>4, SendEffect
     DEF Send, Worker, Slot, Fails, Killed, WorkerType, ClientType, AgentType
<1>5. CASE Poll
  BY <1>5, PollEffect
     DEF Poll, Worker, Slot, Fails, Killed, WorkerType, ClientType, AgentType
<1>6. CASE Get
  BY <1>6, GetEffect
     DEF Get, Worker, Slot, Fails, Killed, WorkerType, ClientType, AgentType
<1>7. CASE Gate
  BY <1>7
     DEF Gate, Leave, Goto, WorkerType, ClientType, AgentType, RegistryType
<1>8. CASE Accepted
  BY <1>8, AcceptedEffect
     DEF Accepted, Worker, Slot, Fails, Killed, WorkerType, ClientType, AgentType
<1>9. CASE Notify
  BY <1>9, NotifyEffect
     DEF Notify, Worker, Slot, Fails, Killed, WorkerType, ClientType, AgentType
<1>10. CASE ReportUsage
  BY <1>10
     DEF ReportUsage, Goto, WorkerType, ClientType, AgentType, RegistryType
<1>11. CASE Close
  BY <1>11
     DEF Close, Killed, Goto, WorkerType, ClientType, AgentType, RegistryType
<1>12. CASE Unregister
  BY <1>12
     DEF Unregister, Removed, Goto, WorkerType, ClientType, AgentType, RegistryType
<1>13. CASE Read
  BY <1>13
     DEF Read, Deliver, Active, WorkerType, ClientType, AgentType, RegistryType
<1>14. CASE ReaderStops
  BY <1>14
     DEF ReaderStops, WorkerType, ClientType, AgentType, RegistryType
<1>15. CASE HandleRequest
  BY <1>15
     DEF HandleRequest, Active, WorkerType, ClientType, AgentType, RegistryType
<1>16. CASE StartTerminal
  BY <1>16
     DEF StartTerminal, WorkerType, ClientType, AgentType, RegistryType
<1>17. CASE RegisterTerminal
  BY <1>17
     DEF RegisterTerminal, Active, WorkerType, ClientType, AgentType, RegistryType
<1>18. CASE HandlerReplies
  BY <1>18
     DEF HandlerReplies, WriteBlocks, Unlocked, Blocked, WorkerType, ClientType, AgentType, RegistryType
<1>19. CASE CancelEarly
  BY <1>19
     DEF CancelEarly, WorkerType, ClientType, AgentType, RegistryType
<1>20. CASE CancelFinds
  BY <1>20
     DEF CancelFinds, BeforeGatePassed, WorkerType, ClientType, AgentType, RegistryType
<1>21. CASE CancelFlags
  BY <1>21
     DEF CancelFlags, WorkerType, ClientType, AgentType, RegistryType
<1>22. CASE CancelNotifies
  BY <1>22
     DEF CancelNotifies, WriteBlocks, Unlocked, Blocked, WorkerType, ClientType, AgentType, RegistryType
<1>23. CASE CancelKills
  BY <1>23
     DEF CancelKills, Killed, WorkerType, ClientType, AgentType, RegistryType
<1>24. CASE AgentStep \/ AgentReports
  BY <1>24, AgentEffect
     DEF AgentStep, AgentReports, Worker, Slot, Fails, Killed, WorkerType, ClientType, AgentType, AgentMoves
<1>25. CASE Tick
  BY <1>25
     DEF Tick, Up, WorkerType, ClientType, AgentType, RegistryType
<1>26. CASE UNCHANGED vars
  BY <1>26 DEF vars
<1> QED
  BY <1>1, <1>2, <1>3, <1>4, <1>5, <1>6, <1>7, <1>8, <1>9, <1>10, <1>11, <1>12, <1>13, <1>14, <1>15, <1>16, <1>17, <1>18, <1>19, <1>20, <1>21, <1>22, <1>23, <1>24, <1>25, <1>26
     DEF RouteNext, WorkerStep, HandlerStep, CancelStep

\* What runs before the call and after it.
LEMMA CleanStepInv ==
  ASSUME Typed, AskedInv, CleanInv, [RouteNext]_vars
  PROVE  CleanInv'
<1> USE Shape DEF AskedInv, CleanInv, Over, Untouched
<1>1. CASE Construct
  BY <1>1
     DEF Construct, Goto, WorkerType, ClientType, AgentType, RegistryType
<1>2. CASE Register
  BY <1>2
     DEF Register, Goto, WorkerType, ClientType, AgentType, RegistryType
<1>3. CASE CheckPending
  BY <1>3, CheckEffect
     DEF CheckPending, Worker, Slot, Fails, Killed, WorkerType, ClientType, AgentType
<1>4. CASE Send
  BY <1>4, SendEffect
     DEF Send, Worker, Slot, Fails, Killed, WorkerType, ClientType, AgentType
<1>5. CASE Poll
  BY <1>5, PollEffect
     DEF Poll, Worker, Slot, Fails, Killed, WorkerType, ClientType, AgentType
<1>6. CASE Get
  BY <1>6, GetEffect
     DEF Get, Worker, Slot, Fails, Killed, WorkerType, ClientType, AgentType
<1>7. CASE Gate
  BY <1>7
     DEF Gate, Leave, Goto, WorkerType, ClientType, AgentType, RegistryType
<1>8. CASE Accepted
  BY <1>8, AcceptedEffect
     DEF Accepted, Worker, Slot, Fails, Killed, WorkerType, ClientType, AgentType
<1>9. CASE Notify
  BY <1>9, NotifyEffect
     DEF Notify, Worker, Slot, Fails, Killed, WorkerType, ClientType, AgentType
<1>10. CASE ReportUsage
  BY <1>10
     DEF ReportUsage, Goto, WorkerType, ClientType, AgentType, RegistryType
<1>11. CASE Close
  BY <1>11
     DEF Close, Killed, Goto, WorkerType, ClientType, AgentType, RegistryType
<1>12. CASE Unregister
  BY <1>12
     DEF Unregister, Removed, Goto, WorkerType, ClientType, AgentType, RegistryType
<1>13. CASE Read
  BY <1>13
     DEF Read, Deliver, Active, WorkerType, ClientType, AgentType, RegistryType
<1>14. CASE ReaderStops
  BY <1>14
     DEF ReaderStops, WorkerType, ClientType, AgentType, RegistryType
<1>15. CASE HandleRequest
  BY <1>15
     DEF HandleRequest, Active, WorkerType, ClientType, AgentType, RegistryType
<1>16. CASE StartTerminal
  BY <1>16
     DEF StartTerminal, WorkerType, ClientType, AgentType, RegistryType
<1>17. CASE RegisterTerminal
  BY <1>17
     DEF RegisterTerminal, Active, WorkerType, ClientType, AgentType, RegistryType
<1>18. CASE HandlerReplies
  BY <1>18
     DEF HandlerReplies, WriteBlocks, Unlocked, Blocked, WorkerType, ClientType, AgentType, RegistryType
<1>19. CASE CancelEarly
  BY <1>19
     DEF CancelEarly, WorkerType, ClientType, AgentType, RegistryType
<1>20. CASE CancelFinds
  BY <1>20
     DEF CancelFinds, BeforeGatePassed, WorkerType, ClientType, AgentType, RegistryType
<1>21. CASE CancelFlags
  BY <1>21
     DEF CancelFlags, WorkerType, ClientType, AgentType, RegistryType
<1>22. CASE CancelNotifies
  BY <1>22
     DEF CancelNotifies, WriteBlocks, Unlocked, Blocked, WorkerType, ClientType, AgentType, RegistryType
<1>23. CASE CancelKills
  BY <1>23
     DEF CancelKills, Killed, WorkerType, ClientType, AgentType, RegistryType
<1>24. CASE AgentStep \/ AgentReports
  BY <1>24, AgentEffect
     DEF AgentStep, AgentReports, Worker, Slot, Fails, Killed, WorkerType, ClientType, AgentType, AgentMoves
<1>25. CASE Tick
  BY <1>25
     DEF Tick, Up, WorkerType, ClientType, AgentType, RegistryType
<1>26. CASE UNCHANGED vars
  BY <1>26 DEF vars
<1> QED
  BY <1>1, <1>2, <1>3, <1>4, <1>5, <1>6, <1>7, <1>8, <1>9, <1>10, <1>11, <1>12, <1>13, <1>14, <1>15, <1>16, <1>17, <1>18, <1>19, <1>20, <1>21, <1>22, <1>23, <1>24, <1>25, <1>26
     DEF RouteNext, WorkerStep, HandlerStep, CancelStep

\* A completed call has its own answer.
LEMMA OwnReplyStep ==
  ASSUME Typed, SlotInv, AskedInv, OwnReply, [RouteNext]_vars
  PROVE  OwnReply'
<1> USE Shape DEF SlotInv, AskedInv, OwnReply, Over, Waiting
<1>1. CASE Construct
  BY <1>1
     DEF Construct, Goto, WorkerType, ClientType, AgentType, RegistryType
<1>2. CASE Register
  BY <1>2
     DEF Register, Goto, WorkerType, ClientType, AgentType, RegistryType
<1>3. CASE CheckPending
  BY <1>3, CheckEffect
     DEF CheckPending, Worker, Slot, Fails, Killed, WorkerType, ClientType, AgentType
<1>4. CASE Send
  BY <1>4, SendEffect
     DEF Send, Worker, Slot, Fails, Killed, WorkerType, ClientType, AgentType
<1>5. CASE Poll
  BY <1>5, PollEffect
     DEF Poll, Worker, Slot, Fails, Killed, WorkerType, ClientType, AgentType
<1>6. CASE Get
  BY <1>6, GetEffect
     DEF Get, Worker, Slot, Fails, Killed, WorkerType, ClientType, AgentType
<1>7. CASE Gate
  BY <1>7
     DEF Gate, Leave, Goto, WorkerType, ClientType, AgentType, RegistryType
<1>8. CASE Accepted
  BY <1>8, AcceptedEffect
     DEF Accepted, Worker, Slot, Fails, Killed, WorkerType, ClientType, AgentType
<1>9. CASE Notify
  BY <1>9, NotifyEffect
     DEF Notify, Worker, Slot, Fails, Killed, WorkerType, ClientType, AgentType
<1>10. CASE ReportUsage
  BY <1>10
     DEF ReportUsage, Goto, WorkerType, ClientType, AgentType, RegistryType
<1>11. CASE Close
  BY <1>11
     DEF Close, Killed, Goto, WorkerType, ClientType, AgentType, RegistryType
<1>12. CASE Unregister
  BY <1>12
     DEF Unregister, Removed, Goto, WorkerType, ClientType, AgentType, RegistryType
<1>13. CASE Read
  BY <1>13
     DEF Read, Deliver, Active, WorkerType, ClientType, AgentType, RegistryType
<1>14. CASE ReaderStops
  BY <1>14
     DEF ReaderStops, WorkerType, ClientType, AgentType, RegistryType
<1>15. CASE HandleRequest
  BY <1>15
     DEF HandleRequest, Active, WorkerType, ClientType, AgentType, RegistryType
<1>16. CASE StartTerminal
  BY <1>16
     DEF StartTerminal, WorkerType, ClientType, AgentType, RegistryType
<1>17. CASE RegisterTerminal
  BY <1>17
     DEF RegisterTerminal, Active, WorkerType, ClientType, AgentType, RegistryType
<1>18. CASE HandlerReplies
  BY <1>18
     DEF HandlerReplies, WriteBlocks, Unlocked, Blocked, WorkerType, ClientType, AgentType, RegistryType
<1>19. CASE CancelEarly
  BY <1>19
     DEF CancelEarly, WorkerType, ClientType, AgentType, RegistryType
<1>20. CASE CancelFinds
  BY <1>20
     DEF CancelFinds, BeforeGatePassed, WorkerType, ClientType, AgentType, RegistryType
<1>21. CASE CancelFlags
  BY <1>21
     DEF CancelFlags, WorkerType, ClientType, AgentType, RegistryType
<1>22. CASE CancelNotifies
  BY <1>22
     DEF CancelNotifies, WriteBlocks, Unlocked, Blocked, WorkerType, ClientType, AgentType, RegistryType
<1>23. CASE CancelKills
  BY <1>23
     DEF CancelKills, Killed, WorkerType, ClientType, AgentType, RegistryType
<1>24. CASE AgentStep \/ AgentReports
  BY <1>24, AgentEffect
     DEF AgentStep, AgentReports, Worker, Slot, Fails, Killed, WorkerType, ClientType, AgentType, AgentMoves
<1>25. CASE Tick
  BY <1>25
     DEF Tick, Up, WorkerType, ClientType, AgentType, RegistryType
<1>26. CASE UNCHANGED vars
  BY <1>26 DEF vars
<1> QED
  BY <1>1, <1>2, <1>3, <1>4, <1>5, <1>6, <1>7, <1>8, <1>9, <1>10, <1>11, <1>12, <1>13, <1>14, <1>15, <1>16, <1>17, <1>18, <1>19, <1>20, <1>21, <1>22, <1>23, <1>24, <1>25, <1>26
     DEF RouteNext, WorkerStep, HandlerStep, CancelStep

\* The reader takes the first line: what is due is heard now or goes on waiting,
\* and once it takes an answer to the prompt nothing that is due was waiting.
LEMMA ReadWaits ==
  ASSUME NEW out \in Seq(Lines), out # <<>>, NEW n, WaitsIn(out, n)
  PROVE  /\ \/ Head(out).kind = "usage" /\ Head(out).n = n
            \/ WaitsIn(Tail(out), n)
         /\ ~Answer(Head(out))
<1>1. PICK i \in DOMAIN out : /\ out[i].kind = "usage" /\ out[i].n = n
                              /\ \A j \in DOMAIN out : j < i => ~Answer(out[j])
  BY DEF WaitsIn
<1>2. /\ Len(out) \in Nat /\ DOMAIN out = 1 .. Len(out) /\ Head(out) = out[1]
      /\ 1 \in DOMAIN out /\ i \in 1 .. Len(out)
  BY <1>1, LenProperties, HeadTailProperties, EmptySeq
<1>3. /\ Len(Tail(out)) = Len(out) - 1 /\ Tail(out) \in Seq(Lines)
      /\ \A k \in 1 .. Len(Tail(out)) : Tail(out)[k] = out[k + 1]
  BY HeadTailProperties
<1>4. DOMAIN Tail(out) = 1 .. (Len(out) - 1)
  BY <1>3, LenProperties
<1>5. CASE i = 1
  BY <1>1, <1>2, <1>5 DEF Answer
<1>6. CASE i # 1
  <2>1. 1 < i /\ i - 1 \in DOMAIN Tail(out) /\ Tail(out)[i - 1] = out[i]
    BY <1>2, <1>3, <1>4, <1>6
  <2>2. \A j \in DOMAIN Tail(out) :
          j < i - 1 => Tail(out)[j] = out[j + 1] /\ j + 1 < i /\ j + 1 \in DOMAIN out
    BY <1>2, <1>3, <1>4
  <2>3. WaitsIn(Tail(out), n)
    BY <1>1, <2>1, <2>2 DEF WaitsIn
  <2> QED
    BY <1>1, <1>2, <2>1, <2>3
<1> QED
  BY <1>5, <1>6

\* What waits goes on waiting when a line is added, and a report written before
\* any answer waits in front of them all.
LEMMA AppendWaits ==
  ASSUME NEW out \in Seq(Lines), NEW line, NEW n
  PROVE  /\ WaitsIn(out, n) => WaitsIn(Append(out, line), n)
         /\ /\ line.kind = "usage" /\ line.n = n
            /\ \A j \in DOMAIN out : ~Answer(out[j])
            => WaitsIn(Append(out, line), n)
<1> DEFINE more == Append(out, line)
<1>1. /\ Len(out) \in Nat /\ DOMAIN out = 1 .. Len(out)
      /\ DOMAIN more = 1 .. (Len(out) + 1)
      /\ \A j \in DOMAIN out : more[j] = out[j]
      /\ more[Len(out) + 1] = line
  BY LenProperties
<1> HIDE DEF more
<1>2. ASSUME WaitsIn(out, n) PROVE WaitsIn(more, n)
  <2>1. PICK i \in DOMAIN out : /\ out[i].kind = "usage" /\ out[i].n = n
                                /\ \A j \in DOMAIN out : j < i => ~Answer(out[j])
    BY <1>2 DEF WaitsIn
  <2>2. i \in DOMAIN more /\ more[i] = out[i]
    BY <1>1, <2>1
  <2>3. \A j \in DOMAIN more : j < i => j \in DOMAIN out /\ more[j] = out[j]
    BY <1>1, <2>1
  <2> QED
    BY <2>1, <2>2, <2>3 DEF WaitsIn
<1>3. ASSUME line.kind = "usage", line.n = n, \A j \in DOMAIN out : ~Answer(out[j])
      PROVE  WaitsIn(more, n)
  <2> DEFINE i == Len(out) + 1
  <2>1. i \in DOMAIN more /\ more[i] = line
    BY <1>1
  <2>2. \A j \in DOMAIN more : j < i => j \in DOMAIN out /\ more[j] = out[j]
    BY <1>1
  <2> HIDE DEF i
  <2> QED
    BY <1>3, <2>1, <2>2 DEF WaitsIn
<1> QED
  BY <1>2, <1>3 DEF more

\* The other steps neither read nor write lines, nor close the client, nor hear
\* or owe an update.
Quiet == /\ agent'.out = agent.out /\ client'.closed = client.closed
         /\ usage'.due = usage.due /\ usage'.heard = usage.heard

LEMMA QuietSteps ==
  ASSUME Typed, [RouteNext]_vars, ~Read, ~Close, ~AgentStep, ~AgentReports
  PROVE  Quiet
<1> USE Shape DEF Quiet
<1>1. CASE UNCHANGED <<agent, usage>> /\ (client' = Unlocked \/ UNCHANGED client)
  BY <1>1, UnlockedEffect DEF Slot
<1>2. CASE Construct \/ CancelKills
  BY <1>2 DEF Construct, CancelKills, Killed, AgentType
<1>3. CASE CheckPending
  BY <1>3, CheckEffect DEF CheckPending, Killed, AgentType
<1>4. CASE Send
  BY <1>4, SendEffect DEF Send, Slot, AgentType
<1>5. CASE Poll
  BY <1>5, PollEffect DEF Poll, Slot
<1>6. CASE Get
  <2>1. usage'.due = usage.due /\ usage'.heard = usage.heard /\ UNCHANGED agent
    BY <1>6 DEF Get, UsageType
  <2> QED
    BY <1>6, <2>1, GetEffect DEF Slot
<1>7. CASE Accepted
  BY <1>7, AcceptedEffect DEF Accepted
<1>8. CASE Notify
  BY <1>8, NotifyEffect DEF Notify, Slot, Killed, AgentType
<1>9. CASE ReportUsage
  BY <1>9 DEF ReportUsage, UsageType
<1>10. CASE CancelFlags
  BY <1>10 DEF CancelFlags, ClientType
<1>11. CASE CancelNotifies \/ HandlerReplies
  BY <1>11, WriteBlocksEffect, UnlockedEffect
     DEF CancelNotifies, HandlerReplies, Slot, Threads
<1> QED
  BY <1>1, <1>2, <1>3, <1>4, <1>5, <1>6, <1>7, <1>8, <1>9, <1>10, <1>11
     DEF RouteNext, vars, WorkerStep, Register, Gate, Unregister, ReaderStops,
         HandlerStep, HandleRequest, StartTerminal, RegisterTerminal, CancelStep,
         CancelEarly, CancelFinds, Tick

\* What is due and not heard waits in front of the answers.
LEMMA UnheardStep ==
  ASSUME Typed, SlotInv, UnheardInv, [RouteNext]_vars
  PROVE  UnheardInv'
<1>1. agent.out \in Seq(Lines)
  BY Shape DEF AgentType
<1>2. CASE Read
  <2>1. /\ agent.out # <<>> /\ ~client.closed /\ agent'.out = Tail(agent.out)
        /\ usage'.due = usage.due /\ usage.heard \subseteq usage'.heard
        /\ Head(agent.out).kind = "usage" => Head(agent.out).n \in usage'.heard
    BY <1>2, Shape DEF Read, AgentType, UsageType
  <2> QED
    BY <1>1, <2>1, ReadWaits DEF UnheardInv
<1>3. CASE Close
  BY <1>3, Shape DEF Close, ClientType, UnheardInv
<1>4. CASE AgentStep
  <2>1. AgentMoves /\ UNCHANGED <<client, usage>>
    BY <1>4, AgentEffect DEF AgentStep
  <2>2. \A n : WaitsIn(agent.out, n) => WaitsIn(agent'.out, n)
    <3>1. CASE agent'.out = agent.out
      BY <3>1
    <3>2. ASSUME NEW line, agent'.out = Append(agent.out, line)
          PROVE  \A n : WaitsIn(agent.out, n) => WaitsIn(agent'.out, n)
      BY <1>1, <3>2, AppendWaits
    <3> QED
      BY <2>1, <3>1, <3>2 DEF AgentMoves
  <2> QED
    BY <2>1, <2>2 DEF UnheardInv
<1>5. CASE AgentReports
  <2> DEFINE n == agent.extra + 1
             line == [kind |-> "usage", n |-> n]
  <2>1. UNCHANGED client /\ agent'.out = Append(agent.out, line)
    BY <1>5, ReportsEffect DEF AgentReports
  <2>2. line.kind = "usage" /\ line.n = n
    OBVIOUS
  <2>3. \/ usage' = usage
        \/ "prompt" \notin agent.answered /\ usage' = [usage EXCEPT !.due = @ \cup {n}]
    BY <1>5 DEF AgentReports
  <2> HIDE DEF n, line
  <2>4. "prompt" \notin agent.answered => \A j \in DOMAIN agent.out : ~Answer(agent.out[j])
    BY DEF SlotInv, Answer
  <2>5. CASE usage' = usage
    BY <1>1, <2>1, <2>5, AppendWaits DEF UnheardInv
  <2>6. CASE "prompt" \notin agent.answered /\ usage' = [usage EXCEPT !.due = @ \cup {n}]
    <3>1. usage'.due = usage.due \cup {n} /\ usage'.heard = usage.heard
      BY <2>6, Shape DEF UsageType
    <3>2. WaitsIn(agent'.out, n)
      BY <1>1, <2>1, <2>2, <2>4, <2>6, AppendWaits
    <3>3. \A m : WaitsIn(agent.out, m) => WaitsIn(agent'.out, m)
      BY <1>1, <2>1, AppendWaits
    <3> QED
      BY <2>1, <3>1, <3>2, <3>3 DEF UnheardInv
  <2> QED
    BY <2>3, <2>5, <2>6
<1>6. CASE Quiet
  BY <1>6 DEF Quiet, UnheardInv
<1> QED
  BY <1>2, <1>3, <1>4, <1>5, <1>6, QuietSteps

\* The other steps say nothing of consumption, complete no call and fill no slot.
LEMMA UsageElse ==
  ASSUME Typed, SlotInv, AskedInv, [RouteNext]_vars, ~Read, ~Get, ~ReportUsage, ~AgentReports
  PROVE  /\ UNCHANGED usage
         /\ \/ worker'.outcome # "completed"
            \/ worker'.outcome = worker.outcome
               /\ (worker'.at \in {"close", "unregister", "done"} =>
                     worker.at \in {"close", "unregister", "done"})
         /\ \/ client'.slot \notin {"ok", "error"}
            \/ client'.slot = client.slot /\ worker'.req = worker.req
<1> USE Shape
<1>1. CASE Construct
  <2>1. worker' \in WorkerType /\ worker'.req = worker.req /\ worker'.outcome # "completed"
    BY <1>1 DEF Construct, Goto, WorkerType, Outcomes, AskedInv, Over
  <2> QED
    BY <1>1, <2>1 DEF Construct
<1>2. CASE Register
  BY <1>2, GotoEffect DEF Register, Worker
<1>3. CASE CheckPending
  BY <1>3, CheckEffect DEF CheckPending, Worker
<1>4. CASE Send
  <2>1. client.slot = "none" \/ worker.at # "send"
    BY DEF SlotInv, Waiting, ClientType
  <2> QED
    BY <1>4, <2>1, SendEffect DEF Send, Worker, Slot, Fails
<1>5. CASE Poll
  BY <1>5, PollEffect DEF Poll, Worker, Slot, Fails
<1>6. CASE Gate
  BY <1>6, GotoEffect, LeaveEffect DEF Gate, Worker, Outcomes
<1>7. CASE Accepted
  BY <1>7, AcceptedEffect DEF Accepted, Worker
<1>8. CASE Notify
  BY <1>8, NotifyEffect DEF Notify, Worker, Slot
<1>9. CASE Close
  <2>1. client'.slot = client.slot
    BY <1>9 DEF Close, ClientType
  <2> QED
    BY <1>9, <2>1, GotoEffect DEF Close, Worker
<1>10. CASE Unregister
  BY <1>10, GotoEffect DEF Unregister, Worker
<1>11. CASE UNCHANGED <<worker, usage>> /\ (client' = Unlocked \/ UNCHANGED client)
  BY <1>11, UnlockedEffect DEF Slot
<1>12. CASE CancelFlags
  BY <1>12 DEF CancelFlags, ClientType
<1>13. CASE CancelNotifies \/ HandlerReplies
  BY <1>13, WriteBlocksEffect, UnlockedEffect
     DEF CancelNotifies, HandlerReplies, Slot, Threads
<1> QED
  BY <1>1, <1>2, <1>3, <1>4, <1>5, <1>6, <1>7, <1>8, <1>9, <1>10, <1>11, <1>12, <1>13
     DEF RouteNext, vars, WorkerStep, ReaderStops, HandlerStep, HandleRequest,
         StartTerminal, RegisterTerminal, CancelStep, CancelEarly, CancelFinds,
         CancelKills, AgentStep, Tick

\* What is due is heard before the answer is taken, and told before the client
\* is closed.
LEMMA UsageStep ==
  ASSUME Typed, SlotInv, AskedInv, OwnReply, UnheardInv, UsageInv, [RouteNext]_vars
  PROVE  UsageInv'
<1> USE Shape DEF UsageInv
<1>1. CASE Read
  <2>1. /\ UNCHANGED worker /\ usage'.due = usage.due /\ usage.heard \subseteq usage'.heard
        /\ usage'.copied = usage.copied /\ usage'.told = usage.told
    BY <1>1 DEF Read, UsageType
  <2>2. client'.slot \in {"ok", "error"} =>
          client'.slot = client.slot \/
          (Head(agent.out).kind = "reply" /\ Head(agent.out).req = worker.req)
    BY <1>1 DEF Read, Deliver, ClientType
  <2>3. Answer(Head(agent.out)) => usage.due \subseteq usage.heard
    <3>1. agent.out \in Seq(Lines) /\ agent.out # <<>> /\ ~client.closed
      BY <1>1 DEF Read, AgentType
    <3> QED
      BY <3>1, ReadWaits DEF UnheardInv
  <2> QED
    BY <2>1, <2>2, <2>3 DEF Answer
<1>2. CASE Get
  <2>1. UNCHANGED agent /\ worker.outcome = "none" /\ worker.at = "get"
    BY <1>2 DEF Get, AskedInv, Over
  <2>2. /\ usage'.due = usage.due /\ usage'.heard = usage.heard
        /\ client.slot = "ok" /\ worker.req = "prompt" => usage'.copied = usage.heard
    BY <1>2 DEF Get, UsageType
  <2> QED
    BY <1>2, <2>1, <2>2, GetEffect DEF Slot, Worker, Fails
<1>3. CASE ReportUsage
  <2>1. /\ usage'.due = usage.due /\ usage'.heard = usage.heard
        /\ usage'.copied = usage.copied /\ UNCHANGED client
    BY <1>3 DEF ReportUsage, UsageType
  <2>2. worker.outcome = "completed" =>
          usage'.told = usage.heard \/ usage'.told = usage.copied
    BY <1>3 DEF ReportUsage, UsageType
  <2>3. worker'.outcome = worker.outcome /\ worker'.req = worker.req
    BY <1>3, GotoEffect DEF ReportUsage, Worker
  <2> QED
    BY <2>1, <2>2, <2>3
<1>4. CASE AgentReports
  <2>1. UNCHANGED <<worker, client>>
    BY <1>4 DEF AgentReports
  <2>2. /\ usage'.heard = usage.heard /\ usage'.copied = usage.copied
        /\ usage'.told = usage.told
        /\ "prompt" \in agent.answered => usage'.due = usage.due
    BY <1>4 DEF AgentReports, UsageType
  <2> QED
    BY <2>1, <2>2 DEF SlotInv, OwnReply
<1>5. CASE UNCHANGED usage /\ worker'.outcome # "completed"
           /\ (client'.slot \notin {"ok", "error"} \/
               (client'.slot = client.slot /\ worker'.req = worker.req))
  BY <1>5
<1>6. CASE UNCHANGED usage /\ worker'.outcome = worker.outcome
           /\ (worker'.at \in {"close", "unregister", "done"} =>
                 worker.at \in {"close", "unregister", "done"})
           /\ (client'.slot \notin {"ok", "error"} \/
               (client'.slot = client.slot /\ worker'.req = worker.req))
  BY <1>6
<1>7. ASSUME ~Read, ~Get, ~ReportUsage, ~AgentReports
      PROVE  /\ UNCHANGED usage
             /\ \/ worker'.outcome # "completed"
                \/ worker'.outcome = worker.outcome
                   /\ (worker'.at \in {"close", "unregister", "done"} =>
                         worker.at \in {"close", "unregister", "done"})
             /\ \/ client'.slot \notin {"ok", "error"}
                \/ client'.slot = client.slot /\ worker'.req = worker.req
  BY <1>7, UsageElse
<1> QED
  BY <1>1, <1>2, <1>3, <1>4, <1>5, <1>6, <1>7

\* The worker's steps keep the types of what they touch.
LEMMA WorkerTypes ==
  ASSUME Typed, WorkerStep
  PROVE  worker' \in WorkerType /\ client' \in ClientType /\ agent' \in AgentType
<1> USE Shape
<1>1. agent \in AgentType /\ Killed \in AgentType /\ [Killed EXCEPT !.out = <<>>] \in AgentType
  BY EmptySeq DEF Killed, AgentType
<1>2. CASE Construct
  BY <1>2 DEF Construct, Goto, WorkerType, AgentType, Outcomes
<1>3. CASE Register
  BY <1>3, GotoEffect DEF Register, Worker
<1>4. CASE CheckPending
  BY <1>1, <1>4, CheckEffect DEF Worker
<1>5. CASE Send
  <2>1. [agent EXCEPT !.asked = @ \cup {worker.req}] \in AgentType
    BY DEF AgentType, WorkerType
  <2> QED
    BY <1>1, <1>5, <2>1, SendEffect DEF Worker, Slot, Fails
<1>6. CASE Poll
  BY <1>6, PollEffect DEF Poll, Worker, Slot, Fails
<1>7. CASE Get
  BY <1>7, GetEffect DEF Get, Worker, Slot, Fails
<1>8. CASE Gate
  BY <1>8, GotoEffect, LeaveEffect DEF Gate, Worker, Outcomes
<1>9. CASE Accepted
  BY <1>9, AcceptedEffect DEF Accepted, Worker
<1>10. CASE Notify
  BY <1>1, <1>10, NotifyEffect DEF Notify, Worker, Slot
<1>11. CASE ReportUsage
  BY <1>11, GotoEffect DEF ReportUsage, Worker
<1>12. CASE Close
  BY <1>1, <1>12, GotoEffect DEF Close, Worker, ClientType
<1>13. CASE Unregister
  BY <1>13, GotoEffect DEF Unregister, Worker
<1> QED
  BY <1>2, <1>3, <1>4, <1>5, <1>6, <1>7, <1>8, <1>9, <1>10, <1>11, <1>12, <1>13
     DEF WorkerStep

\* So do the other threads and the program.
LEMMA OtherTypes ==
  ASSUME Typed, Read \/ ReaderStops \/ HandlerStep \/ CancelStep \/ AgentStep \/ AgentReports \/ Tick
  PROVE  worker' \in WorkerType /\ client' \in ClientType /\ agent' \in AgentType
<1> USE Shape
<1>1. CASE Read
  <2>1. agent.out # <<>> /\ agent.out \in Seq(Lines)
    BY <1>1 DEF Read, AgentType
  <2>2. Tail(agent.out) \in Seq(Lines)
    BY <2>1, HeadTailProperties
  <2>3. agent' \in AgentType /\ worker' \in WorkerType
    BY <1>1, <2>2 DEF Read, AgentType
  <2>4. client' \in ClientType
    BY <1>1 DEF Read, Deliver, ClientType
  <2> QED
    BY <2>3, <2>4
<1>2. CASE ReaderStops
  BY <1>2 DEF ReaderStops
<1>3. CASE HandlerStep
  BY <1>3 DEF HandlerStep, HandleRequest, StartTerminal, RegisterTerminal,
              HandlerReplies, WriteBlocks, Unlocked, ClientType, Threads
<1>4. CASE CancelStep
  <2>1. Killed \in AgentType
    BY DEF Killed, AgentType
  <2> QED
    BY <1>4, <2>1 DEF CancelStep, CancelEarly, CancelFinds, CancelFlags, CancelNotifies,
              CancelKills, WriteBlocks, Unlocked, ClientType, Threads
<1>5. CASE AgentStep \/ AgentReports
  BY <1>5, AgentEffect DEF AgentStep, AgentReports, AgentMoves
<1>6. CASE Tick
  BY <1>6 DEF Tick
<1> QED
  BY <1>1, <1>2, <1>3, <1>4, <1>5, <1>6

\* What the handlers, the registry and the canceller hold keeps its type.
LEMMA HandlerTyped ==
  ASSUME Typed, [RouteNext]_vars
  PROVE  handler' \in HandlerType
<1>1. handler \in HandlerType
  BY Shape
<1>2. CASE Read
  <2>1. agent.out # <<>> /\ agent.out \in Seq(Lines)
    BY <1>2, Shape DEF Read, AgentType
  <2>2. Head(agent.out) \in Lines
    BY <2>1, HeadTailProperties
  <2>3. Head(agent.out).kind = "ask" => Head(agent.out).op \in ClientOps
    BY <2>2 DEF Lines
  <2> QED
    BY <1>1, <1>2, <2>3 DEF Read, HandlerType
<1>3. CASE HandleRequest \/ RegisterTerminal \/ StartTerminal
  BY <1>1, <1>3 DEF HandleRequest, RegisterTerminal, StartTerminal, HandlerType
<1>4. CASE HandlerReplies
  BY <1>1, <1>4 DEF HandlerReplies, HandlerType
<1>5. CASE UNCHANGED handler
  BY <1>1, <1>5
<1> QED
  BY <1>2, <1>3, <1>4, <1>5
     DEF RouteNext, vars, WorkerStep, Construct, Register, CheckPending, Send,
         Poll, Get, Gate, Accepted, Notify, ReportUsage, Close, Unregister,
         ReaderStops, HandlerStep, CancelStep, CancelEarly, CancelFinds,
         CancelFlags, CancelNotifies, CancelKills, AgentStep, AgentReports, Tick

LEMMA RegistryTyped ==
  ASSUME Typed, [RouteNext]_vars
  PROVE  registry' \in RegistryType /\ doomed' \in BOOLEAN
         /\ canceller' \in {"idle", "found", "notify", "kill", "done"}
<1>1. registry \in RegistryType /\ doomed \in BOOLEAN
      /\ canceller \in {"idle", "found", "notify", "kill", "done"}
  BY Shape DEF Typed, RouteTypeOK
<1>2. CASE Register
  BY <1>1, <1>2 DEF Register, RegistryType
<1>3. CASE Gate \/ Unregister
  BY <1>1, <1>3 DEF Gate, Unregister, RegistryType
<1>4. CASE CancelStep
  <2>1. (doomed \/ BeforeGatePassed) \in BOOLEAN
    OBVIOUS
  <2> QED
    BY <1>1, <1>4, <2>1 DEF CancelStep, CancelEarly, CancelFinds, CancelFlags,
              CancelNotifies, CancelKills, RegistryType
<1>5. CASE UNCHANGED <<registry, doomed, canceller>>
  BY <1>1, <1>5
<1> QED
  BY <1>2, <1>3, <1>4, <1>5
     DEF RouteNext, vars, WorkerStep, Construct, CheckPending, Send, Poll, Get,
         Accepted, Notify, ReportUsage, Close, Read, ReaderStops, HandlerStep,
         HandleRequest, StartTerminal, RegisterTerminal, HandlerReplies,
         AgentStep, AgentReports, Tick

LEMMA ClockTyped ==
  ASSUME Typed, [RouteNext]_vars
  PROVE  clock' \in [total : 0 .. MaxDuration, quiet : 0 .. IdleLimit,
                     request : 0 .. RequestLimit]
<1>1. clock \in [total : 0 .. MaxDuration, quiet : 0 .. IdleLimit,
                 request : 0 .. RequestLimit]
      /\ {MaxDuration, IdleLimit, RequestLimit} \subseteq Nat \ {0}
  BY RouteAssumption DEF Typed, RouteTypeOK
<1>2. MaxDuration \in Nat /\ IdleLimit \in Nat /\ RequestLimit \in Nat
  BY <1>1
<1>3. 0 \in 0 .. IdleLimit /\ 0 \in 0 .. RequestLimit
  BY <1>2
<1>4. \A l \in Nat : \A n \in 0 .. l : Up(n, l) \in 0 .. l
  BY DEF Up
<1>5. CASE Tick
  BY <1>1, <1>2, <1>3, <1>4, <1>5 DEF Tick
<1>6. CASE clock' = Active \/ clock' = [clock EXCEPT !.request = 0] \/ clock' = clock
  BY <1>1, <1>3, <1>6 DEF Active
<1> QED
  BY <1>5, <1>6
     DEF RouteNext, vars, WorkerStep, Construct, Register, CheckPending, Send,
         Poll, Get, Gate, Accepted, Notify, ReportUsage, Close, Unregister, Read,
         ReaderStops, HandlerStep, HandleRequest, StartTerminal, RegisterTerminal,
         HandlerReplies, CancelStep, CancelEarly, CancelFinds, CancelFlags,
         CancelNotifies, CancelKills, AgentStep, AgentReports

LEMMA UsageTyped ==
  ASSUME Typed, [RouteNext]_vars
  PROVE  usage' \in UsageType
<1>1. usage \in UsageType
  BY Shape
<1>2. {} \in Updates
  BY DEF Updates
<1>3. CASE Read
  <2>1. agent.out # <<>> /\ agent.out \in Seq(Lines)
    BY <1>3, Shape DEF Read, AgentType
  <2>2. Head(agent.out) \in Lines
    BY <2>1, HeadTailProperties
  <2>3. Head(agent.out).kind = "usage" => usage.heard \cup {Head(agent.out).n} \in Updates
    BY <1>1, <2>2 DEF Lines, UsageType, Updates
  <2> QED
    BY <1>1, <1>3, <2>3 DEF Read, UsageType
<1>4. CASE Get
  BY <1>1, <1>4 DEF Get, UsageType
<1>5. CASE ReportUsage
  BY <1>1, <1>2, <1>5 DEF ReportUsage, UsageType
<1>6. CASE AgentReports
  <2> DEFINE n == agent.extra + 1
  <2>1. n \in 1 .. MaxExtra
    BY <1>6, ReportsEffect
  <2>2. usage' = usage \/ usage' = [usage EXCEPT !.due = @ \cup {n}]
    BY <1>6 DEF AgentReports
  <2> HIDE DEF n
  <2>3. usage.due \cup {n} \in Updates
    BY <1>1, <2>1 DEF UsageType, Updates
  <2> QED
    BY <1>1, <2>2, <2>3 DEF UsageType
<1>7. CASE UNCHANGED usage
  BY <1>1, <1>7
<1> QED
  BY <1>3, <1>4, <1>5, <1>6, <1>7
     DEF RouteNext, vars, WorkerStep, Construct, Register, CheckPending, Send,
         Poll, Gate, Accepted, Notify, Close, Unregister, ReaderStops,
         HandlerStep, HandleRequest, StartTerminal, RegisterTerminal,
         HandlerReplies, CancelStep, CancelEarly, CancelFinds, CancelFlags,
         CancelNotifies, CancelKills, AgentStep, Tick

\* What is left are variables of a few values each.
LEMMA RestTyped ==
  ASSUME Typed, [RouteNext]_vars
  PROVE  /\ job' \in Jobs
         /\ reader' \in {"idle", "reading", "stopped"}
         /\ terminal' \in {"none", "started", "registered", "orphan", "dead"}
         /\ snapshot' \in BOOLEAN
<1>1. /\ job \in Jobs
      /\ reader \in {"idle", "reading", "stopped"}
      /\ terminal \in {"none", "started", "registered", "orphan", "dead"}
      /\ snapshot \in BOOLEAN
  BY DEF Typed, RouteTypeOK
<1> QED
  BY <1>1
     DEF RouteNext, vars, WorkerStep, Construct, Register, CheckPending, Send,
         Poll, Get, Gate, Accepted, Notify, ReportUsage, Close, Unregister, Read,
         ReaderStops, HandlerStep, HandleRequest, StartTerminal, RegisterTerminal,
         HandlerReplies, CancelStep, CancelEarly, CancelFinds, CancelFlags,
         CancelNotifies, CancelKills, AgentStep, AgentReports, Tick, Removed

\* Every variable keeps its type.
LEMMA TypeStep ==
  ASSUME Typed, [RouteNext]_vars
  PROVE  Typed'
<1>1. worker' \in WorkerType /\ client' \in ClientType /\ agent' \in AgentType
  <2>1. CASE UNCHANGED vars
    BY <2>1, Shape DEF vars
  <2> QED
    BY <2>1, WorkerTypes, OtherTypes DEF RouteNext
<1>2. /\ agent'.alive \in BOOLEAN /\ agent'.stdin \in {"open", "full", "closed"}
      /\ agent'.out \in Seq(Lines) /\ agent'.asked \subseteq Requests
      /\ agent'.answered \subseteq Requests /\ agent'.extra \in 0 .. MaxExtra
  BY <1>1 DEF AgentType
<1>3. handler'.at \in {"idle", "asked", "started", "reply"}
  BY HandlerTyped DEF HandlerType
<1> QED
  BY <1>1, <1>2, <1>3, HandlerTyped, RegistryTyped, ClockTyped, UsageTyped, RestTyped
     DEF Typed, RouteTypeOK, WorkerType, ClientType, RegistryType, UsageType

LEMMA InitRoute == RouteInit => RouteInv
<1> SUFFICES ASSUME RouteInit PROVE RouteInv
  OBVIOUS
<1> USE DEF RouteInit
<1>1. worker \in WorkerType /\ client \in ClientType /\ registry \in RegistryType
  BY DEF WorkerType, ClientType, RegistryType, Requests, Outcomes
<1>2. agent \in AgentType
  BY EmptySeq, RouteAssumption DEF AgentType
<1>3. handler \in HandlerType
  BY DEF HandlerType
<1>4. clock \in [total : 0 .. MaxDuration, quiet : 0 .. IdleLimit,
                 request : 0 .. RequestLimit]
  <2>1. MaxDuration \in Nat /\ IdleLimit \in Nat /\ RequestLimit \in Nat
    BY RouteAssumption
  <2> QED
    BY <2>1
<1>5. Typed
  <2>1. usage \in UsageType
    BY DEF UsageType, Updates
  <2> QED
    BY <1>1, <1>2, <1>3, <1>4, <2>1
       DEF Typed, RouteTypeOK, WorkerType, ClientType, RegistryType, AgentType, UsageType
<1>6. SlotInv /\ AskedInv /\ CancelInv
  BY DEF SlotInv, AskedInv, CancelInv, Over
<1>7. DoomInv /\ CleanInv /\ OwnReply
  BY DEF DoomInv, CleanInv, Untouched, OwnReply
<1>8. UnheardInv /\ UsageInv
  BY DEF UnheardInv, UsageInv
<1> QED
  BY <1>5, <1>6, <1>7, <1>8 DEF RouteInv

LEMMA RouteStep == RouteInv /\ [RouteNext]_vars => RouteInv'
  BY TypeStep, SlotStepInv, AskedStepInv, CancelStepInv, DoomStepInv, CleanStepInv,
     OwnReplyStep, UnheardStep, UsageStep DEF RouteInv

-----------------------------------------------------------------------------
(***************************************************************************)
(* The call implements its contract                                        *)
(***************************************************************************)

\* The contract's phase, and whether somebody asked.
Phase == IF worker.outcome # "none" THEN "ended"
         ELSE IF "prompt" \in agent.asked THEN "prompted" ELSE "preparing"
Asked == canceller # "idle"

\* A step the contract does not see.
Unseen == /\ Phase' = Phase /\ Asked' = Asked
          /\ doomed' = doomed /\ worker'.outcome = worker.outcome

\* A step that ends the call.
Ends(how) == /\ Phase # "ended" /\ how # "none" /\ worker'.outcome = how
             /\ Asked' = Asked /\ doomed' = doomed

\* Which steps of the contract they are.
LEMMA UnseenStutters == Unseen => UNCHANGED Contract!cvars
  BY DEF Unseen, Phase, Asked, Contract!cvars

LEMMA EndsIsEnd ==
  ASSUME NEW how, Ends(how),
         \/ how \in {"protocol", "timeout", "unavailable"}
         \/ how = "cancelled" /\ Asked
         \/ how = "refused" /\ Phase = "preparing"
         \/ how = "completed" /\ Phase = "prompted" /\ ~doomed
  PROVE  Contract!CNext
<1>1. Contract!End(how)
  BY DEF Ends, Phase, Asked, Contract!End
<1> QED
  BY <1>1 DEF Contract!CNext, Contract!Fails, Contract!Cancelled,
              Contract!Refused, Contract!Complete, Phase, Asked

\* Leaving the call ends it; going on is not seen.
LEMMA WorkerEnds ==
  ASSUME RouteInv, ~Over, NEW how, how # "none",
         Worker("report", worker.req, how), UNCHANGED <<canceller, doomed>>
  PROVE  Ends(how)
  BY DEF Ends, Phase, Asked, Worker, RouteInv, AskedInv

LEMMA WorkerUnseen ==
  ASSUME worker'.outcome = worker.outcome, agent'.asked = agent.asked,
         UNCHANGED <<canceller, doomed>>
  PROVE  Unseen
  BY DEF Unseen, Phase, Asked

Good == Contract!CNext \/ UNCHANGED Contract!cvars

LEMMA FailsGood ==
  ASSUME RouteInv, ~Over, Fails, agent'.asked = agent.asked, UNCHANGED <<canceller, doomed>>
  PROVE  Good
<1>1. CASE Worker("report", worker.req, "protocol")
  BY <1>1, WorkerEnds, EndsIsEnd DEF Good
<1>2. CASE Worker("gate", "prompt", worker.outcome)
  BY <1>2, WorkerUnseen, UnseenStutters DEF Good, Worker
<1> QED
  BY <1>1, <1>2 DEF Fails

LEMMA KilledAsked == ASSUME Typed, agent' = Killed PROVE agent'.asked = agent.asked
  BY Shape DEF Killed, AgentType

LEMMA WorkerImplements ==
  ASSUME RouteInv, WorkerStep
  PROVE  Good
<1> USE DEF Good
<1>0. Typed /\ AskedInv /\ CancelInv /\ SlotInv /\ DoomInv
  BY DEF RouteInv
<1>1. CASE Construct
  <2>1. worker.at = "new" /\ UNCHANGED <<canceller, doomed>> /\ ~Over
    BY <1>1 DEF Construct, Over
  <2>2. CASE Goto("register") /\ agent' = [agent EXCEPT !.alive = TRUE]
    <3>1. agent'.asked = agent.asked
      BY <1>0, <2>2, Shape DEF AgentType
    <3> QED
      BY <1>0, <2>1, <2>2, <3>1, GotoEffect, WorkerUnseen, UnseenStutters DEF Worker
  <2>3. CASE worker' = [worker EXCEPT !.at = "done", !.outcome = "unavailable"]
             /\ UNCHANGED agent
    <3>1. worker'.outcome = "unavailable"
      BY <1>0, <2>3, Shape DEF WorkerType
    <3>2. Ends("unavailable")
      BY <1>0, <2>1, <3>1 DEF Ends, Phase, Asked, AskedInv
    <3> QED
      BY <3>2, EndsIsEnd
  <2> QED
    BY <1>1, <2>2, <2>3 DEF Construct
<1>2. CASE Register
  <2>1. /\ worker'.outcome = worker.outcome /\ UNCHANGED <<agent, canceller>>
        /\ doomed' = registry.pending /\ worker.at = "register"
    BY <1>0, <1>2, GotoEffect DEF Register, Worker
  <2>2. Phase = "preparing" /\ Phase' = "preparing" /\ ~doomed
    BY <1>0, <2>1 DEF Phase, AskedInv, Over, Waiting, DoomInv
  <2>3. CASE registry.pending
    <3>1. canceller # "idle" /\ doomed' = TRUE
      BY <1>0, <2>1, <2>3 DEF CancelInv
    <3>2. Contract!Learn
      BY <2>1, <2>2, <3>1 DEF Contract!Learn, Phase
    <3> QED
      BY <3>2 DEF Contract!CNext
  <2>4. CASE ~registry.pending
    <3>1. doomed \in BOOLEAN /\ registry.pending \in BOOLEAN
      BY <1>0, Shape DEF Typed, RouteTypeOK, RegistryType
    <3> QED
      BY <2>1, <2>2, <2>4, <3>1, WorkerUnseen, UnseenStutters
  <2> QED
    BY <2>3, <2>4
<1>3. CASE CheckPending
  <2>1. UNCHANGED <<canceller, doomed>> /\ ~Over
    BY <1>3 DEF CheckPending, Over
  <2>2. agent'.asked = agent.asked
    BY <1>0, <1>3, CheckEffect, KilledAsked
  <2>3. CASE registry.flag /\ Worker("report", worker.req, "cancelled")
    BY <1>0, <2>1, <2>3, WorkerEnds, EndsIsEnd DEF CancelInv, Asked
  <2>4. CASE Worker("send", worker.req, worker.outcome)
    BY <2>1, <2>2, <2>4, WorkerUnseen, UnseenStutters DEF Worker
  <2> QED
    BY <1>0, <1>3, <2>3, <2>4, CheckEffect
<1>4. CASE Send
  <2>1. UNCHANGED <<canceller, doomed>> /\ ~Over /\ ~Waiting /\ worker.outcome = "none"
    BY <1>0, <1>4 DEF Send, Over, Waiting, AskedInv
  <2>2. Phase = "preparing"
    BY <1>0, <2>1 DEF Phase, AskedInv
  <2>3. CASE Fails /\ UNCHANGED agent
    BY <2>1, <2>3, FailsGood
  <2>4. CASE UNCHANGED <<worker, agent>>
    BY <2>1, <2>4, WorkerUnseen, UnseenStutters
  <2>5. CASE /\ Worker("poll", worker.req, worker.outcome)
             /\ agent' = [agent EXCEPT !.asked = @ \cup {worker.req}]
    <3>1. agent'.asked = agent.asked \cup {worker.req} /\ worker'.outcome = worker.outcome
      BY <1>0, <2>5, Shape DEF AgentType, Worker
    <3>2. CASE worker.req = "prompt"
      <4>1. Phase' = "prompted"
        BY <2>1, <3>1, <3>2 DEF Phase
      <4>2. Contract!Prompt
        BY <2>1, <2>2, <3>1, <4>1 DEF Contract!Prompt, Phase
      <4> QED
        BY <4>2 DEF Contract!CNext
    <3>3. CASE worker.req # "prompt"
      <4>1. Unseen
        BY <2>1, <3>1, <3>3 DEF Unseen, Phase, Asked
      <4> QED
        BY <4>1, UnseenStutters
    <3> QED
      BY <3>2, <3>3
  <2> QED
    BY <1>0, <1>4, <2>3, <2>4, <2>5, SendEffect
<1>5. CASE Poll
  <2>1. UNCHANGED <<canceller, doomed, agent>> /\ ~Over /\ worker.at = "poll"
    BY <1>5 DEF Poll, Over
  <2>2. CASE Fails
    BY <2>1, <2>2, FailsGood
  <2>3. CASE client.cancelled /\ Worker("report", worker.req, "cancelled")
    BY <1>0, <2>1, <2>3, WorkerEnds, EndsIsEnd DEF CancelInv, Asked
  <2>4. CASE Worker("report", worker.req, "timeout")
    BY <2>1, <2>4, WorkerEnds, EndsIsEnd
  <2>5. CASE worker'.outcome = worker.outcome
    BY <2>1, <2>5, WorkerUnseen, UnseenStutters
  <2> QED
    BY <1>0, <1>5, <2>2, <2>3, <2>4, <2>5, PollEffect DEF Worker
<1>6. CASE Get
  <2>1. UNCHANGED <<canceller, doomed, agent>> /\ ~Over /\ worker.at = "get"
    BY <1>6 DEF Get, Over
  <2>2. CASE Fails
    BY <2>1, <2>2, FailsGood
  <2>3. CASE Worker("report", worker.req, "protocol")
    BY <2>1, <2>3, WorkerEnds, EndsIsEnd
  <2>4. CASE worker'.outcome = worker.outcome
    BY <2>1, <2>4, WorkerUnseen, UnseenStutters
  <2>5. CASE worker.req = "prompt" /\ client.slot = "ok"
             /\ Worker("report", worker.req, "completed")
    <3>1. "prompt" \in agent.asked /\ worker.outcome = "none" /\ ~doomed
      BY <1>0, <2>1, <2>5 DEF SlotInv, AskedInv, DoomInv
    <3>2. Phase = "prompted"
      BY <3>1 DEF Phase
    <3> QED
      BY <2>1, <2>5, <3>1, <3>2, WorkerEnds, EndsIsEnd
  <2> QED
    BY <1>0, <1>6, <2>2, <2>3, <2>4, <2>5, GetEffect DEF Worker
<1>7. CASE Gate
  <2>1. UNCHANGED <<canceller, doomed, agent>> /\ ~Over /\ ~Waiting /\ worker.outcome = "none"
    BY <1>0, <1>7 DEF Gate, Over, Waiting, AskedInv
  <2>2. Phase = "preparing"
    BY <1>0, <2>1 DEF Phase, AskedInv
  <2>3. CASE Leave("refused")
    <3>1. Worker("report", worker.req, "refused")
      BY <1>0, <2>3, LeaveEffect DEF Outcomes
    <3> QED
      BY <2>1, <2>2, <3>1, WorkerEnds, EndsIsEnd
  <2>4. CASE Goto("accepted")
    BY <1>0, <2>1, <2>4, GotoEffect, WorkerUnseen, UnseenStutters DEF Worker
  <2> QED
    BY <1>7, <2>3, <2>4 DEF Gate
<1>8. CASE Accepted
  BY <1>0, <1>8, AcceptedEffect, WorkerUnseen, UnseenStutters DEF Accepted, Worker
<1>9. CASE Notify
  <2>1. UNCHANGED <<canceller, doomed>> /\ ~Over
    BY <1>9 DEF Notify, Over
  <2>2. agent'.asked = agent.asked
    BY <1>0, <1>9, NotifyEffect, KilledAsked
  <2>3. CASE Worker("report", worker.req, "protocol") \/ Worker("report", worker.req, "timeout")
    BY <2>1, <2>3, WorkerEnds, EndsIsEnd
  <2>4. CASE worker'.outcome = worker.outcome
    BY <2>1, <2>2, <2>4, WorkerUnseen, UnseenStutters
  <2> QED
    BY <1>0, <1>9, <2>3, <2>4, NotifyEffect DEF Worker
<1>10. CASE ReportUsage
  BY <1>0, <1>10, GotoEffect, WorkerUnseen, UnseenStutters DEF ReportUsage, Worker
<1>11. CASE Close
  <2>1. agent'.asked = agent.asked
    BY <1>0, <1>11, Shape DEF Close, Killed, AgentType
  <2> QED
    BY <1>0, <1>11, <2>1, GotoEffect, WorkerUnseen, UnseenStutters DEF Close, Worker
<1>12. CASE Unregister
  BY <1>0, <1>12, GotoEffect, WorkerUnseen, UnseenStutters DEF Unregister, Worker
<1> QED
  BY <1>1, <1>2, <1>3, <1>4, <1>5, <1>6, <1>7, <1>8, <1>9, <1>10, <1>11, <1>12
     DEF WorkerStep

\* Of the other threads only the canceller is seen, when it comes in.
LEMMA OthersImplement ==
  ASSUME RouteInv,
         Read \/ ReaderStops \/ HandlerStep \/ CancelStep \/ AgentStep \/ AgentReports \/ Tick
  PROVE  Good
<1> USE DEF Good
<1>0. Typed /\ AskedInv
  BY DEF RouteInv
<1>1. CASE Read
  <2>1. agent'.asked = agent.asked
    BY <1>0, <1>1, Shape DEF Read, AgentType
  <2> QED
    BY <1>1, <2>1, WorkerUnseen, UnseenStutters DEF Read
<1>2. CASE ReaderStops \/ HandlerStep \/ Tick
  BY <1>2, WorkerUnseen, UnseenStutters
     DEF ReaderStops, HandlerStep, HandleRequest, StartTerminal, RegisterTerminal,
         HandlerReplies, Tick
<1>3. CASE AgentStep \/ AgentReports
  <2>1. agent'.asked = agent.asked
    BY <1>0, <1>3, AgentEffect DEF AgentMoves
  <2> QED
    BY <1>3, <2>1, WorkerUnseen, UnseenStutters DEF AgentStep, AgentReports
<1>4. CASE CancelEarly \/ CancelFinds
  <2>1. /\ canceller = "idle" /\ canceller' # "idle" /\ UNCHANGED <<worker, agent>>
        /\ doomed' = doomed \/ doomed' = (doomed \/ BeforeGatePassed)
    BY <1>4 DEF CancelEarly, CancelFinds
  <2>2. BeforeGatePassed => Phase = "preparing"
    BY <1>0 DEF BeforeGatePassed, Phase, AskedInv, Over, Waiting
  <2>3. doomed' \in {doomed, Phase = "preparing"}
    <3>1. doomed \in BOOLEAN
      BY <1>0 DEF Typed, RouteTypeOK
    <3> QED
      BY <2>1, <2>2, <3>1
  <2>4. Contract!Ask
    BY <2>1, <2>3 DEF Contract!Ask, Phase
  <2> QED
    BY <2>4 DEF Contract!CNext
<1>5. CASE CancelFlags \/ CancelNotifies \/ CancelKills
  <2>1. /\ UNCHANGED <<worker, doomed>> /\ canceller # "idle" /\ canceller' # "idle"
        /\ agent' = agent \/ agent' = Killed
    BY <1>5 DEF CancelFlags, CancelNotifies, CancelKills
  <2>2. agent'.asked = agent.asked
    BY <1>0, <2>1, KilledAsked
  <2>3. Unseen
    BY <2>1, <2>2 DEF Unseen, Phase, Asked
  <2> QED
    BY <2>3, UnseenStutters
<1> QED
  BY <1>1, <1>2, <1>3, <1>4, <1>5 DEF CancelStep

-----------------------------------------------------------------------------
(***************************************************************************)
(* The theorems                                                            *)
(***************************************************************************)

\* The inductive invariant holds in every reachable state.
THEOREM RouteInvariant == RouteSpec => []RouteInv
  BY InitRoute, RouteStep, PTL DEF RouteSpec

\* A call is completed only with an answer the program wrote to its prompt.
THEOREM RouteOwnReply == RouteSpec => []OwnReply
<1>1. RouteInv => OwnReply
  BY DEF RouteInv
<1> QED
  BY <1>1, RouteInvariant, PTL

\* A call that has returned leaves nothing running, and after a completed one
\* every update of consumption written before its answer has been told.
THEOREM RouteLeavesNothing == RouteSpec => []RouteStands
<1>1. RouteInv => RouteStands
  BY DEF RouteInv, Typed, CancelInv, CleanInv, UsageInv, RouteStands,
         NothingLeftBehind
<1> QED
  BY <1>1, RouteInvariant, PTL

\* Whatever the program does, the call keeps its contract: it ends once, is
\* never completed without a prompt nor against an early cancellation, never
\* reported cancelled unasked, and a refused dispatch never prompts.
THEOREM RouteImplementsContract == RouteSpec => ImplementsRoute
<1>1. RouteInit => Contract!CInit
  BY DEF RouteInit, Contract!CInit
<1>2. RouteInv /\ [RouteNext]_vars => [Contract!CNext]_(Contract!cvars)
  <2> SUFFICES ASSUME RouteInv, [RouteNext]_vars
               PROVE  Contract!CNext \/ UNCHANGED Contract!cvars
    OBVIOUS
  <2>1. CASE UNCHANGED vars
    BY <2>1 DEF vars, Contract!cvars
  <2> QED
    BY <2>1, WorkerImplements, OthersImplement DEF RouteNext, Good
<1> QED
  BY <1>1, <1>2, RouteInvariant, PTL DEF RouteSpec, ImplementsRoute, Contract!CSpec
=============================================================================
