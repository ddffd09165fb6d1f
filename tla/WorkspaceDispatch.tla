--------------------------- MODULE WorkspaceDispatch ---------------------------
(***************************************************************************)
(* task_dispatch: how a request of the Captain gets its workspace and      *)
(* becomes a task.  A patch runs in a worktree named after the idempotency *)
(* key, a verification in one with a fresh name, research in the directory *)
(* the Captain names or in the one an earlier research left; a read-only   *)
(* task runs in the user's own workspace and is handed the text of the     *)
(* files it may read.  Several threads dispatch at once, a thread may die, *)
(* and the user goes on working.  The launch itself is TaskAdmission's; it *)
(* is one step here.                                                       *)
(***************************************************************************)
EXTENDS Naturals, FiniteSets

CONSTANTS Dispatchers,  \* threads, each with one call of task_dispatch
          Demands,      \* what may be asked for
          Rooms,        \* directories a call may make or use
          RoomOfKey,    \* the patch worktree of each key
          FreshRoom,    \* the worktree with a fresh name of each thread
          NoDemandKey,  \* the empty key
          MaxSaves      \* bound: versions of the user's workspace

Isolated == {"patch", "verification"}
Research == {"research", "research_again"}
Kinds == Isolated \cup Research \cup {"read_only"}

\* extras: the skills, artifacts, instructions and run control asked for; body:
\* all else that a request holds; fits: it passes the model, skill, profile and
\* capability rules; target: the directory of research.
DemandType == [kind : Kinds, key : DOMAIN RoomOfKey \cup {NoDemandKey},
               body : STRING, extras : STRING, fits : BOOLEAN, target : Rooms]

ASSUME DispatchAssumption ==
  /\ Demands \subseteq DemandType
  /\ RoomOfKey \in [DOMAIN RoomOfKey -> Rooms]
  /\ FreshRoom \in [Dispatchers -> Rooms]
  /\ NoDemandKey \notin DOMAIN RoomOfKey
  /\ MaxSaves \in Nat \ {0}

VARIABLES rooms,     \* per directory: "absent", "making" or "ready"
          dispatch,  \* per thread: its call
          job,       \* per thread: the task its call made
          userText   \* the version of what the user's workspace holds

dispatchVars == <<rooms, dispatch, job, userText>>

\* The order in which each kind of call goes about it.
Route(kind) ==
  CASE kind = "read_only"      -> <<"lookup", "service", "verify", "render", "launch">>
    [] kind = "patch"          -> <<"lookup", "service", "check", "make", "launch">>
    [] kind = "verification"   -> <<"lookup", "make", "service", "launch">>
    [] kind = "research"       -> <<"lookup", "check", "make", "clone", "scope",
                                    "service", "launch">>
    [] kind = "research_again" -> <<"lookup", "again", "scope", "service", "launch">>

DispatchPlaces == {"idle", "lookup", "service", "check", "make", "clone", "scope",
                   "again", "verify", "render", "launch", "cleanup", "answered",
                   "dead"}
Fates == {"completed", "failed", "cancelled"}

\* own: the call made the room; left: it could not remove it again, or git was
\* ended in making it; root: the version its contract names; given: the version
\* its prompt holds, 0 if none.
CallType == [at : DispatchPlaces, demand : Demands, room : Rooms,
             own : BOOLEAN, left : BOOLEAN, root : 1 .. MaxSaves,
             given : 0 .. MaxSaves,
             answer : {"none", "rejected", "conflict", "created", "replayed"},
             by : Dispatchers]
\* kept: the room is still there by intent or because it could not be removed.
JobType == [status : {"none", "running", "retired", "unretired", "failing"} \cup Fates,
            demand : Demands, room : Rooms, given : 0 .. MaxSaves, kept : BOOLEAN]

DispatchTypeOK ==
  /\ rooms \in [Rooms -> {"absent", "making", "ready"}]
  /\ dispatch \in [Dispatchers -> CallType]
  /\ job \in [Dispatchers -> JobType]
  /\ userText \in 1 .. MaxSaves

RoomFor(c, d) == CASE d.kind = "patch" /\ d.key # NoDemandKey -> RoomOfKey[d.key]
                   [] d.kind \in Research -> d.target
                   [] OTHER -> FreshRoom[c]

DispatchInit ==
  /\ rooms = [r \in Rooms |-> "absent"]
  /\ userText = 1
  /\ \E wants \in [Dispatchers -> Demands] :
       /\ dispatch = [c \in Dispatchers |->
            [at |-> "idle", demand |-> wants[c], room |-> RoomFor(c, wants[c]),
             own |-> FALSE, left |-> FALSE, root |-> 1, given |-> 0,
             answer |-> "none", by |-> c]]
       /\ job = [c \in Dispatchers |->
            [status |-> "none", demand |-> wants[c],
             room |-> RoomFor(c, wants[c]), given |-> 0, kept |-> FALSE]]

At(c, place) == dispatch[c].at = place
Demand(c) == dispatch[c].demand
Kind(c) == Demand(c).kind
Room(c) == dispatch[c].room
Exists(r) == rooms[r] # "absent"

Onward(c) ==
  LET route == Route(Kind(c))
      here == CHOOSE i \in DOMAIN route : route[i] = dispatch[c].at
  IN route[here + 1]

Move(c, call) == dispatch' = [dispatch EXCEPT ![c] = call]
Go(c) == Move(c, [dispatch[c] EXCEPT !.at = Onward(c)])
Answered(c, answer) ==
  Move(c, [dispatch[c] EXCEPT !.at = "answered", !.answer = answer])

\* A call that has made a directory removes it before it answers.
Leave(c, answer) ==
  Move(c, [dispatch[c] EXCEPT !.at = IF dispatch[c].own THEN "cleanup" ELSE "answered",
                              !.answer = answer])

\* Defect: what the call made stays when the answer is a replay.
Replay_Keeps(c, b) ==
  Move(c, [dispatch[c] EXCEPT !.at = "answered", !.answer = "replayed", !.by = b])

Replay(c, b) ==
  Move(c, [dispatch[c] EXCEPT
    !.at = IF dispatch[c].own /\ Kind(c) \in Isolated THEN "cleanup" ELSE "answered",
    !.answer = "replayed", !.by = b])

\* The thread whose task the call's key is bound to.
Bound(c) == {b \in Dispatchers : /\ Demand(c).key # NoDemandKey
                                 /\ job[b].status # "none"
                                 /\ Demand(b).key = Demand(c).key}

\* The files a read-only call may read are registered as they are now, and its
\* contract names what they held.
Begin(c) ==
  /\ At(c, "idle")
  /\ Move(c, [dispatch[c] EXCEPT !.at = "lookup", !.root = userText])
  /\ UNCHANGED <<rooms, job, userText>>

\* The fingerprint of research leaves the extras out.
SameContract(c, b) ==
  /\ IF Kind(c) \in Research
       THEN [Demand(c) EXCEPT !.extras = Demand(b).extras] = Demand(b)
       ELSE Demand(c) = Demand(b)
  /\ Kind(c) = "read_only" => dispatch[c].root = dispatch[b].root

\* The key is looked up before anything is made.
Lookup(c) ==
  /\ At(c, "lookup")
  /\ \/ Bound(c) = {} /\ Go(c)
     \/ \E b \in Bound(c) : IF SameContract(c, b) THEN Replay(c, b)
                            ELSE Answered(c, "conflict")
  /\ UNCHANGED <<rooms, job, userText>>

\* The rules on crew, model, mode, skills and capabilities.
Service(c) ==
  /\ At(c, "service")
  /\ IF Demand(c).fits THEN Go(c) ELSE Leave(c, "rejected")
  /\ UNCHANGED <<rooms, job, userText>>

\* A patch worktree that is there is used again, if git takes it for one, which
\* it may of one half made; a research target is refused.
CheckRoom(c) ==
  /\ At(c, "check")
  /\ \/ ~Exists(Room(c)) /\ Go(c)
     \/ /\ Exists(Room(c)) /\ Kind(c) = "patch"
        /\ Move(c, [dispatch[c] EXCEPT !.at = "launch"])
     \/ Exists(Room(c)) /\ Answered(c, "rejected")
  /\ UNCHANGED <<rooms, job, userText>>

\* git worktree add was ended half way, or after it: by its limit of 60 seconds or
\* with its caller.
HalfMade(c) ==
  /\ At(c, "make") /\ Kind(c) \in Isolated /\ ~Exists(Room(c))
  /\ \E state \in {"making", "ready"} : rooms' = [rooms EXCEPT ![Room(c)] = state]

\* git refuses to add a worktree that another call has made since, or for a
\* reason of its own; what it leaves when its time is up nobody removes.
MakeWorktree(c) ==
  /\ At(c, "make") /\ Kind(c) \in Isolated
  /\ \/ /\ ~Exists(Room(c))
        /\ rooms' = [rooms EXCEPT ![Room(c)] = "ready"]
        /\ Move(c, [dispatch[c] EXCEPT !.at = Onward(c), !.own = TRUE])
     \/ Answered(c, "rejected") /\ UNCHANGED rooms
     \/ /\ HalfMade(c)
        /\ Move(c, [dispatch[c] EXCEPT !.at = "answered", !.answer = "rejected",
                                       !.left = TRUE])
  /\ UNCHANGED <<job, userText>>

\* A target made since the check is an error like any other: the handler
\* removes the target, whoever made it.
MakeTarget(c) ==
  /\ At(c, "make") /\ Kind(c) = "research"
  /\ IF Exists(Room(c))
       THEN /\ Move(c, [dispatch[c] EXCEPT !.at = "cleanup", !.answer = "rejected"])
            /\ UNCHANGED rooms
       ELSE /\ rooms' = [rooms EXCEPT ![Room(c)] = "making"]
            /\ Move(c, [dispatch[c] EXCEPT !.at = "clone", !.own = TRUE])
  /\ UNCHANGED <<job, userText>>

\* git makes the directories above the clone if they are gone.
Clone(c) ==
  /\ At(c, "clone")
  /\ \/ rooms' = [rooms EXCEPT ![Room(c)] = "ready"] /\ Go(c)
     \/ Leave(c, "rejected") /\ UNCHANGED rooms
  /\ UNCHANGED <<job, userText>>

\* A later research runs in the room of a completed one on the same source.
ReuseRoom(c) ==
  /\ At(c, "again")
  /\ \/ /\ \E b \in Dispatchers : /\ job[b].status = "completed"
                                  /\ job[b].demand.kind \in Research
                                  /\ job[b].room = Room(c)
        /\ rooms[Room(c)] = "ready"
        /\ Go(c)
     \/ Answered(c, "rejected")
  /\ UNCHANGED <<rooms, job, userText>>

\* The manifest of the source and the segment asked for are registered.
Scope(c) ==
  /\ At(c, "scope")
  /\ \/ rooms[Room(c)] = "ready" /\ Go(c)
     \/ Leave(c, "rejected")
  /\ UNCHANGED <<rooms, job, userText>>

VerifyContext(c) ==
  /\ At(c, "verify")
  /\ IF dispatch[c].root = userText THEN Go(c) ELSE Answered(c, "rejected")
  /\ UNCHANGED <<rooms, job, userText>>

\* Defect: the text is read again and handed over as it is.
Render_Unchecked(c) ==
  /\ At(c, "render")
  /\ Move(c, [dispatch[c] EXCEPT !.at = "launch", !.given = userText])
  /\ UNCHANGED <<rooms, job, userText>>

\* The text is read a second time and compared; text too large to hand over is
\* left for the crew to read.
Render(c) ==
  /\ At(c, "render")
  /\ \/ dispatch[c].root = userText
        /\ Move(c, [dispatch[c] EXCEPT !.at = "launch", !.given = userText])
     \/ dispatch[c].root # userText /\ Answered(c, "rejected")
     \/ Go(c)
  /\ UNCHANGED <<rooms, job, userText>>

\* The request's fingerprint holds the directory and, for a read-only call, the
\* fresh id of its context.
SameFingerprint(c, b) ==
  /\ Demand(c) = Demand(b) /\ job[b].room = Room(c)
  /\ Kind(c) # "read_only"

Launch(c) ==
  /\ At(c, "launch")
  /\ \/ /\ Kind(c) = "read_only" \/ Exists(Room(c))
        /\ Bound(c) = {}
        /\ job' = [job EXCEPT ![c] = [@ EXCEPT !.status = "running",
                                               !.given = dispatch[c].given]]
        /\ Move(c, [dispatch[c] EXCEPT !.at = "answered", !.own = FALSE,
                                       !.answer = "created"])
     \/ /\ Kind(c) = "read_only" \/ Exists(Room(c))
        /\ \E b \in Bound(c) : IF SameFingerprint(c, b) THEN Replay(c, b)
                               ELSE Leave(c, "conflict")
        /\ UNCHANGED job
     \/ Leave(c, "rejected") /\ UNCHANGED job
  /\ UNCHANGED <<rooms, userText>>

\* The room is removed, and the answer given; or it cannot be removed.
CleanUp(c) ==
  /\ At(c, "cleanup")
  /\ \/ /\ rooms' = [rooms EXCEPT ![Room(c)] = "absent"]
        /\ Move(c, [dispatch[c] EXCEPT !.at = "answered", !.own = FALSE])
     \/ /\ Move(c, [dispatch[c] EXCEPT !.at = "answered", !.left = dispatch[c].own])
        /\ UNCHANGED rooms
  /\ UNCHANGED <<job, userText>>

Settle(c, status, kept) ==
  job' = [job EXCEPT ![c].status = status, ![c].kept = kept]

\* A worktree is removed before its task is seen to have ended; a task whose
\* worktree cannot be removed fails, and a cancelled one keeps it.
Retire(c) ==
  /\ job[c].status = "running" /\ job[c].demand.kind \in Isolated
  /\ \/ /\ rooms' = [rooms EXCEPT ![job[c].room] = "absent"]
        /\ Settle(c, "retired", FALSE)
     \/ Settle(c, "unretired", TRUE) /\ UNCHANGED rooms
     \/ Settle(c, "cancelled", TRUE) /\ UNCHANGED rooms
  /\ UNCHANGED <<dispatch, userText>>

EndJob(c) ==
  /\ \/ job[c].status = "retired"
        /\ \E s \in {"completed", "failing"} : Settle(c, s, FALSE)
     \/ job[c].status = "unretired" /\ Settle(c, "failing", TRUE)
     \/ /\ job[c].status = "running" /\ job[c].demand.kind \notin Isolated
        /\ \E s \in Fates : Settle(c, s, TRUE)
  /\ UNCHANGED <<rooms, dispatch, userText>>

\* The worker of a failed task tries once more after the failure is on record.
RetireAgain(c) ==
  /\ job[c].status = "failing"
  /\ \/ /\ rooms' = [rooms EXCEPT ![job[c].room] = "absent"]
        /\ Settle(c, "failed", FALSE)
     \/ Settle(c, "failed", Exists(job[c].room)) /\ UNCHANGED rooms
  /\ UNCHANGED <<dispatch, userText>>

Die(c) == /\ dispatch[c].at \notin {"idle", "answered", "dead"}
          /\ \/ UNCHANGED rooms /\ Move(c, [dispatch[c] EXCEPT !.at = "dead"])
             \/ /\ HalfMade(c)
                /\ Move(c, [dispatch[c] EXCEPT !.at = "dead", !.own = TRUE])
          /\ UNCHANGED <<job, userText>>

Save == /\ userText < MaxSaves
        /\ userText' = userText + 1
        /\ UNCHANGED <<rooms, dispatch, job>>

DispatchNext ==
  \/ \E c \in Dispatchers :
       \/ Begin(c) \/ Lookup(c) \/ Service(c) \/ CheckRoom(c) \/ MakeWorktree(c)
       \/ MakeTarget(c) \/ Clone(c) \/ ReuseRoom(c) \/ Scope(c)
       \/ VerifyContext(c) \/ Render(c) \/ Launch(c) \/ CleanUp(c)
       \/ Retire(c) \/ EndJob(c) \/ RetireAgain(c) \/ Die(c)
  \/ Save

DispatchSpec == DispatchInit /\ [][DispatchNext]_dispatchVars

--------------------------------------------------------------------------------

\* A directory that exists is accounted for: the call that made it is under
\* way, died, could not remove it again, or was told of a git that did not come to
\* an end and left it lying; or a task runs in it, or ended in a way that keeps it.
\* A call that was answered in any other way, with a replay, a conflict or for want
\* of a slot, leaves none, and no completed patch has a worktree left but one that
\* another call under its key has made since or left.
RoomsAccounted ==
  \A r \in Rooms : Exists(r) =>
    \/ \E c \in Dispatchers : /\ Room(c) = r
                              /\ \/ dispatch[c].own /\ ~At(c, "answered")
                                 \/ dispatch[c].left
    \/ \E c \in Dispatchers : /\ job[c].room = r
                              /\ \/ job[c].status = "running"
                                 \/ job[c].status # "none" /\ job[c].kept

\* The text in the prompt of a read-only task is the one its contract names,
\* for the call that made the task and for every call that was answered with it.
FrozenText ==
  \A c \in Dispatchers :
    Kind(c) = "read_only" /\ dispatch[c].answer \in {"created", "replayed"} =>
      job[dispatch[c].by].given \in {0, dispatch[c].root}

\* The lookup is "rejecting a reused key with different inputs": a call that is
\* answered with a task has asked for what that task was made for.
ReplayMeansSame ==
  \A c \in Dispatchers :
    dispatch[c].answer = "replayed" => Demand(c) = job[dispatch[c].by].demand

\* "Runs in a Runtime-owned Git worktree": a task that runs has its room.
RunsInItsRoom ==
  \A c \in Dispatchers :
    job[c].status = "running" /\ job[c].demand.kind # "read_only" =>
      Exists(job[c].room)
================================================================================
