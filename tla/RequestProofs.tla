----------------------------- MODULE RequestProofs ----------------------------
(***************************************************************************)
(* Proofs about what the Captain asks for beside a run: directories and    *)
(* prompts for tasks, answers of the tools, and collections of files.      *)
(*                                                                         *)
(* task_dispatch, for any number of threads, of directories, of keys and   *)
(* of things asked for: a directory a call has made is the call's until a  *)
(* task takes it over or the call removes it again; what is known of a     *)
(* call depends on where on its route it is.                               *)
(*                                                                         *)
(* A tool invocation, for any contents of the workspace, limits and number *)
(* of changes: what an answer claims is known from when it is found.       *)
(*                                                                         *)
(* Manifests and collections, for any files, sizes and callers: what a     *)
(* reader has read is what was registered, and what is left is the rest.   *)
(***************************************************************************)
EXTENDS WorkspaceDispatch, ToolRuntime, ProjectContext, DataLemmas, SequenceTheorems, TLAPS

(***************************************************************************)
(* The inductive invariant of the dispatch                                 *)
(***************************************************************************)

\* Where a call of each kind may be between its begin and its end.
PlacesOf(kind) ==
  CASE kind = "read_only"      -> {"lookup", "service", "verify", "render", "launch"}
    [] kind = "patch"          -> {"lookup", "service", "check", "make", "launch"}
    [] kind = "verification"   -> {"lookup", "make", "service", "launch"}
    [] kind = "research"       -> {"lookup", "check", "make", "clone", "scope",
                                   "service", "launch"}
    [] kind = "research_again" -> {"lookup", "again", "scope", "service", "launch"}

EndPlaces == {"cleanup", "answered", "dead"}

\* Where it may be once it has made a directory of its own.
OwnPlaces(kind) ==
  CASE kind = "patch"        -> {"launch"} \cup EndPlaces
    [] kind = "verification" -> {"service", "launch"} \cup EndPlaces
    [] kind = "research"     -> {"clone", "scope", "service", "launch"} \cup EndPlaces
    [] OTHER                 -> {}

\* What a call and the task it made know of each other: call is the entry of
\* thread c in dispatch, made that in job.
CallSound(c, call, made) ==
  /\ made.demand = call.demand /\ made.room = call.room
  /\ call.at \in {"idle"} \cup PlacesOf(call.demand.kind) \cup EndPlaces
  /\ call.own => call.at \in OwnPlaces(call.demand.kind)
  /\ call.at = "clone" => call.own
  /\ call.left => call.at = "answered"
  /\ call.answer = "replayed" => call.at \in EndPlaces
  /\ call.answer # "replayed" => call.by = c
  /\ call.demand.kind = "read_only" =>
       call.given \in {0, call.root} /\ made.given \in {0, call.root}
  /\ call.at = "idle" =>
       /\ call.answer = "none" /\ call.given = 0
       /\ made.status = "none" /\ made.given = 0

\* A worktree that was removed is not kept; what is no worktree is kept.
JobSound(made) ==
  /\ made.status = "retired" => ~made.kept
  /\ made.demand.kind \notin Isolated =>
       /\ made.status \in {"none", "running"} \cup Fates
       /\ made.status \in Fates => made.kept

CallsSound ==
  \A c \in Dispatchers : CallSound(c, dispatch[c], job[c]) /\ JobSound(job[c])

\* A replayed read-only call asked for the same files as the call that made its
\* task, when they held the same.
ReplaysSound ==
  \A c \in Dispatchers :
    Kind(c) = "read_only" /\ dispatch[c].answer = "replayed" =>
      LET b == dispatch[c].by IN
      /\ job[b].status # "none"
      /\ Kind(b) = "read_only" /\ dispatch[b].root = dispatch[c].root

DispatchInv == DispatchTypeOK /\ CallsSound /\ ReplaysSound /\ RoomsAccounted

(***************************************************************************)
(* Where a route leads                                                     *)
(***************************************************************************)

\* The next place of a call is the one after its place on the route.
LEMMA OnRoute ==
  ASSUME NEW c \in Dispatchers, NEW n \in DOMAIN Route(Kind(c)),
         Route(Kind(c))[n] = dispatch[c].at
  PROVE  \E m \in DOMAIN Route(Kind(c)) :
           /\ Route(Kind(c))[m] = dispatch[c].at
           /\ Onward(c) = Route(Kind(c))[m + 1]
<1> DEFINE route == Route(Kind(c))
           here == CHOOSE i \in DOMAIN route : route[i] = dispatch[c].at
<1>1. here \in DOMAIN route /\ route[here] = dispatch[c].at
  <2>1. \E i \in DOMAIN route : route[i] = dispatch[c].at
    OBVIOUS
  <2> HIDE DEF route
  <2> QED
    BY <2>1
<1>2. Onward(c) = route[here + 1]
  BY DEF Onward
<1> QED
  BY <1>1, <1>2

LEMMA OnwardIs ==
  ASSUME NEW c \in Dispatchers
  PROVE  /\ Kind(c) = "read_only" =>
              /\ At(c, "lookup") => Onward(c) = "service"
              /\ At(c, "service") => Onward(c) = "verify"
              /\ At(c, "verify") => Onward(c) = "render"
              /\ At(c, "render") => Onward(c) = "launch"
         /\ Kind(c) = "patch" =>
              /\ At(c, "lookup") => Onward(c) = "service"
              /\ At(c, "service") => Onward(c) = "check"
              /\ At(c, "check") => Onward(c) = "make"
              /\ At(c, "make") => Onward(c) = "launch"
         /\ Kind(c) = "verification" =>
              /\ At(c, "lookup") => Onward(c) = "make"
              /\ At(c, "make") => Onward(c) = "service"
              /\ At(c, "service") => Onward(c) = "launch"
         /\ Kind(c) = "research" =>
              /\ At(c, "lookup") => Onward(c) = "check"
              /\ At(c, "check") => Onward(c) = "make"
              /\ At(c, "clone") => Onward(c) = "scope"
              /\ At(c, "scope") => Onward(c) = "service"
              /\ At(c, "service") => Onward(c) = "launch"
         /\ Kind(c) = "research_again" =>
              /\ At(c, "lookup") => Onward(c) = "again"
              /\ At(c, "again") => Onward(c) = "scope"
              /\ At(c, "scope") => Onward(c) = "service"
              /\ At(c, "service") => Onward(c) = "launch"
<1> DEFINE route == Route(Kind(c))
<1>1. CASE Kind(c) = "read_only"
  <2>1. route = <<"lookup", "service", "verify", "render", "launch">>
    BY <1>1 DEF Route
  <2>2. \A n \in 1 .. 5 : route[n] = dispatch[c].at =>
          \E m \in 1 .. 5 : route[m] = dispatch[c].at /\ Onward(c) = route[m + 1]
    BY <2>1, OnRoute
  <2> HIDE DEF route
  <2> QED
    BY <1>1, <2>1, <2>2 DEF At
<1>2. CASE Kind(c) = "patch"
  <2>1. route = <<"lookup", "service", "check", "make", "launch">>
    BY <1>2 DEF Route
  <2>2. \A n \in 1 .. 5 : route[n] = dispatch[c].at =>
          \E m \in 1 .. 5 : route[m] = dispatch[c].at /\ Onward(c) = route[m + 1]
    BY <2>1, OnRoute
  <2> HIDE DEF route
  <2> QED
    BY <1>2, <2>1, <2>2 DEF At
<1>3. CASE Kind(c) = "verification"
  <2>1. route = <<"lookup", "make", "service", "launch">>
    BY <1>3 DEF Route
  <2>2. \A n \in 1 .. 4 : route[n] = dispatch[c].at =>
          \E m \in 1 .. 4 : route[m] = dispatch[c].at /\ Onward(c) = route[m + 1]
    BY <2>1, OnRoute
  <2> HIDE DEF route
  <2> QED
    BY <1>3, <2>1, <2>2 DEF At
<1>4. CASE Kind(c) = "research"
  <2>1. route = <<"lookup", "check", "make", "clone", "scope", "service", "launch">>
    BY <1>4 DEF Route
  <2>2. \A n \in 1 .. 7 : route[n] = dispatch[c].at =>
          \E m \in 1 .. 7 : route[m] = dispatch[c].at /\ Onward(c) = route[m + 1]
    BY <2>1, OnRoute
  <2> HIDE DEF route
  <2> QED
    BY <1>4, <2>1, <2>2 DEF At
<1>5. CASE Kind(c) = "research_again"
  <2>1. route = <<"lookup", "again", "scope", "service", "launch">>
    BY <1>5 DEF Route
  <2>2. \A n \in 1 .. 5 : route[n] = dispatch[c].at =>
          \E m \in 1 .. 5 : route[m] = dispatch[c].at /\ Onward(c) = route[m + 1]
    BY <2>1, OnRoute
  <2> HIDE DEF route
  <2> QED
    BY <1>5, <2>1, <2>2 DEF At
<1> QED
  BY <1>1, <1>2, <1>3, <1>4, <1>5

(***************************************************************************)
(* What the actions make of a call and of a task                           *)
(***************************************************************************)

SaveAnswers == {"none", "rejected", "conflict", "created", "replayed"}

\* q is the call d after a step: it asks for the same and works in the same place.
Became(q, d, at, own, left, root, given, answer, by) ==
  /\ q \in CallType
  /\ q.demand = d.demand /\ q.room = d.room
  /\ q.at = at /\ q.own = own /\ q.left = left /\ q.root = root
  /\ q.given = given /\ q.answer = answer /\ q.by = by

\* Only the entry of thread c changes.
CallIs(c, at, own, left, root, given, answer, by) ==
  /\ dispatch' \in [Dispatchers -> CallType]
  /\ \A x \in Dispatchers \ {c} : dispatch'[x] = dispatch[x]
  /\ Became(dispatch'[c], dispatch[c], at, own, left, root, given, answer, by)

\* The updates the actions make of a call.
LEMMA CallForms ==
  ASSUME NEW d \in CallType, NEW at \in DispatchPlaces, NEW b \in BOOLEAN,
         NEW n \in 1 .. MaxSaves, NEW m \in 0 .. MaxSaves, NEW a \in SaveAnswers,
         NEW t \in Dispatchers
  PROVE
    /\ Became([d EXCEPT !.at = at], d,
              at, d.own, d.left, d.root, d.given, d.answer, d.by)
    /\ Became([d EXCEPT !.at = at, !.root = n], d,
              at, d.own, d.left, n, d.given, d.answer, d.by)
    /\ Became([d EXCEPT !.at = at, !.answer = a], d,
              at, d.own, d.left, d.root, d.given, a, d.by)
    /\ Became([d EXCEPT !.at = at, !.answer = a, !.by = t], d,
              at, d.own, d.left, d.root, d.given, a, t)
    /\ Became([d EXCEPT !.at = at, !.own = b], d,
              at, b, d.left, d.root, d.given, d.answer, d.by)
    /\ Became([d EXCEPT !.at = at, !.own = b, !.answer = a], d,
              at, b, d.left, d.root, d.given, a, d.by)
    /\ Became([d EXCEPT !.at = at, !.left = b], d,
              at, d.own, b, d.root, d.given, d.answer, d.by)
    /\ Became([d EXCEPT !.at = at, !.answer = a, !.left = b], d,
              at, d.own, b, d.root, d.given, a, d.by)
    /\ Became([d EXCEPT !.at = at, !.given = m], d,
              at, d.own, d.left, d.root, m, d.answer, d.by)
<1>1. Became([d EXCEPT !.at = at], d,
             at, d.own, d.left, d.root, d.given, d.answer, d.by)
  BY Zenon DEF CallType, Became
<1>2. Became([d EXCEPT !.at = at, !.root = n], d,
             at, d.own, d.left, n, d.given, d.answer, d.by)
  BY Zenon DEF CallType, Became
<1>3. Became([d EXCEPT !.at = at, !.answer = a], d,
             at, d.own, d.left, d.root, d.given, a, d.by)
  BY Zenon DEF CallType, Became, SaveAnswers
<1>4. Became([d EXCEPT !.at = at, !.answer = a, !.by = t], d,
             at, d.own, d.left, d.root, d.given, a, t)
  BY Zenon DEF CallType, Became, SaveAnswers
<1>5. Became([d EXCEPT !.at = at, !.own = b], d,
             at, b, d.left, d.root, d.given, d.answer, d.by)
  BY Zenon DEF CallType, Became
<1>6. Became([d EXCEPT !.at = at, !.own = b, !.answer = a], d,
             at, b, d.left, d.root, d.given, a, d.by)
  BY Zenon DEF CallType, Became, SaveAnswers
<1>7. Became([d EXCEPT !.at = at, !.left = b], d,
             at, d.own, b, d.root, d.given, d.answer, d.by)
  BY Zenon DEF CallType, Became
<1>8. Became([d EXCEPT !.at = at, !.given = m], d,
             at, d.own, d.left, d.root, m, d.answer, d.by)
  BY Zenon DEF CallType, Became
<1>9. Became([d EXCEPT !.at = at, !.answer = a, !.left = b], d,
             at, d.own, b, d.root, d.given, a, d.by)
  BY Zenon DEF CallType, Became, SaveAnswers
<1> QED
  BY <1>1, <1>2, <1>3, <1>4, <1>5, <1>6, <1>7, <1>8, <1>9

LEMMA CallMoves ==
  ASSUME DispatchTypeOK, NEW c \in Dispatchers, NEW q, NEW at, NEW own, NEW left,
         NEW root, NEW given, NEW answer, NEW by, Move(c, q),
         Became(q, dispatch[c], at, own, left, root, given, answer, by)
  PROVE  CallIs(c, at, own, left, root, given, answer, by)
<1>1. dispatch \in [Dispatchers -> CallType]
  BY DEF DispatchTypeOK
<1>2. q \in CallType
  BY DEF Became
<1>3. dispatch'[c] = q
  BY <1>1 DEF Move
<1>4. dispatch' \in [Dispatchers -> CallType]
  BY <1>1, <1>2 DEF Move
<1>5. \A x \in Dispatchers \ {c} : dispatch'[x] = dispatch[x]
  BY <1>1 DEF Move
<1> QED
  BY <1>3, <1>4, <1>5, Zenon DEF CallIs

(***************************************************************************)
(* What a step of a call has to see to                                     *)
(***************************************************************************)

\* What the call leaves behind is still accounted for.
RoomStands(c, at, own, left) ==
  dispatch[c].own =>
    \/ own /\ at # "answered"
    \/ left
    \/ rooms'[Room(c)] = "absent"
    \/ \E b \in Dispatchers : /\ job[b].room = Room(c)
                              /\ \/ job[b].status = "running"
                                 \/ job[b].status # "none" /\ job[b].kept

\* The task a read-only call is answered with was made for the same text.
AnswerStands(c, root, answer, by) ==
  Kind(c) = "read_only" /\ answer = "replayed" =>
    \/ /\ dispatch[c].answer = "replayed"
       /\ root = dispatch[c].root /\ by = dispatch[c].by
    \/ job[by].status # "none" /\ Kind(by) = "read_only" /\ dispatch[by].root = root

Allowed(c, at, own, left, root, given, answer, by) ==
  /\ ~At(c, "answered") /\ ~At(c, "dead") /\ at # "idle"
  /\ at \in PlacesOf(Kind(c)) \cup EndPlaces
  /\ own => at \in OwnPlaces(Kind(c))
  /\ at = "clone" => own
  /\ left => at = "answered"
  /\ answer = "replayed" => at \in EndPlaces
  /\ answer # "replayed" => by = c
  /\ root = dispatch[c].root \/ At(c, "idle")
  /\ Kind(c) = "read_only" => given \in {0, root}
  /\ RoomStands(c, at, own, left)
  /\ AnswerStands(c, root, answer, by)

\* The only directory that appears is the call's own, or one it leaves behind.
RoomsStep(c, at, own, left) ==
  \A r \in Rooms : rooms'[r] # "absent" =>
    Exists(r) \/ (r = Room(c) /\ ((own /\ at # "answered") \/ left))

LEMMA StepKeepsCalls ==
  ASSUME DispatchInv, NEW c \in Dispatchers, NEW at, NEW own, NEW left, NEW root,
         NEW given, NEW answer, NEW by, UNCHANGED job,
         CallIs(c, at, own, left, root, given, answer, by),
         Allowed(c, at, own, left, root, given, answer, by)
  PROVE  CallsSound'
<1>1. CallSound(c, dispatch[c], job[c])
  BY DEF DispatchInv, CallsSound
<1>2. /\ dispatch'[c].demand = dispatch[c].demand
      /\ dispatch'[c].room = dispatch[c].room
      /\ dispatch'[c].at = at /\ dispatch'[c].own = own /\ dispatch'[c].left = left
      /\ dispatch'[c].root = root /\ dispatch'[c].given = given
      /\ dispatch'[c].answer = answer /\ dispatch'[c].by = by
  BY DEF CallIs, Became
<1>3. Kind(c) = dispatch[c].demand.kind
  BY DEF Kind, Demand
<1>4. dispatch[c].demand.kind = "read_only" => job[c].given \in {0, root}
  BY <1>1, <1>3 DEF CallSound, Allowed, At
<1>5. CallSound(c, dispatch'[c], job[c])
  <2>1. /\ job[c].demand = dispatch'[c].demand /\ job[c].room = dispatch'[c].room
        /\ at # "idle"
        /\ at \in PlacesOf(dispatch[c].demand.kind) \cup EndPlaces
        /\ own => at \in OwnPlaces(dispatch[c].demand.kind)
        /\ at = "clone" => own
        /\ left => at = "answered"
        /\ answer = "replayed" => at \in EndPlaces
        /\ answer # "replayed" => by = c
        /\ dispatch[c].demand.kind = "read_only" => given \in {0, root}
    BY <1>1, <1>2, <1>3 DEF CallSound, Allowed
  <2> QED
    BY <2>1, <1>2, <1>4 DEF CallSound
<1>6. \A x \in Dispatchers \ {c} : dispatch'[x] = dispatch[x]
  BY DEF CallIs
<1>7. \A x \in Dispatchers : CallSound(x, dispatch'[x], job[x]) /\ JobSound(job[x])
  BY <1>5, <1>6, Zenon DEF DispatchInv, CallsSound
<1> QED
  BY <1>7 DEF CallsSound

LEMMA StepKeepsReplays ==
  ASSUME DispatchInv, NEW c \in Dispatchers, NEW at, NEW own, NEW left, NEW root,
         NEW given, NEW answer, NEW by \in Dispatchers, UNCHANGED job,
         CallIs(c, at, own, left, root, given, answer, by),
         Allowed(c, at, own, left, root, given, answer, by)
  PROVE  ReplaysSound'
<1>1. /\ dispatch'[c].demand = dispatch[c].demand
      /\ dispatch'[c].root = root /\ dispatch'[c].answer = answer
      /\ dispatch'[c].by = by
  BY DEF CallIs, Became
<1>2. \A x \in Dispatchers \ {c} : dispatch'[x] = dispatch[x]
  BY DEF CallIs
<1>3. \A x \in Dispatchers : dispatch'[x].demand = dispatch[x].demand
  BY <1>1, <1>2
<1>4. \A x \in Dispatchers : job[x].status # "none" => dispatch'[x].root = dispatch[x].root
  <2>1. CallSound(c, dispatch[c], job[c])
    BY DEF DispatchInv, CallsSound
  <2>2. job[c].status # "none" => root = dispatch[c].root
    BY <2>1 DEF CallSound, Allowed, At
  <2> QED
    BY <1>1, <1>2, <2>2
<1>5. dispatch \in [Dispatchers -> CallType]
  BY DEF DispatchInv, DispatchTypeOK
<1>6. \A x \in Dispatchers : dispatch[x].by \in Dispatchers
  BY <1>5 DEF CallType
<1> SUFFICES ASSUME NEW x \in Dispatchers, dispatch'[x].demand.kind = "read_only",
                    dispatch'[x].answer = "replayed"
             PROVE  LET b == dispatch'[x].by IN
                      /\ job[b].status # "none"
                      /\ dispatch'[b].demand.kind = "read_only"
                      /\ dispatch'[b].root = dispatch'[x].root
  BY DEF ReplaysSound, Kind, Demand
<1>7. CASE x # c
  <2>1. dispatch'[x] = dispatch[x]
    BY <1>2, <1>7
  <2>2. LET b == dispatch[x].by IN
          /\ job[b].status # "none"
          /\ dispatch[b].demand.kind = "read_only"
          /\ dispatch[b].root = dispatch[x].root
    BY <2>1 DEF DispatchInv, ReplaysSound, Kind, Demand
  <2> QED
    BY <2>1, <2>2, <1>3, <1>4, <1>6
<1>8. CASE x = c
  <2>1. AnswerStands(c, root, answer, by) /\ Kind(c) = "read_only"
    BY <1>8, <1>1 DEF Allowed, Kind, Demand
  <2>2. /\ job[by].status # "none"
        /\ dispatch[by].demand.kind = "read_only"
        /\ dispatch[by].root = root
    BY <2>1, <1>8, <1>1 DEF AnswerStands, DispatchInv, ReplaysSound, Kind, Demand
  <2> QED
    BY <2>2, <1>8, <1>1, <1>3, <1>4
<1> QED
  BY <1>7, <1>8

LEMMA StepKeepsRooms ==
  ASSUME DispatchInv, NEW c \in Dispatchers, NEW at, NEW own, NEW left, NEW root,
         NEW given, NEW answer, NEW by, UNCHANGED job,
         CallIs(c, at, own, left, root, given, answer, by),
         Allowed(c, at, own, left, root, given, answer, by),
         RoomsStep(c, at, own, left)
  PROVE  RoomsAccounted'
<1>1. /\ dispatch'[c].room = dispatch[c].room
      /\ dispatch'[c].at = at /\ dispatch'[c].own = own /\ dispatch'[c].left = left
  BY DEF CallIs, Became
<1>2. \A x \in Dispatchers \ {c} : dispatch'[x] = dispatch[x]
  BY DEF CallIs
<1>3. dispatch[c].left => FALSE
  BY DEF DispatchInv, CallsSound, CallSound, Allowed, At
<1> SUFFICES ASSUME NEW r \in Rooms, rooms'[r] # "absent"
             PROVE  \/ \E x \in Dispatchers :
                         /\ dispatch'[x].room = r
                         /\ \/ dispatch'[x].own /\ dispatch'[x].at # "answered"
                            \/ dispatch'[x].left
                    \/ \E x \in Dispatchers :
                         /\ job[x].room = r
                         /\ \/ job[x].status = "running"
                            \/ job[x].status # "none" /\ job[x].kept
  BY DEF RoomsAccounted, Exists, Room, At
<1>4. CASE r = Room(c) /\ ((own /\ at # "answered") \/ left)
  BY <1>4, <1>1 DEF Room
<1>5. CASE Exists(r)
  <2>1. \/ \E x \in Dispatchers : /\ dispatch[x].room = r
                                  /\ \/ dispatch[x].own /\ dispatch[x].at # "answered"
                                     \/ dispatch[x].left
        \/ \E x \in Dispatchers : /\ job[x].room = r
                                  /\ \/ job[x].status = "running"
                                     \/ job[x].status # "none" /\ job[x].kept
    BY <1>5 DEF DispatchInv, RoomsAccounted, Room, At
  <2>2. ASSUME NEW x \in Dispatchers, dispatch[x].room = r,
               \/ dispatch[x].own /\ dispatch[x].at # "answered"
               \/ dispatch[x].left,
               x # c
        PROVE  /\ dispatch'[x].room = r
               /\ \/ dispatch'[x].own /\ dispatch'[x].at # "answered"
                  \/ dispatch'[x].left
    BY <2>2, <1>2
  <2>3. ASSUME dispatch[c].room = r, dispatch[c].own
        PROVE  \/ own /\ at # "answered"
               \/ left
               \/ \E b \in Dispatchers : /\ job[b].room = r
                                         /\ \/ job[b].status = "running"
                                            \/ job[b].status # "none" /\ job[b].kept
    BY <2>3 DEF Allowed, RoomStands, Room
  <2> QED
    BY <2>1, <2>2, <2>3, <1>1, <1>3
<1> QED
  BY <1>4, <1>5 DEF RoomsStep

LEMMA StepStands ==
  ASSUME DispatchInv, NEW c \in Dispatchers, NEW at, NEW own, NEW left, NEW root,
         NEW given, NEW answer, NEW by \in Dispatchers, UNCHANGED <<job, userText>>,
         CallIs(c, at, own, left, root, given, answer, by),
         Allowed(c, at, own, left, root, given, answer, by),
         rooms' \in [Rooms -> {"absent", "making", "ready"}],
         RoomsStep(c, at, own, left)
  PROVE  DispatchInv'
<1>1. CallsSound' /\ ReplaysSound' /\ RoomsAccounted'
  BY StepKeepsCalls, StepKeepsReplays, StepKeepsRooms
<1>2. dispatch' \in [Dispatchers -> CallType]
  BY DEF CallIs
<1>3. DispatchTypeOK'
  BY <1>2 DEF DispatchInv, DispatchTypeOK
<1> QED
  BY <1>1, <1>3 DEF DispatchInv

(***************************************************************************)
(* The moves the actions share                                             *)
(***************************************************************************)

LEMMA CallFacts ==
  ASSUME DispatchInv, NEW c \in Dispatchers
  PROVE  /\ dispatch \in [Dispatchers -> CallType] /\ dispatch[c] \in CallType
         /\ rooms \in [Rooms -> {"absent", "making", "ready"}]
         /\ Kind(c) \in Kinds /\ Room(c) \in Rooms
         /\ dispatch[c].demand \in Demands /\ dispatch[c].own \in BOOLEAN
         /\ dispatch[c].left \in BOOLEAN /\ dispatch[c].by \in Dispatchers
         /\ userText \in 1 .. MaxSaves /\ userText \in 0 .. MaxSaves
         /\ dispatch[c].root \in 1 .. MaxSaves /\ dispatch[c].given \in 0 .. MaxSaves
         /\ job[c].demand = dispatch[c].demand /\ job[c].room = dispatch[c].room
         /\ JobSound(job[c])
<1>1. DispatchTypeOK /\ CallSound(c, dispatch[c], job[c]) /\ JobSound(job[c])
  BY DEF DispatchInv, CallsSound
<1>2. dispatch \in [Dispatchers -> CallType] /\ dispatch[c] \in CallType
  BY <1>1 DEF DispatchTypeOK
<1>3. dispatch[c].demand \in Demands /\ dispatch[c].room \in Rooms
  BY <1>2 DEF CallType
<1>4. Kind(c) \in Kinds
  BY <1>3, DispatchAssumption DEF DemandType, Kind, Demand
<1>5. /\ dispatch[c].own \in BOOLEAN /\ dispatch[c].left \in BOOLEAN
      /\ dispatch[c].by \in Dispatchers
      /\ dispatch[c].root \in 1 .. MaxSaves /\ dispatch[c].given \in 0 .. MaxSaves
  BY <1>2 DEF CallType
<1>6. userText \in 1 .. MaxSaves /\ userText \in 0 .. MaxSaves
  BY <1>1, DispatchAssumption DEF DispatchTypeOK
<1>7. rooms \in [Rooms -> {"absent", "making", "ready"}]
  BY <1>1 DEF DispatchTypeOK
<1>8. job[c].demand = dispatch[c].demand /\ job[c].room = dispatch[c].room
  BY <1>1 DEF CallSound
<1> QED
  BY <1>1, <1>2, <1>3, <1>4, <1>5, <1>6, <1>7, <1>8 DEF Room

\* What is known of a call on its way: it has answered nothing yet.
LEMMA UnderWay ==
  ASSUME DispatchInv, NEW c \in Dispatchers, dispatch[c].at \notin EndPlaces
  PROVE  /\ ~At(c, "answered") /\ ~At(c, "dead")
         /\ dispatch[c].answer # "replayed" /\ dispatch[c].by = c
         /\ ~dispatch[c].left
         /\ dispatch[c].own => dispatch[c].at \in OwnPlaces(Kind(c))
         /\ At(c, "clone") => dispatch[c].own
         /\ ~At(c, "idle") => dispatch[c].at \in PlacesOf(Kind(c))
         /\ Kind(c) = "read_only" => dispatch[c].given \in {0, dispatch[c].root}
<1>1. CallSound(c, dispatch[c], job[c])
  BY DEF DispatchInv, CallsSound
<1>2. /\ ~At(c, "answered") /\ ~At(c, "dead")
      /\ dispatch[c].answer # "replayed"
      /\ ~dispatch[c].left
  BY <1>1 DEF CallSound, At, EndPlaces
<1> QED
  BY <1>1, <1>2 DEF CallSound, At, Kind, Demand

LEMMA GoStands ==
  ASSUME DispatchInv, NEW c \in Dispatchers, dispatch[c].at \notin EndPlaces,
         ~At(c, "idle"), Onward(c) \in PlacesOf(Kind(c)), Onward(c) \in DispatchPlaces,
         Onward(c) # "idle", Onward(c) # "clone", Onward(c) \notin EndPlaces,
         dispatch[c].own => Onward(c) \in OwnPlaces(Kind(c)),
         rooms' \in [Rooms -> {"absent", "making", "ready"}],
         \A r \in Rooms : rooms'[r] # "absent" =>
           Exists(r) \/ (r = Room(c) /\ dispatch[c].own),
         Go(c), UNCHANGED <<job, userText>>
  PROVE  DispatchInv'
<1> DEFINE d == dispatch[c]
<1>1. Became([d EXCEPT !.at = Onward(c)], d,
             Onward(c), d.own, d.left, d.root, d.given, d.answer, d.by)
  BY CallFacts, CallForms, DispatchAssumption DEF SaveAnswers
<1>2. DispatchTypeOK
  BY DEF DispatchInv
<1>3. CallIs(c, Onward(c), d.own, d.left, d.root, d.given, d.answer, d.by)
  BY <1>1, <1>2, CallMoves DEF Go
<1>4. Allowed(c, Onward(c), d.own, d.left, d.root, d.given, d.answer, d.by)
  BY UnderWay DEF Allowed, RoomStands, AnswerStands, EndPlaces
<1>5. RoomsStep(c, Onward(c), d.own, d.left)
  BY DEF RoomsStep, EndPlaces
<1> QED
  BY <1>3, <1>4, <1>5, StepStands, CallFacts

\* A call that has made nothing answers at once.
LEMMA AnsweredStands ==
  ASSUME DispatchInv, NEW c \in Dispatchers, dispatch[c].at \notin EndPlaces,
         ~At(c, "idle"), ~dispatch[c].own, NEW a \in SaveAnswers, a # "replayed",
         Answered(c, a), UNCHANGED <<rooms, job, userText>>
  PROVE  DispatchInv'
<1> DEFINE d == dispatch[c]
<1>1. Became([d EXCEPT !.at = "answered", !.answer = a], d,
             "answered", d.own, d.left, d.root, d.given, a, d.by)
  BY CallFacts, CallForms, DispatchAssumption DEF DispatchPlaces
<1>2. DispatchTypeOK
  BY DEF DispatchInv
<1>3. CallIs(c, "answered", d.own, d.left, d.root, d.given, a, d.by)
  BY <1>1, <1>2, CallMoves DEF Answered
<1>4. Allowed(c, "answered", d.own, d.left, d.root, d.given, a, d.by)
  BY UnderWay DEF Allowed, RoomStands, AnswerStands, EndPlaces
<1> QED
  BY <1>3, <1>4, StepStands, CallFacts DEF RoomsStep, Exists

\* One that has made a room goes and removes it.
LEMMA LeaveStands ==
  ASSUME DispatchInv, NEW c \in Dispatchers, dispatch[c].at \notin EndPlaces,
         ~At(c, "idle"), NEW a \in SaveAnswers, a # "replayed",
         Leave(c, a), UNCHANGED <<rooms, job, userText>>
  PROVE  DispatchInv'
<1> DEFINE d == dispatch[c]
           at == IF d.own THEN "cleanup" ELSE "answered"
<1>1. at \in DispatchPlaces
  BY DEF DispatchPlaces
<1>2. Became([d EXCEPT !.at = at, !.answer = a], d,
             at, d.own, d.left, d.root, d.given, a, d.by)
  <2> HIDE DEF at
  <2> QED
    BY <1>1, CallFacts, CallForms, DispatchAssumption
<1>3. DispatchTypeOK
  BY DEF DispatchInv
<1>4. CallIs(c, at, d.own, d.left, d.root, d.given, a, d.by)
  BY <1>2, <1>3, CallMoves DEF Leave
<1>5. d.own => Kind(c) \in Isolated \cup {"research"}
  BY UnderWay, CallFacts DEF OwnPlaces, Isolated, Kinds, Research
<1>6. d.own => "cleanup" \in OwnPlaces(Kind(c))
  BY <1>5 DEF OwnPlaces, Isolated, EndPlaces
<1>7. Allowed(c, at, d.own, d.left, d.root, d.given, a, d.by)
  BY <1>6, UnderWay DEF Allowed, RoomStands, AnswerStands, EndPlaces
<1> QED
  BY <1>4, <1>7, StepStands, CallFacts DEF RoomsStep, Exists

\* A replay: what an isolated call has made is removed, and the directory of
\* research is the one the task runs in.
LEMMA ReplayStands ==
  ASSUME DispatchInv, NEW c \in Dispatchers, dispatch[c].at \notin EndPlaces,
         ~At(c, "idle"), NEW b \in Bound(c), Replay(c, b),
         dispatch[c].own => Demand(c) = Demand(b) /\ job[b].room = Room(c),
         Kind(c) = "read_only" => SameContract(c, b),
         UNCHANGED <<rooms, job, userText>>
  PROVE  DispatchInv'
<1> DEFINE d == dispatch[c]
           at == IF d.own /\ Kind(c) \in Isolated THEN "cleanup" ELSE "answered"
<1>1. at \in DispatchPlaces /\ "replayed" \in SaveAnswers
  BY DEF DispatchPlaces, SaveAnswers
<1>2. b \in Dispatchers /\ job[b].status # "none"
  BY DEF Bound
<1>3. Became([d EXCEPT !.at = at, !.answer = "replayed", !.by = b], d,
             at, d.own, d.left, d.root, d.given, "replayed", b)
  <2> HIDE DEF at
  <2> QED
    BY <1>1, <1>2, CallFacts, CallForms, DispatchAssumption
<1>4. DispatchTypeOK
  BY DEF DispatchInv
<1>5. CallIs(c, at, d.own, d.left, d.root, d.given, "replayed", b)
  BY <1>3, <1>4, CallMoves DEF Replay
<1>6. d.own => Kind(c) \in Isolated \cup {"research"}
  BY UnderWay, CallFacts DEF OwnPlaces, Isolated, Kinds, Research
<1>7. d.own => at \in OwnPlaces(Kind(c))
  BY <1>6 DEF OwnPlaces, Isolated, EndPlaces
<1>8. RoomStands(c, at, d.own, d.left)
  <2>1. SUFFICES ASSUME d.own, Kind(c) \notin Isolated
                 PROVE  \/ job[b].status = "running"
                        \/ job[b].kept
    BY <1>2 DEF RoomStands
  <2>2. job[b].demand.kind \notin Isolated /\ JobSound(job[b])
    BY <2>1, <1>2, CallFacts DEF Kind, Demand
  <2> QED
    BY <2>2, <1>2 DEF JobSound
<1>9. AnswerStands(c, d.root, "replayed", b)
  BY <1>2 DEF AnswerStands, SameContract, Kind, Demand, Research
<1>10. Allowed(c, at, d.own, d.left, d.root, d.given, "replayed", b)
  BY <1>7, <1>8, <1>9, UnderWay DEF Allowed, EndPlaces
<1> QED
  BY <1>2, <1>5, <1>10, StepStands, CallFacts DEF RoomsStep, Exists

(***************************************************************************)
(* The steps of a call                                                     *)
(***************************************************************************)

LEMMA BeginStands ==
  ASSUME DispatchInv, NEW c \in Dispatchers, Begin(c)
  PROVE  DispatchInv'
<1> DEFINE d == dispatch[c]
<1>1. Became([d EXCEPT !.at = "lookup", !.root = userText], d,
             "lookup", d.own, d.left, userText, d.given, d.answer, d.by)
  BY CallFacts, CallForms, DispatchAssumption DEF DispatchPlaces, SaveAnswers
<1>2. DispatchTypeOK /\ CallSound(c, d, job[c])
  BY DEF DispatchInv, CallsSound
<1>3. CallIs(c, "lookup", d.own, d.left, userText, d.given, d.answer, d.by)
  BY <1>1, <1>2, CallMoves DEF Begin
<1>4. /\ d.answer = "none" /\ d.given = 0
      /\ ~d.left /\ d.by = c /\ ~d.own
  <2>1. d.at = "idle"
    BY DEF Begin, At
  <2>2. d.answer = "none" /\ d.given = 0 /\ ~d.left /\ d.by = c
    BY <2>1, <1>2 DEF CallSound
  <2>3. "idle" \notin OwnPlaces(d.demand.kind)
    BY CallFacts DEF OwnPlaces, EndPlaces
  <2> QED
    BY <2>1, <2>2, <2>3, <1>2, CallFacts DEF CallSound
<1>5. "lookup" \in PlacesOf(Kind(c))
  BY CallFacts DEF PlacesOf, Kinds, Isolated, Research
<1>6. Allowed(c, "lookup", d.own, d.left, userText, d.given, d.answer, d.by)
  BY <1>4, <1>5 DEF Allowed, Begin, At, RoomStands, AnswerStands
<1> QED
  BY <1>3, <1>6, StepStands, CallFacts DEF Begin, RoomsStep, Exists

\* The places at which a call has not made anything.
LEMMA NothingMade ==
  ASSUME DispatchInv, NEW c \in Dispatchers,
         dispatch[c].at \in {"lookup", "check", "make", "again", "verify", "render"}
  PROVE  dispatch[c].at \notin EndPlaces /\ ~At(c, "idle") /\ ~dispatch[c].own
<1>1. dispatch[c].at \notin EndPlaces /\ ~At(c, "idle")
  BY DEF EndPlaces, At
<1>2. dispatch[c].at \notin OwnPlaces(Kind(c))
  BY CallFacts DEF OwnPlaces, EndPlaces, Kinds, Isolated, Research
<1> QED
  BY <1>1, <1>2, UnderWay

LEMMA LookupStands ==
  ASSUME DispatchInv, NEW c \in Dispatchers, Lookup(c)
  PROVE  DispatchInv'
<1>1. dispatch[c].at = "lookup" /\ UNCHANGED <<rooms, job, userText>>
  BY DEF Lookup, At
<1>2. dispatch[c].at \notin EndPlaces /\ ~At(c, "idle") /\ ~dispatch[c].own
  BY <1>1, NothingMade
<1>3. CASE Go(c)
  <2>1. Onward(c) \in {"service", "make", "check", "again"}
        /\ Onward(c) \in PlacesOf(Kind(c))
    BY <1>1, OnwardIs, CallFacts DEF At, PlacesOf, Kinds, Isolated, Research
  <2> QED
    BY <2>1, <1>1, <1>2, <1>3, GoStands, CallFacts DEF DispatchPlaces, EndPlaces, Exists
<1>4. ASSUME NEW b \in Bound(c), SameContract(c, b), Replay(c, b)
      PROVE  DispatchInv'
  BY <1>4, <1>1, <1>2, ReplayStands
<1>5. CASE Answered(c, "conflict")
  BY <1>5, <1>1, <1>2, AnsweredStands DEF SaveAnswers
<1> QED
  BY <1>3, <1>4, <1>5 DEF Lookup

LEMMA ServiceStands ==
  ASSUME DispatchInv, NEW c \in Dispatchers, Service(c)
  PROVE  DispatchInv'
<1>1. dispatch[c].at = "service" /\ UNCHANGED <<rooms, job, userText>>
  BY DEF Service, At
<1>2. dispatch[c].at \notin EndPlaces /\ ~At(c, "idle")
  BY <1>1 DEF EndPlaces, At
<1>3. CASE Go(c)
  <2>1. Onward(c) \in {"verify", "check", "launch"}
        /\ Onward(c) \in PlacesOf(Kind(c))
    BY <1>1, <1>2, UnderWay, OnwardIs, CallFacts
       DEF At, PlacesOf, Kinds, Isolated, Research
  <2>2. dispatch[c].own => Onward(c) \in OwnPlaces(Kind(c))
    BY <1>1, <1>2, UnderWay, OnwardIs, CallFacts
       DEF At, OwnPlaces, Kinds, Isolated, Research, EndPlaces
  <2> QED
    BY <2>1, <2>2, <1>1, <1>2, <1>3, GoStands, CallFacts
       DEF DispatchPlaces, EndPlaces, Exists
<1>4. CASE Leave(c, "rejected")
  BY <1>4, <1>1, <1>2, LeaveStands DEF SaveAnswers
<1> QED
  BY <1>3, <1>4 DEF Service

LEMMA CheckRoomStands ==
  ASSUME DispatchInv, NEW c \in Dispatchers, CheckRoom(c)
  PROVE  DispatchInv'
<1> DEFINE d == dispatch[c]
<1>1. d.at = "check" /\ UNCHANGED <<rooms, job, userText>>
  BY DEF CheckRoom, At
<1>2. d.at \notin EndPlaces /\ ~At(c, "idle") /\ ~d.own
  BY <1>1, NothingMade
<1>3. CASE Go(c)
  <2>1. Onward(c) = "make" /\ Onward(c) \in PlacesOf(Kind(c))
    BY <1>1, <1>2, UnderWay, OnwardIs, CallFacts
       DEF At, PlacesOf, Kinds, Isolated, Research
  <2> QED
    BY <2>1, <1>1, <1>2, <1>3, GoStands, CallFacts DEF DispatchPlaces, EndPlaces, Exists
<1>4. CASE Kind(c) = "patch" /\ Move(c, [d EXCEPT !.at = "launch"])
  <2>1. Became([d EXCEPT !.at = "launch"], d,
               "launch", d.own, d.left, d.root, d.given, d.answer, d.by)
    BY CallFacts, CallForms, DispatchAssumption DEF SaveAnswers, DispatchPlaces
  <2>2. DispatchTypeOK
    BY DEF DispatchInv
  <2>3. CallIs(c, "launch", d.own, d.left, d.root, d.given, d.answer, d.by)
    BY <2>1, <2>2, <1>4, CallMoves
  <2>4. "launch" \in PlacesOf(Kind(c))
    BY <1>4 DEF PlacesOf
  <2>5. Allowed(c, "launch", d.own, d.left, d.root, d.given, d.answer, d.by)
    BY <2>4, <1>2, UnderWay DEF Allowed, RoomStands, AnswerStands
  <2> QED
    BY <2>3, <2>5, <1>1, StepStands, CallFacts DEF RoomsStep, Exists
<1>5. CASE Answered(c, "rejected")
  BY <1>5, <1>1, <1>2, AnsweredStands DEF SaveAnswers
<1> QED
  BY <1>3, <1>4, <1>5 DEF CheckRoom

\* A directory the call makes for itself, and goes on to the place at.
LEMMA MadeStands ==
  ASSUME DispatchInv, NEW c \in Dispatchers, At(c, "make"),
         NEW at \in DispatchPlaces, at \in PlacesOf(Kind(c)), at # "idle",
         at \in OwnPlaces(Kind(c)), at \notin EndPlaces,
         NEW state \in {"making", "ready"},
         rooms' = [rooms EXCEPT ![Room(c)] = state],
         Move(c, [dispatch[c] EXCEPT !.at = at, !.own = TRUE]),
         UNCHANGED <<job, userText>>
  PROVE  DispatchInv'
<1> DEFINE d == dispatch[c]
<1>1. d.at \notin EndPlaces /\ ~At(c, "idle")
  BY DEF EndPlaces, At
<1>2. Became([d EXCEPT !.at = at, !.own = TRUE], d,
             at, TRUE, d.left, d.root, d.given, d.answer, d.by)
  BY CallFacts, CallForms, DispatchAssumption DEF SaveAnswers
<1>3. DispatchTypeOK
  BY DEF DispatchInv
<1>4. CallIs(c, at, TRUE, d.left, d.root, d.given, d.answer, d.by)
  BY <1>2, <1>3, CallMoves
<1>5. Allowed(c, at, TRUE, d.left, d.root, d.given, d.answer, d.by)
  BY <1>1, UnderWay DEF Allowed, RoomStands, AnswerStands, EndPlaces
<1>6. /\ rooms' \in [Rooms -> {"absent", "making", "ready"}]
      /\ \A r \in Rooms : r # Room(c) => rooms'[r] = rooms[r]
  BY CallFacts
<1>7. RoomsStep(c, at, TRUE, d.left)
  BY <1>6 DEF RoomsStep, Exists, EndPlaces
<1> QED
  BY <1>4, <1>5, <1>6, <1>7, StepStands, CallFacts

\* A git that was ended leaves at most the directory it was making.
LEMMA HalfMadeRoom ==
  ASSUME DispatchInv, NEW c \in Dispatchers, HalfMade(c)
  PROVE  /\ rooms' \in [Rooms -> {"absent", "making", "ready"}]
         /\ \A r \in Rooms : r # Room(c) => rooms'[r] = rooms[r]
  BY CallFacts DEF HalfMade

LEMMA MakeWorktreeStands ==
  ASSUME DispatchInv, NEW c \in Dispatchers, MakeWorktree(c)
  PROVE  DispatchInv'
<1>1. dispatch[c].at = "make" /\ Kind(c) \in Isolated /\ UNCHANGED <<job, userText>>
  BY DEF MakeWorktree, At
<1>2. CASE /\ rooms' = [rooms EXCEPT ![Room(c)] = "ready"]
           /\ Move(c, [dispatch[c] EXCEPT !.at = Onward(c), !.own = TRUE])
  <2>1. /\ Onward(c) \in {"launch", "service"}
        /\ Onward(c) \in PlacesOf(Kind(c)) /\ Onward(c) \in OwnPlaces(Kind(c))
    BY <1>1, OnwardIs DEF At, PlacesOf, OwnPlaces, Isolated
  <2> QED
    BY <2>1, <1>1, <1>2, MadeStands DEF DispatchPlaces, EndPlaces, At
<1>3. CASE Answered(c, "rejected") /\ UNCHANGED rooms
  <2>1. dispatch[c].at \notin EndPlaces /\ ~At(c, "idle") /\ ~dispatch[c].own
    BY <1>1, NothingMade
  <2> QED
    BY <2>1, <1>1, <1>3, AnsweredStands DEF SaveAnswers
<1>4. CASE HalfMade(c) /\ Move(c, [dispatch[c] EXCEPT !.at = "answered",
                                    !.answer = "rejected", !.left = TRUE])
  <2> DEFINE d == dispatch[c]
  <2>1. d.at \notin EndPlaces /\ ~At(c, "idle") /\ ~d.own
    BY <1>1, NothingMade
  <2>2. Became([d EXCEPT !.at = "answered", !.answer = "rejected", !.left = TRUE], d,
               "answered", d.own, TRUE, d.root, d.given, "rejected", d.by)
    BY CallFacts, CallForms, DispatchAssumption DEF SaveAnswers, DispatchPlaces
  <2>3. DispatchTypeOK
    BY DEF DispatchInv
  <2>4. CallIs(c, "answered", d.own, TRUE, d.root, d.given, "rejected", d.by)
    BY <2>2, <2>3, <1>4, CallMoves
  <2>5. Allowed(c, "answered", d.own, TRUE, d.root, d.given, "rejected", d.by)
    BY <2>1, UnderWay DEF Allowed, RoomStands, AnswerStands, EndPlaces
  <2>6. RoomsStep(c, "answered", d.own, TRUE)
    BY <1>4, HalfMadeRoom DEF RoomsStep, Exists
  <2> QED
    BY <1>1, <1>4, <2>4, <2>5, <2>6, HalfMadeRoom, StepStands, CallFacts
<1> QED
  BY <1>2, <1>3, <1>4 DEF MakeWorktree

LEMMA MakeTargetStands ==
  ASSUME DispatchInv, NEW c \in Dispatchers, MakeTarget(c)
  PROVE  DispatchInv'
<1> DEFINE d == dispatch[c]
<1>1. d.at = "make" /\ Kind(c) = "research" /\ UNCHANGED <<job, userText>>
  BY DEF MakeTarget, At
<1>2. d.at \notin EndPlaces /\ ~At(c, "idle") /\ ~d.own
  BY <1>1, NothingMade
<1>3. CASE /\ Move(c, [d EXCEPT !.at = "cleanup", !.answer = "rejected"])
           /\ UNCHANGED rooms
  <2>1. Became([d EXCEPT !.at = "cleanup", !.answer = "rejected"], d,
               "cleanup", d.own, d.left, d.root, d.given, "rejected", d.by)
    BY CallFacts, CallForms, DispatchAssumption DEF SaveAnswers, DispatchPlaces
  <2>2. DispatchTypeOK
    BY DEF DispatchInv
  <2>3. CallIs(c, "cleanup", d.own, d.left, d.root, d.given, "rejected", d.by)
    BY <2>1, <2>2, <1>3, CallMoves
  <2>4. Allowed(c, "cleanup", d.own, d.left, d.root, d.given, "rejected", d.by)
    BY <1>2, UnderWay DEF Allowed, RoomStands, AnswerStands, EndPlaces
  <2> QED
    BY <2>3, <2>4, <1>1, <1>3, StepStands, CallFacts DEF RoomsStep, Exists
<1>4. CASE /\ rooms' = [rooms EXCEPT ![Room(c)] = "making"]
           /\ Move(c, [d EXCEPT !.at = "clone", !.own = TRUE])
  <2>1. "clone" \in PlacesOf(Kind(c)) /\ "clone" \in OwnPlaces(Kind(c))
    BY <1>1 DEF PlacesOf, OwnPlaces
  <2> QED
    BY <2>1, <1>1, <1>4, MadeStands DEF DispatchPlaces, EndPlaces, At
<1> QED
  BY <1>3, <1>4 DEF MakeTarget

LEMMA CloneStands ==
  ASSUME DispatchInv, NEW c \in Dispatchers, Clone(c)
  PROVE  DispatchInv'
<1>1. dispatch[c].at = "clone" /\ UNCHANGED <<job, userText>>
  BY DEF Clone, At
<1>2. dispatch[c].at \notin EndPlaces /\ ~At(c, "idle") /\ dispatch[c].own
  BY <1>1, UnderWay DEF EndPlaces, At
<1>3. CASE rooms' = [rooms EXCEPT ![Room(c)] = "ready"] /\ Go(c)
  <2>1. Kind(c) = "research"
    BY <1>1, <1>2, UnderWay, CallFacts DEF PlacesOf, Kinds, Isolated, Research
  <2>2. /\ Onward(c) = "scope" /\ "scope" \in PlacesOf(Kind(c))
        /\ "scope" \in OwnPlaces(Kind(c))
    BY <1>1, <2>1, OnwardIs DEF At, PlacesOf, OwnPlaces
  <2>3. /\ rooms' \in [Rooms -> {"absent", "making", "ready"}]
        /\ \A r \in Rooms : r # Room(c) => rooms'[r] = rooms[r]
    BY <1>3, CallFacts
  <2> QED
    BY <2>2, <2>3, <1>1, <1>2, <1>3, GoStands DEF DispatchPlaces, EndPlaces, Exists
<1>4. CASE Leave(c, "rejected") /\ UNCHANGED rooms
  BY <1>4, <1>1, <1>2, LeaveStands DEF SaveAnswers
<1> QED
  BY <1>3, <1>4 DEF Clone

LEMMA ReuseRoomStands ==
  ASSUME DispatchInv, NEW c \in Dispatchers, ReuseRoom(c)
  PROVE  DispatchInv'
<1>1. dispatch[c].at = "again" /\ UNCHANGED <<rooms, job, userText>>
  BY DEF ReuseRoom, At
<1>2. dispatch[c].at \notin EndPlaces /\ ~At(c, "idle") /\ ~dispatch[c].own
  BY <1>1, NothingMade
<1>3. CASE Go(c)
  <2>1. Onward(c) = "scope" /\ "scope" \in PlacesOf(Kind(c))
    BY <1>1, <1>2, UnderWay, OnwardIs, CallFacts
       DEF At, PlacesOf, Kinds, Isolated, Research
  <2> QED
    BY <2>1, <1>1, <1>2, <1>3, GoStands, CallFacts DEF DispatchPlaces, EndPlaces, Exists
<1>4. CASE Answered(c, "rejected")
  BY <1>4, <1>1, <1>2, AnsweredStands DEF SaveAnswers
<1> QED
  BY <1>3, <1>4 DEF ReuseRoom

LEMMA ScopeStands ==
  ASSUME DispatchInv, NEW c \in Dispatchers, Scope(c)
  PROVE  DispatchInv'
<1>1. dispatch[c].at = "scope" /\ UNCHANGED <<rooms, job, userText>>
  BY DEF Scope, At
<1>2. dispatch[c].at \notin EndPlaces /\ ~At(c, "idle")
  BY <1>1 DEF EndPlaces, At
<1>3. CASE Go(c)
  <2>1. Onward(c) = "service" /\ Onward(c) \in PlacesOf(Kind(c))
    BY <1>1, <1>2, UnderWay, OnwardIs, CallFacts
       DEF At, PlacesOf, Kinds, Isolated, Research
  <2>2. dispatch[c].own => Onward(c) \in OwnPlaces(Kind(c))
    BY <1>1, <1>2, <2>1, UnderWay, CallFacts
       DEF OwnPlaces, Kinds, Isolated, Research, EndPlaces
  <2> QED
    BY <2>1, <2>2, <1>1, <1>2, <1>3, GoStands, CallFacts
       DEF DispatchPlaces, EndPlaces, Exists
<1>4. CASE Leave(c, "rejected")
  BY <1>4, <1>1, <1>2, LeaveStands DEF SaveAnswers
<1> QED
  BY <1>3, <1>4 DEF Scope

LEMMA VerifyContextStands ==
  ASSUME DispatchInv, NEW c \in Dispatchers, VerifyContext(c)
  PROVE  DispatchInv'
<1>1. dispatch[c].at = "verify" /\ UNCHANGED <<rooms, job, userText>>
  BY DEF VerifyContext, At
<1>2. dispatch[c].at \notin EndPlaces /\ ~At(c, "idle") /\ ~dispatch[c].own
  BY <1>1, NothingMade
<1>3. CASE Go(c)
  <2>1. Onward(c) = "render" /\ "render" \in PlacesOf(Kind(c))
    BY <1>1, <1>2, UnderWay, OnwardIs, CallFacts
       DEF At, PlacesOf, Kinds, Isolated, Research
  <2> QED
    BY <2>1, <1>1, <1>2, <1>3, GoStands, CallFacts DEF DispatchPlaces, EndPlaces, Exists
<1>4. CASE Answered(c, "rejected")
  BY <1>4, <1>1, <1>2, AnsweredStands DEF SaveAnswers
<1> QED
  BY <1>3, <1>4 DEF VerifyContext

LEMMA RenderStands ==
  ASSUME DispatchInv, NEW c \in Dispatchers, Render(c)
  PROVE  DispatchInv'
<1> DEFINE d == dispatch[c]
<1>1. d.at = "render" /\ UNCHANGED <<rooms, job, userText>>
  BY DEF Render, At
<1>2. d.at \notin EndPlaces /\ ~At(c, "idle") /\ ~d.own
  BY <1>1, NothingMade
<1>3. Kind(c) = "read_only"
  BY <1>1, <1>2, UnderWay, CallFacts DEF PlacesOf, Kinds, Isolated, Research
<1>4. "launch" \in PlacesOf(Kind(c))
  BY <1>3 DEF PlacesOf
<1>5. CASE d.root = userText /\ Move(c, [d EXCEPT !.at = "launch", !.given = userText])
  <2>1. Became([d EXCEPT !.at = "launch", !.given = userText], d,
               "launch", d.own, d.left, d.root, userText, d.answer, d.by)
    BY CallFacts, CallForms, DispatchAssumption DEF SaveAnswers, DispatchPlaces
  <2>2. DispatchTypeOK
    BY DEF DispatchInv
  <2>3. CallIs(c, "launch", d.own, d.left, d.root, userText, d.answer, d.by)
    BY <2>1, <2>2, <1>5, CallMoves
  <2>4. Allowed(c, "launch", d.own, d.left, d.root, userText, d.answer, d.by)
    BY <1>2, <1>4, <1>5, UnderWay DEF Allowed, RoomStands, AnswerStands
  <2> QED
    BY <2>3, <2>4, <1>1, StepStands, CallFacts DEF RoomsStep, Exists
<1>6. CASE Answered(c, "rejected")
  BY <1>6, <1>1, <1>2, AnsweredStands DEF SaveAnswers
<1>7. CASE Go(c)
  <2>1. Onward(c) = "launch"
    BY <1>1, <1>3, OnwardIs DEF At
  <2> QED
    BY <2>1, <1>1, <1>2, <1>4, <1>7, GoStands, CallFacts
       DEF DispatchPlaces, EndPlaces, Exists
<1> QED
  BY <1>5, <1>6, <1>7 DEF Render

LEMMA CleanUpStands ==
  ASSUME DispatchInv, NEW c \in Dispatchers, CleanUp(c)
  PROVE  DispatchInv'
<1> DEFINE d == dispatch[c]
<1>1. d.at = "cleanup" /\ UNCHANGED <<job, userText>>
  BY DEF CleanUp, At
<1>2. CallSound(c, d, job[c]) /\ DispatchTypeOK
  BY DEF DispatchInv, CallsSound
<1>3. /\ ~At(c, "answered") /\ ~At(c, "dead") /\ ~d.left
      /\ d.own => d.at \in OwnPlaces(Kind(c))
      /\ d.answer # "replayed" => d.by = c
      /\ Kind(c) = "read_only" => d.given \in {0, d.root}
  BY <1>1, <1>2 DEF CallSound, At, Kind, Demand
<1>4. d.own => "answered" \in OwnPlaces(Kind(c))
  BY <1>3, CallFacts DEF OwnPlaces, EndPlaces, Kinds, Isolated, Research
<1>5. CASE /\ rooms' = [rooms EXCEPT ![Room(c)] = "absent"]
           /\ Move(c, [d EXCEPT !.at = "answered", !.own = FALSE])
  <2>1. Became([d EXCEPT !.at = "answered", !.own = FALSE], d,
               "answered", FALSE, d.left, d.root, d.given, d.answer, d.by)
    BY CallFacts, CallForms, DispatchAssumption DEF SaveAnswers, DispatchPlaces
  <2>2. CallIs(c, "answered", FALSE, d.left, d.root, d.given, d.answer, d.by)
    BY <2>1, <1>2, <1>5, CallMoves
  <2>3. /\ rooms' \in [Rooms -> {"absent", "making", "ready"}]
        /\ rooms'[Room(c)] = "absent"
        /\ \A r \in Rooms : r # Room(c) => rooms'[r] = rooms[r]
    BY <1>5, CallFacts
  <2>4. Allowed(c, "answered", FALSE, d.left, d.root, d.given, d.answer, d.by)
    BY <1>3, <2>3 DEF Allowed, RoomStands, AnswerStands, EndPlaces
  <2>5. RoomsStep(c, "answered", FALSE, d.left)
    BY <2>3 DEF RoomsStep, Exists
  <2> QED
    BY <2>2, <2>3, <2>4, <2>5, <1>1, StepStands, CallFacts
<1>6. CASE /\ Move(c, [d EXCEPT !.at = "answered", !.left = d.own])
           /\ UNCHANGED rooms
  <2>1. PICK b \in BOOLEAN : b = d.own
    BY CallFacts
  <2> DEFINE q == [d EXCEPT !.at = "answered", !.left = b]
  <2>2. Became(q, d, "answered", d.own, b, d.root, d.given, d.answer, d.by)
    <3>1. d \in CallType /\ "answered" \in DispatchPlaces
      BY CallFacts DEF DispatchPlaces
    <3>2. 1 \in 1 .. MaxSaves /\ 0 \in 0 .. MaxSaves /\ "none" \in SaveAnswers
      BY DispatchAssumption DEF SaveAnswers
    <3> QED
      BY <3>1, <3>2, CallForms, Zenon
  <2>3. Move(c, q)
    BY <2>1, <1>6
  <2> HIDE DEF q
  <2>4. CallIs(c, "answered", d.own, b, d.root, d.given, d.answer, d.by)
    BY <2>2, <2>3, <1>2, CallMoves
  <2>5. Allowed(c, "answered", d.own, b, d.root, d.given, d.answer, d.by)
    BY <2>1, <1>3, <1>4 DEF Allowed, RoomStands, AnswerStands, EndPlaces
  <2> QED
    BY <2>4, <2>5, <1>1, <1>6, StepStands, CallFacts DEF RoomsStep, Exists
<1> QED
  BY <1>5, <1>6 DEF CleanUp

LEMMA DieStands ==
  ASSUME DispatchInv, NEW c \in Dispatchers, Die(c)
  PROVE  DispatchInv'
<1> DEFINE d == dispatch[c]
<1>1. d.at \notin {"idle", "answered", "dead"} /\ UNCHANGED <<job, userText>>
  BY DEF Die
<1>2. CallSound(c, d, job[c]) /\ DispatchTypeOK
  BY DEF DispatchInv, CallsSound
<1>3. /\ ~At(c, "answered") /\ ~At(c, "dead") /\ ~d.left
      /\ d.own => d.at \in OwnPlaces(Kind(c))
      /\ d.answer # "replayed" => d.by = c
      /\ Kind(c) = "read_only" => d.given \in {0, d.root}
  BY <1>1, <1>2 DEF CallSound, At, Kind, Demand
<1>4. d.own => "dead" \in OwnPlaces(Kind(c))
  BY <1>3, CallFacts DEF OwnPlaces, EndPlaces, Kinds, Isolated, Research
<1>5. CASE UNCHANGED rooms /\ Move(c, [d EXCEPT !.at = "dead"])
  <2>1. Became([d EXCEPT !.at = "dead"], d,
               "dead", d.own, d.left, d.root, d.given, d.answer, d.by)
    BY CallFacts, CallForms, DispatchAssumption DEF SaveAnswers, DispatchPlaces
  <2>2. CallIs(c, "dead", d.own, d.left, d.root, d.given, d.answer, d.by)
    BY <2>1, <1>2, <1>5, CallMoves
  <2>3. Allowed(c, "dead", d.own, d.left, d.root, d.given, d.answer, d.by)
    BY <1>3, <1>4 DEF Allowed, RoomStands, AnswerStands, EndPlaces
  <2> QED
    BY <1>1, <1>5, <2>2, <2>3, StepStands, CallFacts DEF RoomsStep, Exists
<1>6. CASE HalfMade(c) /\ Move(c, [d EXCEPT !.at = "dead", !.own = TRUE])
  <2>1. Became([d EXCEPT !.at = "dead", !.own = TRUE], d,
               "dead", TRUE, d.left, d.root, d.given, d.answer, d.by)
    BY CallFacts, CallForms, DispatchAssumption DEF SaveAnswers, DispatchPlaces
  <2>2. CallIs(c, "dead", TRUE, d.left, d.root, d.given, d.answer, d.by)
    BY <2>1, <1>2, <1>6, CallMoves
  <2>3. "dead" \in OwnPlaces(Kind(c))
    BY <1>6 DEF HalfMade, OwnPlaces, EndPlaces, Isolated
  <2>4. Allowed(c, "dead", TRUE, d.left, d.root, d.given, d.answer, d.by)
    BY <1>3, <2>3 DEF Allowed, RoomStands, AnswerStands, EndPlaces
  <2>5. RoomsStep(c, "dead", TRUE, d.left)
    BY <1>6, HalfMadeRoom DEF RoomsStep, Exists
  <2> QED
    BY <1>1, <1>6, <2>2, <2>4, <2>5, HalfMadeRoom, StepStands, CallFacts
<1> QED
  BY <1>5, <1>6 DEF Die

\* The launch that makes the task: what the call held passes to it.
LEMMA CreatedStands ==
  ASSUME DispatchInv, NEW c \in Dispatchers, At(c, "launch"),
         job' = [job EXCEPT ![c] = [@ EXCEPT !.status = "running",
                                             !.given = dispatch[c].given]],
         Move(c, [dispatch[c] EXCEPT !.at = "answered", !.own = FALSE,
                                     !.answer = "created"]),
         UNCHANGED <<rooms, userText>>
  PROVE  DispatchInv'
<1> DEFINE d == dispatch[c]
           j == job[c]
<1>1. DispatchTypeOK /\ CallSound(c, d, j)
  BY DEF DispatchInv, CallsSound
<1>2. d.at \notin EndPlaces /\ ~At(c, "idle") /\ d.by = c /\ ~d.left
  BY UnderWay DEF At, EndPlaces
<1>3. Became([d EXCEPT !.at = "answered", !.own = FALSE, !.answer = "created"], d,
             "answered", FALSE, d.left, d.root, d.given, "created", d.by)
  BY CallFacts, CallForms, DispatchAssumption DEF SaveAnswers, DispatchPlaces
<1>4. CallIs(c, "answered", FALSE, d.left, d.root, d.given, "created", d.by)
  BY <1>1, <1>3, CallMoves
<1>5. /\ \A x \in Dispatchers \ {c} : dispatch'[x] = dispatch[x]
      /\ dispatch' \in [Dispatchers -> CallType]
      /\ dispatch'[c].demand = d.demand /\ dispatch'[c].room = d.room
      /\ dispatch'[c].at = "answered" /\ dispatch'[c].own = FALSE
      /\ dispatch'[c].left = FALSE /\ dispatch'[c].root = d.root
      /\ dispatch'[c].given = d.given /\ dispatch'[c].answer = "created"
      /\ dispatch'[c].by = c
  BY <1>2, <1>4 DEF CallIs, Became, CallType
<1>6. /\ job \in [Dispatchers -> JobType] /\ j \in JobType
  BY <1>1 DEF DispatchTypeOK
<1>7. LET q == [j EXCEPT !.status = "running", !.given = d.given] IN
      /\ q \in JobType /\ q.status = "running" /\ q.given = d.given
      /\ q.demand = j.demand /\ q.room = j.room /\ q.kept = j.kept
  BY <1>6, CallFacts, Zenon DEF JobType
<1>8. /\ job' \in [Dispatchers -> JobType]
      /\ \A x \in Dispatchers \ {c} : job'[x] = job[x]
      /\ job'[c].status = "running" /\ job'[c].given = d.given
      /\ job'[c].demand = j.demand /\ job'[c].room = j.room
      /\ job'[c].kept = j.kept
  BY <1>6, <1>7
<1>9. DispatchTypeOK'
  BY <1>1, <1>5, <1>8 DEF DispatchTypeOK
<1>10. JobSound(job'[c])
  BY <1>8 DEF JobSound, Fates
<1>11. CallSound(c, dispatch'[c], job'[c])
  <2>1. d.demand.kind = "read_only" => d.given \in {0, d.root}
    BY <1>2, UnderWay DEF Kind, Demand
  <2> QED
    BY <2>1, <1>1, <1>5, <1>8 DEF CallSound, EndPlaces
<1>12. CallsSound'
  <2>1. \A x \in Dispatchers : CallSound(x, dispatch'[x], job'[x]) /\ JobSound(job'[x])
    BY <1>5, <1>8, <1>10, <1>11, Zenon DEF DispatchInv, CallsSound
  <2> QED
    BY <2>1 DEF CallsSound
<1>13. ReplaysSound'
  <2>1. SUFFICES ASSUME NEW x \in Dispatchers, dispatch'[x].demand.kind = "read_only",
                        dispatch'[x].answer = "replayed"
                 PROVE  LET b == dispatch'[x].by IN
                          /\ job'[b].status # "none"
                          /\ dispatch'[b].demand.kind = "read_only"
                          /\ dispatch'[b].root = dispatch'[x].root
    BY DEF ReplaysSound, Kind, Demand
  <2>2. x # c /\ dispatch'[x] = dispatch[x]
    BY <2>1, <1>5
  <2>3. dispatch[x].by \in Dispatchers
    BY CallFacts
  <2>4. LET b == dispatch[x].by IN
          /\ job[b].status # "none"
          /\ dispatch[b].demand.kind = "read_only"
          /\ dispatch[b].root = dispatch[x].root
    BY <2>1, <2>2 DEF DispatchInv, ReplaysSound, Kind, Demand
  <2> QED
    BY <2>2, <2>3, <2>4, <1>5, <1>8
<1>14. RoomsAccounted'
  <2> SUFFICES ASSUME NEW r \in Rooms, Exists(r)
               PROVE  \/ \E x \in Dispatchers :
                           /\ dispatch'[x].room = r
                           /\ \/ dispatch'[x].own /\ dispatch'[x].at # "answered"
                              \/ dispatch'[x].left
                      \/ \E x \in Dispatchers :
                           /\ job'[x].room = r
                           /\ \/ job'[x].status = "running"
                              \/ job'[x].status # "none" /\ job'[x].kept
    BY DEF RoomsAccounted, Exists, Room, At
  <2>1. \/ \E x \in Dispatchers : /\ dispatch[x].room = r
                                  /\ \/ dispatch[x].own /\ dispatch[x].at # "answered"
                                     \/ dispatch[x].left
        \/ \E x \in Dispatchers : /\ job[x].room = r
                                  /\ \/ job[x].status = "running"
                                     \/ job[x].status # "none" /\ job[x].kept
    BY DEF DispatchInv, RoomsAccounted, Room, At
  <2>2. j.room = d.room
    BY CallFacts
  <2>3. CASE d.room = r
    BY <2>2, <2>3, <1>8
  <2>4. CASE d.room # r
    BY <2>1, <2>2, <2>4, <1>5, <1>8
  <2> QED
    BY <2>3, <2>4
<1> QED
  BY <1>9, <1>12, <1>13, <1>14 DEF DispatchInv

LEMMA LaunchStands ==
  ASSUME DispatchInv, NEW c \in Dispatchers, Launch(c)
  PROVE  DispatchInv'
<1>1. dispatch[c].at = "launch" /\ At(c, "launch") /\ UNCHANGED <<rooms, userText>>
  BY DEF Launch, At
<1>2. dispatch[c].at \notin EndPlaces /\ ~At(c, "idle")
  BY <1>1 DEF EndPlaces, At
<1>3. CASE /\ job' = [job EXCEPT ![c] = [@ EXCEPT !.status = "running",
                                                  !.given = dispatch[c].given]]
           /\ Move(c, [dispatch[c] EXCEPT !.at = "answered", !.own = FALSE,
                                          !.answer = "created"])
  BY <1>1, <1>3, CreatedStands
<1>4. ASSUME NEW b \in Bound(c), SameFingerprint(c, b), Replay(c, b), UNCHANGED job
      PROVE  DispatchInv'
  BY <1>1, <1>2, <1>4, ReplayStands DEF SameFingerprint
<1>5. CASE Leave(c, "conflict") /\ UNCHANGED job
  BY <1>1, <1>2, <1>5, LeaveStands DEF SaveAnswers
<1>6. CASE Leave(c, "rejected") /\ UNCHANGED job
  BY <1>1, <1>2, <1>6, LeaveStands DEF SaveAnswers
<1> QED
  BY <1>3, <1>4, <1>5, <1>6 DEF Launch

(***************************************************************************)
(* The steps of a task                                                     *)
(***************************************************************************)

\* What a task does to its room, no call being concerned.
LEMMA SettleStands ==
  ASSUME DispatchInv, NEW c \in Dispatchers, NEW kept \in BOOLEAN,
         NEW status \in {"retired", "unretired", "failing"} \cup Fates,
         job[c].status # "none", Settle(c, status, kept),
         job[c].demand.kind \notin Isolated => kept /\ status \in Fates,
         status = "retired" => ~kept,
         UNCHANGED <<dispatch, userText>>,
         rooms' \in [Rooms -> {"absent", "making", "ready"}],
         \A r \in Rooms : rooms'[r] # "absent" =>
           /\ Exists(r)
           /\ r = job[c].room => kept \/ (job[c].status # "running" /\ ~job[c].kept)
  PROVE  DispatchInv'
<1> DEFINE j == job[c]
<1>1. DispatchTypeOK /\ CallSound(c, dispatch[c], j)
  BY DEF DispatchInv, CallsSound
<1>2. job \in [Dispatchers -> JobType] /\ j \in JobType
  BY <1>1 DEF DispatchTypeOK
<1>3. LET q == [j EXCEPT !.status = status, !.kept = kept] IN
      /\ q \in JobType /\ q.status = status /\ q.kept = kept
      /\ q.demand = j.demand /\ q.room = j.room /\ q.given = j.given
  BY <1>2, Zenon DEF JobType
<1>4. job' = [job EXCEPT ![c] = [j EXCEPT !.status = status, !.kept = kept]]
  BY <1>2 DEF Settle, JobType
<1>5. /\ job' \in [Dispatchers -> JobType]
      /\ \A x \in Dispatchers \ {c} : job'[x] = job[x]
      /\ job'[c].status = status /\ job'[c].kept = kept
      /\ job'[c].demand = j.demand /\ job'[c].room = j.room
      /\ job'[c].given = j.given
  BY <1>2, <1>3, <1>4
<1>6. status # "none"
  BY DEF Fates
<1>7. DispatchTypeOK'
  BY <1>1, <1>5 DEF DispatchTypeOK
<1>8. JobSound(job'[c])
  BY <1>5 DEF JobSound
<1>9. CallSound(c, dispatch[c], job'[c])
  BY <1>1, <1>5, <1>6 DEF CallSound
<1>10. CallsSound'
  <2>1. \A x \in Dispatchers : CallSound(x, dispatch[x], job'[x]) /\ JobSound(job'[x])
    BY <1>5, <1>8, <1>9, Zenon DEF DispatchInv, CallsSound
  <2> QED
    BY <2>1 DEF CallsSound
<1>11. ReplaysSound'
  <2>1. \A x \in Dispatchers : job[x].status # "none" => job'[x].status # "none"
    BY <1>5, <1>6
  <2>2. \A x \in Dispatchers : dispatch[x].by \in Dispatchers
    BY CallFacts
  <2> QED
    BY <2>1, <2>2 DEF DispatchInv, ReplaysSound, Kind, Demand
<1>12. RoomsAccounted'
  <2> SUFFICES ASSUME NEW r \in Rooms, rooms'[r] # "absent"
               PROVE  \/ \E x \in Dispatchers :
                           /\ dispatch[x].room = r
                           /\ \/ dispatch[x].own /\ dispatch[x].at # "answered"
                              \/ dispatch[x].left
                      \/ \E x \in Dispatchers :
                           /\ job'[x].room = r
                           /\ \/ job'[x].status = "running"
                              \/ job'[x].status # "none" /\ job'[x].kept
    BY DEF RoomsAccounted, Exists, Room, At
  <2>1. Exists(r)
    OBVIOUS
  <2>2. r = j.room => kept \/ (j.status # "running" /\ ~j.kept)
    OBVIOUS
  <2>3. \/ \E x \in Dispatchers : /\ dispatch[x].room = r
                                  /\ \/ dispatch[x].own /\ dispatch[x].at # "answered"
                                     \/ dispatch[x].left
        \/ \E x \in Dispatchers : /\ job[x].room = r
                                  /\ \/ job[x].status = "running"
                                     \/ job[x].status # "none" /\ job[x].kept
    BY <2>1 DEF DispatchInv, RoomsAccounted, Room, At
  <2> QED
    BY <2>2, <2>3, <1>5, <1>6
<1> QED
  BY <1>7, <1>10, <1>11, <1>12 DEF DispatchInv

\* A task's own room is a room, and removing it touches no other.
LEMMA RemovedRoom ==
  ASSUME DispatchInv, NEW c \in Dispatchers,
         rooms' = [rooms EXCEPT ![job[c].room] = "absent"]
  PROVE  /\ rooms' \in [Rooms -> {"absent", "making", "ready"}]
         /\ \A r \in Rooms : rooms'[r] # "absent" => Exists(r) /\ r # job[c].room
<1>1. job[c].room \in Rooms
  BY CallFacts DEF Room
<1> QED
  BY <1>1, CallFacts DEF Exists

LEMMA RetireStands ==
  ASSUME DispatchInv, NEW c \in Dispatchers, Retire(c)
  PROVE  DispatchInv'
<1>1. /\ job[c].status = "running" /\ job[c].demand.kind \in Isolated
      /\ UNCHANGED <<dispatch, userText>>
  BY DEF Retire
<1>2. CASE /\ rooms' = [rooms EXCEPT ![job[c].room] = "absent"]
           /\ Settle(c, "retired", FALSE)
  BY <1>1, <1>2, RemovedRoom, SettleStands
<1>3. ASSUME NEW s \in {"unretired", "cancelled"}, Settle(c, s, TRUE), UNCHANGED rooms
      PROVE  DispatchInv'
  BY <1>1, <1>3, SettleStands, CallFacts DEF Exists, Fates
<1> QED
  BY <1>2, <1>3 DEF Retire

LEMMA EndJobStands ==
  ASSUME DispatchInv, NEW c \in Dispatchers, EndJob(c)
  PROVE  DispatchInv'
<1>1. UNCHANGED <<rooms, dispatch, userText>> /\ JobSound(job[c])
  BY CallFacts DEF EndJob
<1>2. ASSUME job[c].status = "retired", NEW s \in {"completed", "failing"},
             Settle(c, s, FALSE)
      PROVE  DispatchInv'
  <2>1. job[c].demand.kind \in Isolated /\ ~job[c].kept
    BY <1>1, <1>2 DEF JobSound, Fates
  <2> QED
    BY <2>1, <1>1, <1>2, SettleStands, CallFacts DEF Exists, Fates
<1>3. CASE job[c].status = "unretired" /\ Settle(c, "failing", TRUE)
  <2>1. job[c].demand.kind \in Isolated
    BY <1>1, <1>3 DEF JobSound, Fates
  <2> QED
    BY <2>1, <1>1, <1>3, SettleStands, CallFacts DEF Exists, Fates
<1>4. ASSUME job[c].status = "running", NEW s \in Fates, Settle(c, s, TRUE)
      PROVE  DispatchInv'
  BY <1>1, <1>4, SettleStands, CallFacts DEF Exists, Fates
<1> QED
  BY <1>2, <1>3, <1>4 DEF EndJob

LEMMA RetireAgainStands ==
  ASSUME DispatchInv, NEW c \in Dispatchers, RetireAgain(c)
  PROVE  DispatchInv'
<1>1. /\ job[c].status = "failing" /\ UNCHANGED <<dispatch, userText>>
      /\ JobSound(job[c])
  BY CallFacts DEF RetireAgain
<1>2. job[c].demand.kind \in Isolated
  BY <1>1 DEF JobSound, Fates
<1>3. CASE /\ rooms' = [rooms EXCEPT ![job[c].room] = "absent"]
           /\ Settle(c, "failed", FALSE)
  BY <1>1, <1>2, <1>3, RemovedRoom, SettleStands DEF Fates
<1>4. CASE Settle(c, "failed", Exists(job[c].room)) /\ UNCHANGED rooms
  <2>1. PICK kept \in BOOLEAN : kept = Exists(job[c].room)
    BY DEF Exists
  <2>2. Settle(c, "failed", kept)
    BY <2>1, <1>4
  <2>3. \A r \in Rooms : rooms'[r] # "absent" => Exists(r) /\ (r = job[c].room => kept)
    BY <2>1, <1>4 DEF Exists
  <2> QED
    BY <2>2, <2>3, <1>1, <1>2, <1>4, SettleStands, CallFacts DEF Fates
<1> QED
  BY <1>3, <1>4 DEF RetireAgain

(***************************************************************************)
(* The theorems                                                            *)
(***************************************************************************)

LEMMA RoomForIsARoom ==
  ASSUME NEW c \in Dispatchers, NEW d \in Demands
  PROVE  RoomFor(c, d) \in Rooms
<1>1. /\ d.kind \in Kinds /\ d.target \in Rooms
      /\ d.key \in DOMAIN RoomOfKey \cup {NoDemandKey}
  BY DispatchAssumption DEF DemandType
<1>2. d.kind = "patch" /\ d.key # NoDemandKey => RoomFor(c, d) = RoomOfKey[d.key]
  BY DEF RoomFor, Research
<1>3. d.kind \in Research => RoomFor(c, d) = d.target
  BY DEF RoomFor, Research
<1>4. d.kind \notin Research /\ ~(d.kind = "patch" /\ d.key # NoDemandKey) =>
        RoomFor(c, d) = FreshRoom[c]
  BY DEF RoomFor
<1> QED
  BY <1>1, <1>2, <1>3, <1>4, DispatchAssumption

LEMMA DispatchStarts == DispatchInit => DispatchInv
<1> SUFFICES ASSUME DispatchInit PROVE DispatchInv
  OBVIOUS
<1>1. PICK wants \in [Dispatchers -> Demands] :
        /\ dispatch = [c \in Dispatchers |->
             [at |-> "idle", demand |-> wants[c], room |-> RoomFor(c, wants[c]),
              own |-> FALSE, left |-> FALSE, root |-> 1, given |-> 0,
              answer |-> "none", by |-> c]]
        /\ job = [c \in Dispatchers |->
             [status |-> "none", demand |-> wants[c],
              room |-> RoomFor(c, wants[c]), given |-> 0, kept |-> FALSE]]
  BY DEF DispatchInit
<1>2. \A c \in Dispatchers : wants[c] \in Demands /\ RoomFor(c, wants[c]) \in Rooms
  BY RoomForIsARoom
<1>3. 1 \in 1 .. MaxSaves /\ 0 \in 0 .. MaxSaves
  BY DispatchAssumption
<1>4. dispatch \in [Dispatchers -> CallType]
  BY <1>1, <1>2, <1>3 DEF CallType, DispatchPlaces
<1>5. job \in [Dispatchers -> JobType]
  BY <1>1, <1>2, <1>3 DEF JobType
<1>6. DispatchTypeOK
  BY <1>3, <1>4, <1>5 DEF DispatchTypeOK, DispatchInit
<1>7. \A c \in Dispatchers : CallSound(c, dispatch[c], job[c]) /\ JobSound(job[c])
  BY <1>1, <1>2 DEF CallSound, JobSound, Fates
<1>8. CallsSound /\ ReplaysSound
  BY <1>1, <1>7 DEF CallsSound, ReplaysSound
<1>9. RoomsAccounted
  BY DEF RoomsAccounted, Exists, DispatchInit
<1> QED
  BY <1>6, <1>8, <1>9 DEF DispatchInv

LEMMA DispatchSteps == DispatchInv /\ [DispatchNext]_dispatchVars => DispatchInv'
<1> SUFFICES ASSUME DispatchInv, [DispatchNext]_dispatchVars PROVE DispatchInv'
  OBVIOUS
<1>1. ASSUME NEW c \in Dispatchers,
             \/ Begin(c) \/ Lookup(c) \/ Service(c) \/ CheckRoom(c)
             \/ MakeWorktree(c) \/ MakeTarget(c) \/ Clone(c) \/ ReuseRoom(c)
      PROVE  DispatchInv'
  BY <1>1, BeginStands, LookupStands, ServiceStands, CheckRoomStands,
     MakeWorktreeStands, MakeTargetStands, CloneStands, ReuseRoomStands
<1>2. ASSUME NEW c \in Dispatchers,
             \/ Scope(c) \/ VerifyContext(c) \/ Render(c) \/ Launch(c) \/ CleanUp(c)
             \/ Retire(c) \/ EndJob(c) \/ RetireAgain(c) \/ Die(c)
      PROVE  DispatchInv'
  BY <1>2, ScopeStands, VerifyContextStands, RenderStands, LaunchStands,
     CleanUpStands, RetireStands, EndJobStands, RetireAgainStands, DieStands
<1>3. ASSUME UNCHANGED <<rooms, dispatch, job>>, userText' \in 1 .. MaxSaves
      PROVE  DispatchInv'
  <2>1. DispatchTypeOK'
    BY <1>3 DEF DispatchInv, DispatchTypeOK
  <2>2. CallsSound'
    BY <1>3 DEF DispatchInv, CallsSound
  <2>3. ReplaysSound'
    BY <1>3 DEF DispatchInv, ReplaysSound, Kind, Demand
  <2>4. RoomsAccounted'
    BY <1>3 DEF DispatchInv, RoomsAccounted, Exists, Room, At
  <2> QED
    BY <2>1, <2>2, <2>3, <2>4 DEF DispatchInv
<1>4. CASE Save
  <2>1. userText' \in 1 .. MaxSaves
    BY <1>4, DispatchAssumption DEF Save, DispatchInv, DispatchTypeOK
  <2> QED
    BY <2>1, <1>3, <1>4 DEF Save
<1>5. CASE UNCHANGED dispatchVars
  BY <1>3, <1>5 DEF dispatchVars, DispatchInv, DispatchTypeOK
<1> QED
  BY <1>1, <1>2, <1>4, <1>5 DEF DispatchNext

\* The text of the prompt is the one the contract of the call names: of the call
\* that made the task by what is known of it, of one answered with it because it
\* asked for the same version.
LEMMA TextFrozen == DispatchInv => FrozenText
<1> SUFFICES ASSUME DispatchInv, NEW c \in Dispatchers, Kind(c) = "read_only",
                    dispatch[c].answer \in {"created", "replayed"}
             PROVE  job[dispatch[c].by].given \in {0, dispatch[c].root}
  BY DEF FrozenText
<1>1. \A x \in Dispatchers : CallSound(x, dispatch[x], job[x])
  BY DEF DispatchInv, CallsSound
<1>2. CASE dispatch[c].answer = "created"
  BY <1>1, <1>2 DEF CallSound, Kind, Demand
<1>3. CASE dispatch[c].answer = "replayed"
  <2>1. dispatch[c].by \in Dispatchers
    BY CallFacts
  <2>2. Kind(dispatch[c].by) = "read_only" /\ dispatch[dispatch[c].by].root = dispatch[c].root
    BY <1>3 DEF DispatchInv, ReplaysSound
  <2> QED
    BY <2>1, <2>2, <1>1 DEF CallSound, Kind, Demand
<1> QED
  BY <1>2, <1>3

\* What is known of every call and its task holds always, and the text a
\* read-only task is handed is the one its contract names.
THEOREM DispatchInvariant == DispatchSpec => [](DispatchInv /\ FrozenText)
<1>1. DispatchSpec => []DispatchInv
  BY DispatchStarts, DispatchSteps, PTL DEF DispatchSpec
<1> QED
  BY <1>1, TextFrozen, PTL

(***************************************************************************)
(* The tools                                                               *)
(***************************************************************************)

ToolCallType ==
  [at : {"asked", "hashing", "recording", "answered", "raised"}, tool : Tools,
   statement : Statements, arguments : Arguments, limit : 1 .. MaxLimit,
   answer : Answers]

\* What an answer that is given claims; of a digest, once it is taken.
AnswerTrue(c) ==
  c.answer.status = "succeeded" =>
    /\ c.answer.cut \/ \E i \in DOMAIN disks : Complete(c, disks[i])
    /\ c.tool # "stat" => c.answer.shown <= c.limit
    /\ c.statement \in {"select", "pragma_read"}

DigestTrue(c) ==
  c.answer.status = "succeeded" /\ c.tool = "sha256" =>
    c.answer.of \in DOMAIN disks /\ disks[c.answer.of].kind = "file"

\* The inductive invariant: an answer is true from when it is found, and on
\* record only when it is given.
ToolInv ==
  /\ disks \in Seq(Disks) /\ Len(disks) \in 1 .. MaxEdits + 1
  /\ toolCall \in ToolCallType
  /\ toolCall.tool = "query" \/ toolCall.statement = "select"
  /\ audit \in {"succeeded", "rejected", "failed", "none"}
  /\ toolCall.at # "asked" => AnswerTrue(toolCall)
  /\ toolCall.at \in {"recording", "answered"} => DigestTrue(toolCall)
  /\ toolCall.at = "hashing" => toolCall.tool = "sha256"
  /\ audit = IF toolCall.at = "answered" THEN toolCall.answer.status ELSE "none"

\* What the sums over rows are.
LEMMA SumToIs ==
  ASSUME NEW rows \in Seq(Nat), NEW k \in 0 .. Len(rows)
  PROVE  SumTo(rows, k) \in Nat /\ (k = 0 => SumTo(rows, k) = 0)
<1> DEFINE G == [i \in 1..k |-> [d \in Nat |-> d + rows[i]]]
           Is(sum) == sum = [i \in 0 .. k |-> IF i = 0 THEN 0 ELSE sum[i - 1] + rows[i]]
<1>1. k \in Nat /\ \A i \in 1..k : rows[i] \in Nat
  BY ElementOfSeq, LenProperties
<1>2. G \in [1..k -> [Nat -> Nat]] /\ \A i \in 1..k : \A d \in Nat : G[i][d] = d + rows[i]
  BY <1>1
<1>3. PICK f : Unwinds(f, k, Nat, 0, G)
  <2>1. k \in Nat /\ 0 \in Nat /\ G \in [1..k -> [Nat -> Nat]]
    BY <1>1, <1>2
  <2> HIDE DEF G
  <2> QED
    BY <2>1, Recursion
<1>4. ASSUME NEW i \in 1..k PROVE f[i] = f[i - 1] + rows[i]
  <2>1. i - 1 \in 0..k
    BY <1>1
  <2>2. f[i - 1] \in Nat
    BY <1>3, <2>1 DEF Unwinds
  <2> HIDE DEF G
  <2> QED
    BY <1>2, <1>3, <2>2 DEF Unwinds
<1>5. Is(f)
  <2> DEFINE e == [i \in 0..k |-> IF i = 0 THEN 0 ELSE f[i - 1] + rows[i]]
  <2>1. ASSUME NEW i \in 0..k PROVE f[i] = e[i]
    <3>1. CASE i = 0
      BY <1>3, <3>1 DEF Unwinds
    <3>2. CASE i # 0
      <4>1. i \in 1..k
        BY <1>1, <3>2
      <4>2. e[i] = f[i - 1] + rows[i]
        BY <3>2
      <4> HIDE DEF e
      <4> QED
        BY <1>4, <4>1, <4>2
    <3> QED
      BY <3>1, <3>2
  <2>2. DOMAIN e = 0..k /\ e = [i \in DOMAIN e |-> e[i]]
    OBVIOUS
  <2>3. f = [i \in 0..k |-> f[i]]
    BY <1>3 DEF Unwinds
  <2> HIDE DEF e
  <2>4. f = e
    BY <2>1, <2>2, <2>3
  <2> QED
    BY <2>4 DEF e
<1> DEFINE g == CHOOSE sum : Is(sum)
<1>6. Is(g)
  BY <1>5
<1>7. SumTo(rows, k) = g[k]
  BY DEF SumTo
<1> HIDE DEF g
<1>8. /\ DOMAIN g = 0..k /\ g[0] = 0
      /\ \A i \in 1..k : g[i] = g[i - 1] + rows[i]
  BY <1>1, <1>6
<1> DEFINE K == {n \in Nat : n <= k => g[n] \in Nat}
<1>9. 0 \in K
  BY <1>8
<1>10. ASSUME NEW n \in Nat, n \in K PROVE n + 1 \in K
  <2> SUFFICES ASSUME n + 1 <= k PROVE g[n + 1] \in Nat
    OBVIOUS
  <2>1. n <= k /\ n + 1 \in 1..k /\ (n + 1) - 1 = n
    BY <1>1
  <2>2. g[n] \in Nat /\ rows[n + 1] \in Nat
    BY <1>1, <1>10, <2>1
  <2>3. g[n + 1] = g[n] + rows[n + 1]
    BY <1>8, <2>1
  <2> QED
    BY <2>2, <2>3
<1>11. Nat \subseteq K
  <2> HIDE DEF K
  <2> QED
    BY <1>9, <1>10, NatSet
<1>12. g[k] \in Nat
  BY <1>1, <1>11
<1> QED
  BY <1>7, <1>8, <1>12

\* If no line has limit entries before it, there are no more than limit.
LEMMA FewEntries ==
  ASSUME NEW rows \in Seq(Nat), NEW limit \in Nat \ {0},
         \A i \in DOMAIN rows :
           ~(Cardinality({j \in Entries(rows) : j < i}) >= limit)
  PROVE  /\ IsFiniteSet(Entries(rows)) /\ Cardinality(Entries(rows)) \in Nat
         /\ Cardinality(Entries(rows)) <= limit
<1> DEFINE E == Entries(rows)
<1>1. DOMAIN rows = 1..Len(rows) /\ Len(rows) \in Nat
  BY LenProperties
<1>2. E \in SUBSET (1..Len(rows)) /\ IsFiniteSet(1..Len(rows))
  BY <1>1, FS_Interval DEF Entries
<1>3. IsFiniteSet(E) /\ Cardinality(E) \in Nat
  BY <1>2, FS_Subset, FS_CardinalityType
<1>4. CASE E = {}
  BY <1>4, FS_EmptySet
<1>5. CASE E # {}
  <2>1. PICK m \in E : \A l \in E : l <= m
    <3>1. E \subseteq 0..Len(rows)
      BY <1>1, <1>2
    <3> HIDE DEF E
    <3> QED
      BY <1>1, <1>5, <3>1, Greatest
  <2>2. {j \in E : j < m} = E \ {m} /\ m \in DOMAIN rows
    BY <1>1, <1>2, <2>1
  <2>3. Cardinality(E \ {m}) = Cardinality(E) - 1
    BY <1>3, <2>1, FS_RemoveElement
  <2>4. ~(Cardinality(E \ {m}) >= limit)
    BY <2>2
  <2> HIDE DEF E
  <2>5. Cardinality(E) <= limit
    BY <1>3, <2>3, <2>4
  <2> QED
    BY <1>3, <2>5 DEF E
<1> QED
  BY <1>3, <1>4, <1>5

\* The rows a query takes are as many as fit.
LEMMA MostFits ==
  ASSUME NEW rows \in Seq(Nat), NEW limit \in Nat \ {0}
  PROVE  LET fits == {k \in 0 .. Least(limit, Len(rows)) : SumTo(rows, k) <= limit}
             most == CHOOSE k \in fits : \A l \in fits : l <= k
         IN  most \in Nat /\ most <= limit /\ most <= Len(rows)
<1> DEFINE n == Least(limit, Len(rows))
           fits == {k \in 0 .. n : SumTo(rows, k) <= limit}
<1>1. Len(rows) \in Nat
  BY LenProperties
<1>2. n \in Nat /\ n <= limit /\ n <= Len(rows)
  BY <1>1 DEF Least
<1>3. SumTo(rows, 0) = 0
  BY <1>1, SumToIs
<1>4. 0 \in fits
  BY <1>2, <1>3
<1> HIDE DEF n
<1>5. fits \subseteq 0..n /\ fits # {}
  BY <1>4
<1>6. \E m \in fits : \A l \in fits : l <= m
  <2> HIDE DEF fits
  <2> QED
    BY <1>2, <1>5, Greatest
<1> DEFINE most == CHOOSE k \in fits : \A l \in fits : l <= k
<1>7. most \in fits
  BY <1>6
<1> HIDE DEF most
<1>8. most \in 0..n
  BY <1>5, <1>7
<1>9. most \in Nat /\ most <= limit /\ most <= Len(rows)
  BY <1>1, <1>2, <1>8
<1> QED
  BY <1>9 DEF most, fits, n

\* What a handler says is true of what it found, and within the limit.
LEMMA HandlerTrue ==
  ASSUME NEW c \in ToolCallType, NEW d \in Disks, NEW q,
         c.tool = "query" \/ c.statement = "select",
         q.tool = c.tool, q.answer = Handler(c, d)
  PROVE  /\ q.answer \in Answers
         /\ q.answer.status = "succeeded" =>
              /\ q.answer.cut \/ Complete(q, d)
              /\ c.tool # "stat" => q.answer.shown <= c.limit
              /\ c.statement \in {"select", "pragma_read"}
<1> DEFINE a == q.answer
           True == a \in Answers /\ (a.status = "succeeded" =>
                     /\ a.cut \/ Complete(q, d)
                     /\ c.tool # "stat" => a.shown <= c.limit
                     /\ c.statement \in {"select", "pragma_read"})
<1>1. /\ d.kind \in {"missing", "directory", "file", "repository", "database"}
      /\ d.size \in Nat /\ d.text \in BOOLEAN /\ d.rows \in Seq(Nat)
  BY ToolAssumption
<1>2. c.limit \in Nat \ {0} /\ c.tool \in Tools /\ c.statement \in Statements
  BY ToolAssumption DEF ToolCallType
<1>3. /\ Rejected \in Answers /\ Rejected.status = "rejected"
      /\ Failed \in Answers /\ Failed.status = "failed"
  BY DEF Answers, Statuses, Answer, Rejected, Failed
<1>4. ASSUME NEW n \in Nat, NEW b \in BOOLEAN
      PROVE  /\ Shown(n, b) \in Answers /\ Shown(n, b).status = "succeeded"
             /\ Shown(n, b).shown = n /\ Shown(n, b).cut = b
  BY DEF Answers, Statuses, Answer, Shown
<1>5. CASE c.tool = "list"
  <2>1. a = FilesystemList(d, c.limit)
    BY <1>5 DEF Handler
  <2>2. CASE d.kind # "directory"
    BY <1>3, <2>1, <2>2 DEF FilesystemList
  <2>3. CASE d.kind = "directory"
    <3> DEFINE n == Least(d.size, c.limit)
    <3>1. /\ n \in Nat /\ n <= c.limit /\ (d.size > c.limit) \in BOOLEAN
          /\ d.size > c.limit \/ n = d.size
      BY <1>1, <1>2 DEF Least
    <3>2. a = Shown(n, d.size > c.limit)
      BY <2>1, <2>3 DEF FilesystemList
    <3> DEFINE b == d.size > c.limit
    <3>9. b \in BOOLEAN /\ a = Shown(n, b)
      BY <3>1, <3>2
    <3> HIDE DEF n, b
    <3>8. /\ a \in Answers /\ a.shown = n /\ a.cut = b
      BY <1>4, <3>1, <3>9
    <3>3. /\ a \in Answers /\ a.shown = n /\ a.cut = (d.size > c.limit)
      BY <3>8 DEF b
    <3>4. d.size > c.limit \/ Complete(q, d)
      BY <1>5, <2>3, <3>1, <3>3 DEF Complete
    <3> QED
      BY <1>5, <3>1, <3>3, <3>4
  <2> QED
    BY <2>2, <2>3
<1>6. CASE c.tool = "stat"
  <2>1. a = FilesystemStat(d)
    BY <1>6 DEF Handler
  <2>2. CASE d.kind = "missing"
    BY <1>3, <2>1, <2>2 DEF FilesystemStat
  <2>3. CASE d.kind # "missing"
    <3> DEFINE n == IF d.kind = "file" THEN d.size ELSE 0
    <3>1. n \in Nat
      BY <1>1
    <3>2. a = Shown(n, FALSE)
      BY <2>1, <2>3 DEF FilesystemStat
    <3>3. a \in Answers /\ a.shown = n
      BY <1>4, <3>1, <3>2
    <3>4. Complete(q, d)
      BY <1>6, <3>3 DEF Complete
    <3> QED
      BY <1>6, <3>3, <3>4
  <2> QED
    BY <2>2, <2>3
<1>7. CASE c.tool = "sha256"
  <2>1. a = IF HashMayRead(d, c.limit) THEN Shown(d.size, FALSE) ELSE Rejected
    BY <1>7 DEF Handler
  <2>2. CASE ~HashMayRead(d, c.limit)
    BY <1>3, <2>1, <2>2
  <2>3. CASE HashMayRead(d, c.limit)
    <3>1. a \in Answers /\ a.shown = d.size
      BY <1>1, <1>4, <2>1, <2>3
    <3>2. d.kind = "file" /\ d.size <= c.limit
      BY <2>3 DEF HashMayRead
    <3>3. Complete(q, d)
      BY <1>7, <3>1, <3>2 DEF Complete
    <3> QED
      BY <1>7, <3>1, <3>2, <3>3
  <2> QED
    BY <2>2, <2>3
<1>8. CASE c.tool = "read_text"
  <2>1. a = ReadText(d, c.limit)
    BY <1>8 DEF Handler
  <2>2. CASE d.kind # "file" \/ d.size > c.limit \/ ~d.text
    BY <1>3, <2>1, <2>2 DEF ReadText
  <2>3. CASE ~(d.kind # "file" \/ d.size > c.limit \/ ~d.text)
    <3>1. a = Shown(d.size, FALSE)
      BY <2>1, <2>3 DEF ReadText
    <3>2. a \in Answers /\ a.shown = d.size
      BY <1>1, <1>4, <3>1
    <3>3. Complete(q, d)
      BY <1>8, <2>3, <3>2 DEF Complete
    <3>4. d.size <= c.limit
      BY <1>1, <1>2, <2>3
    <3> QED
      BY <1>8, <3>2, <3>3, <3>4
  <2> QED
    BY <2>2, <2>3
<1>9. CASE c.tool = "status"
  <2>1. a = GitStatus(d, c.limit)
    BY <1>9 DEF Handler
  <2>2. CASE d.kind # "repository"
    BY <1>3, <2>1, <2>2 DEF GitStatus
  <2>3. CASE d.kind = "repository"
    <3> DEFINE e == Cardinality(Entries(d.rows))
               n == Least(e, c.limit)
               b == \E i \in DOMAIN d.rows :
                      Cardinality({j \in Entries(d.rows) : j < i}) >= c.limit
    <3>1. a = Shown(n, b)
      BY <2>1, <2>3 DEF GitStatus
    <3>2. e \in Nat
      <4>1. DOMAIN d.rows = 1..Len(d.rows) /\ Len(d.rows) \in Nat
        BY <1>1, LenProperties
      <4>2. Entries(d.rows) \in SUBSET (1..Len(d.rows)) /\ IsFiniteSet(1..Len(d.rows))
        BY <4>1, FS_Interval DEF Entries
      <4> QED
        BY <4>2, FS_Subset, FS_CardinalityType
    <3>3. ~b => e <= c.limit
      BY <1>1, <1>2, FewEntries
    <3>4. b \in BOOLEAN
      OBVIOUS
    <3> HIDE DEF b, e
    <3>5. n \in Nat /\ n <= c.limit /\ (b \/ n = e)
      BY <1>2, <3>2, <3>3 DEF Least
    <3> HIDE DEF n
    <3>6. a \in Answers /\ a.shown = n /\ a.cut = b
      BY <1>4, <3>1, <3>4, <3>5
    <3>7. b \/ Complete(q, d)
      BY <1>9, <3>5, <3>6 DEF Complete, e
    <3>8. c.statement \in {"select", "pragma_read"}
      BY <1>9
    <3> QED
      BY <3>5, <3>6, <3>7, <3>8
  <2> QED
    BY <2>2, <2>3
<1>10. CASE c.tool = "diff"
  <2> DEFINE n == SumTo(d.rows, Len(d.rows))
  <2>1. a = GitDiff(d, c.limit)
    BY <1>10 DEF Handler
  <2>2. CASE d.kind # "repository"
    BY <1>3, <2>1, <2>2 DEF GitDiff
  <2>3. n \in Nat
    <3>1. Len(d.rows) \in 0..Len(d.rows)
      BY <1>1, LenProperties
    <3> QED
      BY <1>1, <3>1, SumToIs
  <2>4. CASE d.kind = "repository" /\ n > c.limit
    BY <1>3, <2>1, <2>4 DEF GitDiff
  <2>5. CASE d.kind = "repository" /\ ~(n > c.limit)
    <3>1. a = Shown(n, FALSE)
      BY <2>1, <2>5 DEF GitDiff
    <3>2. a \in Answers /\ a.shown = n
      BY <1>4, <2>3, <3>1
    <3>3. Complete(q, d)
      BY <1>10, <3>2 DEF Complete
    <3>4. n <= c.limit
      BY <1>2, <2>3, <2>5
    <3> QED
      BY <1>10, <3>2, <3>3, <3>4
  <2> QED
    BY <2>2, <2>4, <2>5
<1>11. CASE c.tool = "query"
  <2> DEFINE fits == {k \in 0 .. Least(c.limit, Len(d.rows)) : SumTo(d.rows, k) <= c.limit}
             most == CHOOSE k \in fits : \A l \in fits : l <= k
             no == \/ ~ShapeAllows(c.statement) \/ d.kind # "database"
                   \/ ~AuthorizerAllows(c.statement)
  <2>1. a = SqliteQuery(d, c.statement, c.limit)
    BY <1>11 DEF Handler
  <2>2. CASE no
    BY <1>3, <2>1, <2>2 DEF SqliteQuery
  <2>3. CASE ~no
    <3>1. a = Shown(most, most < Len(d.rows))
      BY <2>1, <2>3 DEF SqliteQuery
    <3>2. most \in Nat /\ most <= c.limit /\ most <= Len(d.rows)
      BY <1>1, <1>2, MostFits
    <3>3. Len(d.rows) \in Nat
      BY <1>1, LenProperties
    <3> DEFINE b == most < Len(d.rows)
    <3>7. b \in BOOLEAN /\ a = Shown(most, b) /\ (b \/ most = Len(d.rows))
      BY <3>1, <3>2, <3>3
    <3> HIDE DEF most, b
    <3>4. a \in Answers /\ a.shown = most /\ a.cut = b
      BY <1>4, <3>2, <3>7
    <3>5. a.cut \/ Complete(q, d)
      BY <1>11, <3>4, <3>7 DEF Complete
    <3>6. c.statement \in {"select", "pragma_read"}
      BY <1>2, <2>3 DEF ShapeAllows, AuthorizerAllows, Statements
    <3> QED
      BY <3>2, <3>4, <3>5, <3>6
  <2> QED
    BY <2>2, <2>3
<1>12. \/ c.tool = "list" \/ c.tool = "stat" \/ c.tool = "sha256"
       \/ c.tool = "read_text" \/ c.tool = "status" \/ c.tool = "diff"
       \/ c.tool = "query"
  BY <1>2 DEF Tools
<1> QED
  BY <1>5, <1>6, <1>7, <1>8, <1>9, <1>10, <1>11, <1>12, Zenon

\* What a call becomes.
LEMMA RecordingIs ==
  ASSUME toolCall \in ToolCallType, NEW answer \in Answers, Recording(answer)
  PROVE  /\ toolCall' \in ToolCallType /\ toolCall'.at = "recording"
         /\ toolCall'.answer = answer /\ toolCall'.tool = toolCall.tool
         /\ toolCall'.statement = toolCall.statement /\ toolCall'.limit = toolCall.limit
<1> DEFINE at == "recording"
           q == [toolCall EXCEPT !.at = at, !.answer = answer]
<1>1. toolCall' = q
  BY DEF Recording
<1>2. at \in {"asked", "hashing", "recording", "answered", "raised"}
  OBVIOUS
<1> HIDE DEF at
<1>3. /\ q \in ToolCallType /\ q.at = at /\ q.answer = answer
      /\ q.tool = toolCall.tool /\ q.statement = toolCall.statement
      /\ q.limit = toolCall.limit
  BY <1>2, Zenon DEF ToolCallType
<1> QED
  BY <1>1, <1>3 DEF at

LEMMA ToolCallGoes ==
  ASSUME toolCall \in ToolCallType,
         NEW at \in {"asked", "hashing", "recording", "answered", "raised"}
  PROVE  LET q == [toolCall EXCEPT !.at = at] IN
         /\ q \in ToolCallType /\ q.at = at /\ q.answer = toolCall.answer
         /\ q.tool = toolCall.tool /\ q.statement = toolCall.statement
         /\ q.limit = toolCall.limit
  BY Zenon DEF ToolCallType

LEMMA ToolStarts == ToolInit => ToolInv
<1> SUFFICES ASSUME ToolInit PROVE ToolInv
  OBVIOUS
<1>1. PICK d \in Disks : disks = <<d>>
  BY DEF ToolInit
<1>2. disks \in Seq(Disks) /\ Len(disks) \in 1 .. MaxEdits + 1
  BY <1>1, ToolAssumption
<1>3. Failed \in Answers
  BY DEF Failed, Answer, Answers, Statuses
<1>4. toolCall \in ToolCallType /\ toolCall.at = "asked"
  BY <1>3 DEF ToolInit, ToolCallType
<1> QED
  BY <1>2, <1>4 DEF ToolInit, ToolInv

\* A step that leaves the disks alone leaves true what was true of them; an
\* answer that is found is true of what is there.
LEMMA ToolSteps == ToolInv /\ [ToolNext]_toolVars => ToolInv'
<1> SUFFICES ASSUME ToolInv, [ToolNext]_toolVars PROVE ToolInv'
  OBVIOUS
<1>1. /\ disks \in Seq(Disks) /\ Len(disks) \in Nat \ {0}
      /\ toolCall \in ToolCallType
      /\ toolCall.tool = "query" \/ toolCall.statement = "select"
  BY ToolAssumption DEF ToolInv
<1>2. Held \in Disks /\ Len(disks) \in DOMAIN disks
  BY <1>1, LenProperties, ElementOfSeq DEF Held
<1>3. /\ Rejected \in Answers /\ Rejected.status # "succeeded"
      /\ Failed \in Answers /\ Failed.status # "succeeded"
  BY DEF Answers, Statuses, Answer, Rejected, Failed
<1>4. CASE Look
  <2>1. UNCHANGED <<disks, audit>> /\ toolCall.at = "asked"
    BY <1>4 DEF Look
  <2>2. ASSUME NEW a \in Answers, a.status # "succeeded", Recording(a) PROVE ToolInv'
    <3>1. /\ toolCall' \in ToolCallType /\ toolCall'.at = "recording"
          /\ toolCall'.answer = a /\ toolCall'.tool = toolCall.tool
          /\ toolCall'.statement = toolCall.statement
      BY <1>1, <2>2, RecordingIs
    <3> QED
      BY <2>1, <2>2, <3>1 DEF ToolInv, AnswerTrue, DigestTrue
  <2>3. ASSUME NEW at \in {"hashing", "recording"},
               toolCall' = [toolCall EXCEPT !.at = at,
                                            !.answer = Handler(toolCall, Held)],
               at = "hashing" <=> /\ toolCall.tool = "sha256"
                                  /\ Handler(toolCall, Held).status = "succeeded"
        PROVE  ToolInv'
    <3> DEFINE a == Handler(toolCall, Held)
    <3>1. a \in Answers
      <4> DEFINE q == [tool |-> toolCall.tool, answer |-> Handler(toolCall, Held)]
      <4>1. q.tool = toolCall.tool /\ q.answer = Handler(toolCall, Held)
        OBVIOUS
      <4> HIDE DEF q
      <4> QED
        BY <1>1, <1>2, <4>1, HandlerTrue
    <3>2. /\ toolCall' \in ToolCallType /\ toolCall'.at = at
          /\ toolCall'.answer = a /\ toolCall'.tool = toolCall.tool
          /\ toolCall'.statement = toolCall.statement /\ toolCall'.limit = toolCall.limit
      <4> HIDE DEF a
      <4>1. toolCall' = [toolCall EXCEPT !.at = at, !.answer = a]
        BY <2>3 DEF a
      <4> QED
        BY <1>1, <3>1, <4>1, Zenon DEF ToolCallType
    <3>3. a.status = "succeeded" =>
            /\ a.cut \/ Complete(toolCall', Held)
            /\ toolCall.tool # "stat" => a.shown <= toolCall.limit
            /\ toolCall.statement \in {"select", "pragma_read"}
      BY <1>1, <1>2, <3>2, HandlerTrue
    <3>4. disks[Len(disks)] = Held
      BY DEF Held
    <3> HIDE DEF a
    <3>5. AnswerTrue(toolCall')
      BY <1>2, <3>2, <3>3, <3>4 DEF AnswerTrue
    <3>6. AnswerTrue(toolCall)'
      BY <2>1, <3>5 DEF AnswerTrue, Complete
    <3>7. at = "recording" => DigestTrue(toolCall)'
      BY <2>3, <3>2 DEF DigestTrue, a
    <3>8. at = "hashing" => toolCall.tool = "sha256"
      BY <2>3
    <3> QED
      BY <2>1, <3>2, <3>6, <3>7, <3>8 DEF ToolInv
  <2>4. CASE toolCall.arguments # "fit" /\ Recording(Rejected)
    BY <1>3, <2>2, <2>4
  <2>5. CASE Recording(Failed)
    BY <1>3, <2>2, <2>5
  <2>6. CASE LET found == Handler(toolCall, Held)
             IN IF toolCall.tool = "sha256" /\ found.status = "succeeded"
                  THEN toolCall' = [toolCall EXCEPT !.at = "hashing", !.answer = found]
                  ELSE Recording(found)
    BY <2>3, <2>6 DEF Recording
  <2> QED
    BY <1>4, <2>4, <2>5, <2>6 DEF Look
<1>5. CASE Hash
  <2>1. UNCHANGED <<disks, audit>> /\ toolCall.at = "hashing" /\ toolCall.tool = "sha256"
    BY <1>5 DEF Hash, ToolInv
  <2>2. AnswerTrue(toolCall) /\ toolCall.answer \in Answers
    BY <1>1, <2>1 DEF ToolInv, ToolCallType
  <2>3. CASE Held.kind = "file"
    <3> DEFINE a == [toolCall.answer EXCEPT !.of = Len(disks)]
    <3>1. /\ a \in Answers /\ a.of = Len(disks) /\ a.status = toolCall.answer.status
          /\ a.cut = toolCall.answer.cut /\ a.shown = toolCall.answer.shown
      BY <1>1, <2>2 DEF Answers
    <3>2. Recording(a)
      BY <1>5, <2>3 DEF Hash
    <3> HIDE DEF a
    <3>3. /\ toolCall' \in ToolCallType /\ toolCall'.at = "recording"
          /\ toolCall'.answer = a /\ toolCall'.tool = toolCall.tool
          /\ toolCall'.statement = toolCall.statement /\ toolCall'.limit = toolCall.limit
      BY <1>1, <3>1, <3>2, RecordingIs
    <3>4. \A d \in Disks : Complete(toolCall, d) => Complete(toolCall', d)
      BY <3>1, <3>3 DEF Complete
    <3>5. \A i \in DOMAIN disks : disks[i] \in Disks
      BY <1>1, LenProperties, ElementOfSeq
    <3>6. AnswerTrue(toolCall')
      BY <2>2, <3>1, <3>3, <3>4, <3>5 DEF AnswerTrue
    <3>7. DigestTrue(toolCall')
      BY <1>2, <2>3, <3>1, <3>3 DEF DigestTrue, Held
    <3>8. AnswerTrue(toolCall)' /\ DigestTrue(toolCall)'
      BY <2>1, <3>6, <3>7 DEF AnswerTrue, DigestTrue, Complete
    <3> QED
      BY <2>1, <3>3, <3>8 DEF ToolInv
  <2>4. CASE Held.kind # "file"
    <3>1. Recording(Failed)
      BY <1>5, <2>4 DEF Hash
    <3>2. /\ toolCall' \in ToolCallType /\ toolCall'.at = "recording"
          /\ toolCall'.answer = Failed /\ toolCall'.tool = toolCall.tool
          /\ toolCall'.statement = toolCall.statement
      BY <1>1, <1>3, <3>1, RecordingIs
    <3> QED
      BY <1>3, <2>1, <3>2 DEF ToolInv, AnswerTrue, DigestTrue
  <2> QED
    BY <2>3, <2>4
<1>6. CASE Record
  <2>1. UNCHANGED disks /\ toolCall.at = "recording" /\ audit = "none"
    BY <1>6 DEF Record, ToolInv
  <2>2. AnswerTrue(toolCall) /\ DigestTrue(toolCall)
    BY <2>1 DEF ToolInv
  <2>3. toolCall.answer.status \in {"succeeded", "rejected", "failed"}
    BY <1>1 DEF ToolCallType, Answers, Statuses
  <2>4. ASSUME NEW at \in {"answered", "raised"},
               toolCall' = [toolCall EXCEPT !.at = at],
               audit' = IF at = "answered" THEN toolCall.answer.status ELSE "none"
        PROVE  ToolInv'
    <3>1. /\ toolCall' \in ToolCallType /\ toolCall'.at = at
          /\ toolCall'.answer = toolCall.answer /\ toolCall'.tool = toolCall.tool
          /\ toolCall'.statement = toolCall.statement /\ toolCall'.limit = toolCall.limit
      BY <1>1, <2>4, ToolCallGoes
    <3>2. AnswerTrue(toolCall)' /\ DigestTrue(toolCall)'
      BY <2>1, <2>2, <3>1 DEF AnswerTrue, DigestTrue, Complete
    <3> QED
      BY <2>1, <2>3, <2>4, <3>1, <3>2 DEF ToolInv
  <2> QED
    BY <1>6, <2>1, <2>4 DEF Record
<1>7. CASE Edit
  <2>1. PICK d \in Disks : disks' = Append(disks, d)
    BY <1>7 DEF Edit
  <2>2. UNCHANGED <<toolCall, audit>> /\ Len(disks) <= MaxEdits
    BY <1>7 DEF Edit
  <2>3. /\ disks' \in Seq(Disks) /\ Len(disks') = Len(disks) + 1
        /\ \A i \in 1..Len(disks) : disks'[i] = disks[i]
    BY <1>1, <2>1, AppendProperties
  <2>4. DOMAIN disks = 1..Len(disks) /\ DOMAIN disks' = 1..Len(disks')
    BY <1>1, <2>3, LenProperties
  <2>5. \A i \in DOMAIN disks : i \in DOMAIN disks' /\ disks'[i] = disks[i]
    BY <1>1, <2>3, <2>4
  <2>6. Len(disks') \in 1 .. MaxEdits + 1
    BY <1>1, <2>2, <2>3, ToolAssumption
  <2>7. /\ AnswerTrue(toolCall) => AnswerTrue(toolCall)'
        /\ DigestTrue(toolCall) => DigestTrue(toolCall)'
    BY <2>2, <2>5 DEF AnswerTrue, DigestTrue, Complete
  <2> QED
    BY <2>2, <2>3, <2>6, <2>7 DEF ToolInv
<1>8. CASE UNCHANGED toolVars
  BY <1>8 DEF toolVars, ToolInv, AnswerTrue, DigestTrue, Complete
<1> QED
  BY <1>4, <1>5, <1>6, <1>7, <1>8 DEF ToolNext

LEMMA ToolsTold == ToolInv => ToolTypeOK /\ ToolsTruthful
  BY DEF ToolInv, ToolTypeOK, ToolsTruthful, ToolCallType, Statuses, AnswerTrue, DigestTrue

(***************************************************************************)
(* The context                                                             *)
(*                                                                         *)
(* Sorting, adding up, cutting and flattening are recursions: each is the  *)
(* unwinding of its step, about which the proofs argue by induction.  The  *)
(* invariant then follows a call through its files: whatever a reader has  *)
(* read so far is what was registered, and what is left is the rest.       *)
(***************************************************************************)

\* The step of each recursion.
Sorting(fs) == [i \in 1..Len(FileOrder) |-> [d \in Seq(fs) |->
                  IF FileOrder[i] \in fs THEN Append(d, FileOrder[i]) ELSE d]]
Adding(entries, fs) == [i \in 1..Len(fs) |-> [d \in Nat |-> d + SizeOf[entries[fs[i]]]]]
Cutting(entries, limit, fs) ==
  [i \in 1..Len(fs) |-> [d \in Seq(Seq(DOMAIN entries)) |-> Join(d, fs[i], entries, limit)]]
Flattening(ss, S) == [i \in 1..Len(ss) |-> [d \in Seq(S) |-> d \o ss[i]]]

\* The files and their order.
LEMMA OrderType == Len(FileOrder) \in Nat /\ DOMAIN FileOrder = 1..Len(FileOrder)
  BY ContextAssumption, LenProperties

\* What is sorted is what the steps make of nothing.
LEMMA SortedUnwinds ==
  ASSUME NEW fs
  PROVE  \E f : /\ Unwinds(f, Len(FileOrder), Seq(fs), <<>>, Sorting(fs))
                /\ Sorted(fs) = f[Len(FileOrder)]
<1> DEFINE n == Len(FileOrder)
           D == Seq(fs)
           G == Sorting(fs)
           Is(h) == h = [i \in 0 .. Len(FileOrder) |->
                           IF i = 0 THEN <<>>
                           ELSE IF FileOrder[i] \in fs THEN Append(h[i - 1], FileOrder[i])
                           ELSE h[i - 1]]
           h == CHOOSE f : Is(f)
<1>1. n \in Nat /\ <<>> \in D
  BY OrderType
<1>2. ASSUME NEW i \in 1..n, NEW d \in D
      PROVE  /\ G[i][d] \in D
             /\ G[i][d] = IF FileOrder[i] \in fs THEN Append(d, FileOrder[i]) ELSE d
  BY DEF Sorting
<1>3. G \in [1..n -> [D -> D]]
  BY DEF Sorting
<1>4. PICK f : Unwinds(f, n, D, <<>>, G)
  <2> HIDE DEF n, D, G
  <2> QED
    BY <1>1, <1>3, Recursion
<1>5. Is(f)
  <2> DEFINE e == [i \in 0 .. n |->
                     IF i = 0 THEN <<>>
                     ELSE IF FileOrder[i] \in fs THEN Append(f[i - 1], FileOrder[i])
                     ELSE f[i - 1]]
  <2>1. ASSUME NEW i \in 1..n PROVE f[i - 1] \in D /\ e[i] = G[i][f[i - 1]]
    <3>1. f[i - 1] \in D
      <4>1. i - 1 \in 0..n
        BY <1>1
      <4> QED
        BY <1>4, <4>1 DEF Unwinds
    <3>2. i \in 0..n /\ i # 0
      BY <1>1
    <3>3. e[i] = IF FileOrder[i] \in fs THEN Append(f[i - 1], FileOrder[i]) ELSE f[i - 1]
      BY <3>2
    <3> HIDE DEF e, G, D, n
    <3> QED
      BY <1>2, <3>1, <3>3
  <2>2. e = [i \in 0..n |-> e[i]] /\ e[0] = <<>>
    BY <1>1
  <2> HIDE DEF e, G, D, n
  <2>3. f = e
    BY <1>1, <1>4, <2>1, <2>2, UnwindsIs
  <2> QED
    BY <2>3 DEF e, n
<1>6. Is(h)
  BY <1>5
<1>7. Sorted(fs) = h[n]
  BY DEF Sorted
<1> HIDE DEF h
<1>8. Unwinds(h, n, D, <<>>, G)
  <2>1. h = [i \in 0..n |-> h[i]] /\ h[0] = <<>>
    BY <1>1, <1>6
  <2>2. ASSUME NEW i \in 1..n, h[i - 1] \in D PROVE h[i] = G[i][h[i - 1]]
    <3>1. i \in 0..n /\ i # 0
      BY <1>1
    <3>2. h[i] = IF FileOrder[i] \in fs THEN Append(h[i - 1], FileOrder[i]) ELSE h[i - 1]
      BY <1>6, <3>1
    <3> HIDE DEF G, D, n
    <3> QED
      BY <1>2, <2>2, <3>2
  <2> HIDE DEF G, D, n
  <2> QED
    BY <1>1, <1>3, <2>1, <2>2, Unwound
<1> QED
  BY <1>7, <1>8

\* What is sorted is in the set, and the other way round.
LEMMA SortedFacts ==
  ASSUME NEW fs \in SUBSET ContextFiles
  PROVE  /\ Sorted(fs) \in Seq(fs)
         /\ \A f \in fs : \E j \in 1..Len(Sorted(fs)) : Sorted(fs)[j] = f
<1> DEFINE n == Len(FileOrder)
<1>1. PICK up : /\ Unwinds(up, n, Seq(fs), <<>>, Sorting(fs))
                /\ Sorted(fs) = up[n]
  BY SortedUnwinds
<1>2. n \in Nat /\ \A f \in fs : \E i \in 1..n : FileOrder[i] = f
  BY OrderType DEF ContextFiles
<1> HIDE DEF n
<1>3. \A i \in 0..n : up[i] \in Seq(fs)
  BY <1>1 DEF Unwinds
<1> DEFINE Has(k) == \A i \in 1..k : FileOrder[i] \in fs =>
                       \E j \in 1..Len(up[k]) : up[k][j] = FileOrder[i]
           K == {k \in Nat : k <= n => Has(k)}
<1>4. 0 \in K
  OBVIOUS
<1>5. ASSUME NEW k \in Nat, k \in K PROVE k + 1 \in K
  <2> SUFFICES ASSUME k + 1 <= n PROVE Has(k + 1)
    OBVIOUS
  <2>1. k + 1 \in 1..n /\ (k + 1) - 1 = k /\ up[k] \in Seq(fs) /\ Has(k)
    BY <1>2, <1>3, <1>5
  <2>2. up[k + 1] = Sorting(fs)[k + 1][up[k]]
    BY <1>1, <2>1 DEF Unwinds
  <2>3. up[k + 1] = IF FileOrder[k + 1] \in fs THEN Append(up[k], FileOrder[k + 1])
                    ELSE up[k]
    BY <2>1, <2>2 DEF Sorting, n
  <2>4. CASE FileOrder[k + 1] \notin fs
    <3>1. \A i \in 1..(k + 1) : FileOrder[i] \in fs => i \in 1..k
      BY <2>4
    <3> QED
      BY <2>1, <2>3, <2>4, <3>1
  <2>5. CASE FileOrder[k + 1] \in fs
    <3> DEFINE a == Append(up[k], FileOrder[k + 1])
    <3>1. /\ Len(a) = Len(up[k]) + 1 /\ a[Len(up[k]) + 1] = FileOrder[k + 1]
          /\ \A j \in 1..Len(up[k]) : a[j] = up[k][j]
          /\ Len(up[k]) \in Nat
      BY <2>1, <2>5, AppendProperties, LenProperties
    <3>2. up[k + 1] = a
      BY <2>3, <2>5
    <3> HIDE DEF a
    <3>3. ASSUME NEW i \in 1..(k + 1), FileOrder[i] \in fs
          PROVE  \E j \in 1..Len(a) : a[j] = FileOrder[i]
      <4>1. CASE i = k + 1
        <5>1. Len(up[k]) + 1 \in 1..Len(a)
          BY <3>1
        <5> QED
          BY <3>1, <4>1, <5>1
      <4>2. CASE i # k + 1
        <5>1. i \in 1..k
          BY <4>2
        <5>2. PICK j \in 1..Len(up[k]) : up[k][j] = FileOrder[i]
          BY <2>1, <3>3, <5>1
        <5>3. j \in 1..Len(a)
          BY <3>1
        <5> QED
          BY <3>1, <5>2, <5>3
      <4> QED
        BY <4>1, <4>2
    <3> QED
      BY <3>2, <3>3
  <2> QED
    BY <2>4, <2>5
<1>6. Nat \subseteq K
  <2> HIDE DEF K
  <2> QED
    BY <1>4, <1>5, NatSet
<1>7. n \in 0..n /\ Has(n)
  BY <1>2, <1>6
<1> QED
  BY <1>1, <1>2, <1>3, <1>7

\* A size is what the steps add up.
LEMMA SizeOnUnwinds ==
  ASSUME NEW F, NEW entries \in [F -> Contents], NEW fs \in Seq(F)
  PROVE  \E f : /\ Unwinds(f, Len(fs), Nat, 0, Adding(entries, fs))
                /\ SizeOn(entries, fs) = f[Len(fs)]
<1> DEFINE n == Len(fs)
           D == Nat
           G == Adding(entries, fs)
           Is(h) == h = [i \in 0 .. Len(fs) |->
                           IF i = 0 THEN 0 ELSE h[i - 1] + SizeOf[entries[fs[i]]]]
           h == CHOOSE f : Is(f)
<1>1. n \in Nat /\ 0 \in D
  BY LenProperties
<1>9. \A i \in 1..n : SizeOf[entries[fs[i]]] \in Nat
  <2>1. n \in Nat /\ \A i \in 1..n : fs[i] \in F
    BY ElementOfSeq, LenProperties
  <2>2. \A x \in Contents : SizeOf[x] \in Nat
    BY ContextAssumption
  <2> QED
    BY <2>1, <2>2
<1>2. ASSUME NEW i \in 1..n, NEW d \in D
      PROVE  G[i][d] \in D /\ G[i][d] = d + SizeOf[entries[fs[i]]]
  BY <1>1, <1>9 DEF Adding
<1>3. G \in [1..n -> [D -> D]]
  BY <1>1, <1>9 DEF Adding
<1>4. PICK f : Unwinds(f, n, D, 0, G)
  <2> HIDE DEF n, D, G
  <2> QED
    BY <1>1, <1>3, Recursion
<1>5. Is(f)
  <2> DEFINE e == [i \in 0 .. n |->
                     IF i = 0 THEN 0 ELSE f[i - 1] + SizeOf[entries[fs[i]]]]
  <2>1. ASSUME NEW i \in 1..n PROVE e[i] = G[i][f[i - 1]]
    <3>1. f[i - 1] \in D
      <4>1. i - 1 \in 0..n
        BY <1>1
      <4> QED
        BY <1>4, <4>1 DEF Unwinds
    <3>2. i \in 0..n /\ i # 0
      BY <1>1
    <3>3. e[i] = f[i - 1] + SizeOf[entries[fs[i]]]
      BY <3>2
    <3> HIDE DEF e, G, D, n
    <3> QED
      BY <1>2, <3>1, <3>3
  <2>2. e = [i \in 0..n |-> e[i]] /\ e[0] = 0
    BY <1>1
  <2> DEFINE none == 0
  <2>4. Unwinds(f, n, D, none, G) /\ e[0] = none
    BY <1>4, <2>2
  <2> HIDE DEF e, G, D, n, none
  <2>3. f = e
    BY <1>1, <2>1, <2>2, <2>4, UnwindsIs
  <2> QED
    BY <2>3 DEF e, n
<1>6. Is(h)
  BY <1>5
<1>7. SizeOn(entries, fs) = h[n]
  BY DEF SizeOn
<1> HIDE DEF h
<1>8. Unwinds(h, n, D, 0, G)
  <2>1. h = [i \in 0..n |-> h[i]] /\ h[0] = 0
    BY <1>1, <1>6
  <2>2. ASSUME NEW i \in 1..n, h[i - 1] \in D PROVE h[i] = G[i][h[i - 1]]
    <3>1. i \in 0..n /\ i # 0
      BY <1>1
    <3>2. h[i] = h[i - 1] + SizeOf[entries[fs[i]]]
      BY <1>6, <3>1
    <3> HIDE DEF G, D, n
    <3> QED
      BY <1>2, <2>2, <3>2
  <2> HIDE DEF G, D, n
  <2> QED
    BY <1>1, <1>3, <2>1, <2>2, Unwound
<1> QED
  BY <1>7, <1>8

\* A size is a number, and a single file fits.
LEMMA SizeFacts ==
  ASSUME NEW F, NEW entries \in [F -> Contents], NEW fs \in Seq(F)
  PROVE  /\ SizeOn(entries, fs) \in Nat
         /\ Len(fs) = 1 => SizeOn(entries, fs) <= MaxTotal
<1>1. PICK f : /\ Unwinds(f, Len(fs), Nat, 0, Adding(entries, fs))
               /\ SizeOn(entries, fs) = f[Len(fs)]
  BY SizeOnUnwinds
<1>2. Len(fs) \in Nat /\ Len(fs) \in 0..Len(fs)
  BY LenProperties
<1>3. SizeOn(entries, fs) \in Nat
  BY <1>1, <1>2 DEF Unwinds
<1>4. CASE Len(fs) = 1
  <2>1. fs[1] \in F /\ entries[fs[1]] \in Contents
    BY <1>4, ElementOfSeq
  <2>2. SizeOf[entries[fs[1]]] \in Nat /\ SizeOf[entries[fs[1]]] <= MaxTotal
    BY <2>1, ContextAssumption
  <2>3. 1 \in 1..Len(fs) /\ f[0] = 0 /\ f[1] = Adding(entries, fs)[1][f[0]]
    BY <1>1, <1>4 DEF Unwinds
  <2>4. Adding(entries, fs)[1][0] = 0 + SizeOf[entries[fs[1]]]
    BY <2>3 DEF Adding
  <2> QED
    BY <1>1, <1>3, <1>4, <2>2, <2>3, <2>4
<1> QED
  BY <1>3, <1>4

\* Joining keeps sequences of files.
LEMMA JoinType ==
  ASSUME NEW F, NEW entries \in [F -> Contents], NEW d \in Seq(Seq(F)), NEW x \in F,
         NEW limit
  PROVE  Join(d, x, entries, limit) \in Seq(Seq(F))
<1>1. Len(d) \in Nat /\ DOMAIN d = 1..Len(d) /\ <<x>> \in Seq(F)
  BY LenProperties
<1>2. CASE Len(d) = 0
  <2>1. Join(d, x, entries, limit) = Append(d, <<x>>)
    BY <1>2 DEF Join
  <2> QED
    BY <1>1, <2>1, AppendProperties
<1>3. CASE Len(d) # 0
  <2> DEFINE n == Len(d)
  <2>1. n \in 1..Len(d) /\ d[n] \in Seq(F)
    BY <1>1, <1>3, ElementOfSeq
  <2>2. Append(d[n], x) \in Seq(F)
    BY <2>1, AppendProperties
  <2>3. [d EXCEPT ![n] = Append(d[n], x)] \in Seq(Seq(F))
    BY <2>1, <2>2, ExceptSeq
  <2>4. Append(d, <<x>>) \in Seq(Seq(F))
    BY <1>1, AppendProperties
  <2> QED
    BY <2>3, <2>4 DEF Join
<1> QED
  BY <1>2, <1>3

\* Segments are what the files make one after the other.
LEMMA CutUnwinds ==
  ASSUME NEW F \in SUBSET ContextFiles, NEW entries \in [F -> Contents], NEW limit
  PROVE  \E f : /\ Unwinds(f, Len(Sorted(F)), Seq(Seq(F)), <<>>,
                           Cutting(entries, limit, Sorted(F)))
                /\ Segments(entries, limit) = f[Len(Sorted(F))]
<1> DEFINE fs == Sorted(F)
           n == Len(fs)
           D == Seq(Seq(F))
           G == Cutting(entries, limit, fs)
           Is(h) == h = [i \in 0 .. Len(fs) |->
                           IF i = 0 THEN <<>> ELSE Join(h[i - 1], fs[i], entries, limit)]
           h == CHOOSE f : Is(f)
<1>a. DOMAIN entries = F /\ fs \in Seq(F)
  BY SortedFacts
<1>1. n \in Nat /\ <<>> \in D
  BY <1>a, LenProperties
<1>9. \A i \in 1..n : fs[i] \in F
  BY <1>a, ElementOfSeq
<1> HIDE DEF fs
<1>2. ASSUME NEW i \in 1..n, NEW d \in D
      PROVE  G[i][d] \in D /\ G[i][d] = Join(d, fs[i], entries, limit)
  <2>1. Join(d, fs[i], entries, limit) \in D
    BY <1>9, JoinType
  <2> QED
    BY <1>a, <2>1 DEF Cutting
<1>3. G \in [1..n -> [D -> D]]
  <2>1. G = [i \in 1..n |-> [d \in D |-> Join(d, fs[i], entries, limit)]]
    BY <1>a DEF Cutting
  <2>2. \A i \in 1..n : \A d \in D : Join(d, fs[i], entries, limit) \in D
    BY <1>9, JoinType
  <2> HIDE DEF G, D, n
  <2> QED
    BY <2>1, <2>2
<1>4. PICK f : Unwinds(f, n, D, <<>>, G)
  <2> HIDE DEF n, D, G
  <2> QED
    BY <1>1, <1>3, Recursion
<1>5. Is(f)
  <2> DEFINE e == [i \in 0 .. n |->
                     IF i = 0 THEN <<>> ELSE Join(f[i - 1], fs[i], entries, limit)]
  <2>1. ASSUME NEW i \in 1..n PROVE e[i] = G[i][f[i - 1]]
    <3>1. f[i - 1] \in D
      <4>1. i - 1 \in 0..n
        BY <1>1
      <4> QED
        BY <1>4, <4>1 DEF Unwinds
    <3>2. i \in 0..n /\ i # 0
      BY <1>1
    <3>3. e[i] = Join(f[i - 1], fs[i], entries, limit)
      BY <3>2
    <3> HIDE DEF e, G, D, n
    <3> QED
      BY <1>2, <3>1, <3>3
  <2>2. e = [i \in 0..n |-> e[i]] /\ e[0] = <<>>
    BY <1>1
  <2> HIDE DEF e, G, D, n
  <2>3. f = e
    BY <1>1, <1>4, <2>1, <2>2, UnwindsIs
  <2> QED
    BY <2>3 DEF e, n
<1>6. Is(h)
  BY <1>5
<1>7. Segments(entries, limit) = h[n]
  BY <1>a DEF Segments, fs
<1> HIDE DEF h
<1>8. Unwinds(h, n, D, <<>>, G)
  <2>1. h = [i \in 0..n |-> h[i]] /\ h[0] = <<>>
    BY <1>1, <1>6
  <2>2. ASSUME NEW i \in 1..n, h[i - 1] \in D PROVE h[i] = G[i][h[i - 1]]
    <3>1. i \in 0..n /\ i # 0
      BY <1>1
    <3>2. h[i] = Join(h[i - 1], fs[i], entries, limit)
      BY <1>6, <3>1
    <3> HIDE DEF G, D, n
    <3> QED
      BY <1>2, <2>2, <3>2
  <2> HIDE DEF G, D, n
  <2> QED
    BY <1>1, <1>3, <2>1, <2>2, Unwound
<1> QED
  BY <1>7, <1>8 DEF fs

\* And so is the whole of some sequences.
LEMMA FlatUnwinds ==
  ASSUME NEW S, NEW ss \in Seq(Seq(S))
  PROVE  \E f : /\ Unwinds(f, Len(ss), Seq(S), <<>>, Flattening(ss, S))
                /\ FlattenSeq(ss) = f[Len(ss)]
<1> DEFINE n == Len(ss)
           D == Seq(S)
           G == Flattening(ss, S)
           Is(h) == h = [i \in 1 .. Len(ss) |->
                           IF i = 1 THEN ss[i] ELSE h[i - 1] \o ss[i]]
           h == CHOOSE f : Is(f)
           e == [i \in 0..n |-> IF i = 0 THEN <<>> ELSE h[i]]
<1>1. n \in Nat /\ <<>> \in D /\ \A i \in 1..n : ss[i] \in D
  BY LenProperties, ElementOfSeq
<1>2. ASSUME NEW i \in 1..n, NEW d \in D
      PROVE  G[i][d] \in D /\ G[i][d] = d \o ss[i]
  BY <1>1, ConcatProperties DEF Flattening
<1>3. G \in [1..n -> [D -> D]]
  BY <1>1, ConcatProperties DEF Flattening
<1>4. PICK f : Unwinds(f, n, D, <<>>, G)
  <2>1. n \in Nat /\ <<>> \in D
    BY <1>1
  <2> HIDE DEF n, D, G
  <2> QED
    BY <1>3, <2>1, Recursion
<1>5. ASSUME n # 0 PROVE Is(h)
  <2> DEFINE g == [i \in 1..n |-> f[i]]
             t == [i \in 1 .. n |-> IF i = 1 THEN ss[i] ELSE g[i - 1] \o ss[i]]
  <2>1. ASSUME NEW i \in 1..n PROVE g[i] = t[i]
    <3>1. i - 1 \in 0..n
      BY <1>1
    <3>2. f[i - 1] \in D /\ f[i] = G[i][f[i - 1]] /\ f[0] = <<>>
      BY <1>4, <3>1 DEF Unwinds
    <3>3. f[i] = f[i - 1] \o ss[i]
      <4> HIDE DEF G, D, n
      <4> QED
        BY <1>2, <3>2
    <3>4. CASE i = 1
      <4>4. f[i - 1] = <<>>
        BY <3>2, <3>4
      <4>1. f[i] = <<>> \o ss[i]
        BY <3>3, <4>4
      <4>2. ss[i] \in Seq(S)
        BY <1>1
      <4>3. <<>> \o ss[i] = ss[i]
        BY <4>2, ConcatEmptySeq
      <4> QED
        BY <3>4, <4>1, <4>3
    <3>5. CASE i # 1
      <4>1. i - 1 \in 1..n
        BY <1>1, <3>5
      <4> QED
        BY <3>3, <3>5, <4>1
    <3> QED
      BY <3>4, <3>5
  <2>2. g = [i \in 1..n |-> g[i]] /\ t = [i \in 1..n |-> t[i]]
    OBVIOUS
  <2> HIDE DEF g, t
  <2>3. g = t
    BY <2>1, <2>2
  <2>4. Is(g)
    BY <2>3 DEF t
  <2> QED
    BY <2>4
<1>6. FlattenSeq(ss) = e[n]
  <2>1. CASE n = 0
    <3>1. ss = <<>>
      BY <2>1, EmptySeq
    <3> QED
      BY <2>1, <3>1 DEF FlattenSeq
  <2>2. CASE n # 0
    <3>1. n \in 0..n
      BY <1>1
    <3>2. e[n] = h[n]
      BY <2>2, <3>1
    <3> QED
      BY <2>2, <3>2 DEF FlattenSeq
  <2> QED
    BY <2>1, <2>2
<1> HIDE DEF h
<1>7. Unwinds(e, n, D, <<>>, G)
  <2>1. e = [i \in 0..n |-> e[i]] /\ e[0] = <<>>
    BY <1>1
  <2>2. ASSUME NEW i \in 1..n, e[i - 1] \in D PROVE e[i] = G[i][e[i - 1]]
    <3>1. e[i] = h[i] /\ n # 0 /\ e[0] = <<>>
      BY <1>1
    <3>2. h[i] = IF i = 1 THEN ss[i] ELSE h[i - 1] \o ss[i]
      BY <1>5, <3>1
    <3>3. G[i][e[i - 1]] = e[i - 1] \o ss[i]
      <4> HIDE DEF G, D, n, e
      <4> QED
        BY <1>2, <2>2
    <3>4. CASE i = 1
      <4>1. e[i - 1] = <<>>
        BY <3>1, <3>4
      <4>2. ss[i] \in Seq(S)
        BY <1>1
      <4>3. <<>> \o ss[i] = ss[i]
        BY <4>2, ConcatEmptySeq
      <4> QED
        BY <3>1, <3>2, <3>3, <3>4, <4>1, <4>3
    <3>5. CASE i # 1
      <4>1. i - 1 \in 0..n /\ i - 1 # 0
        BY <1>1, <3>5
      <4>2. e[i - 1] = h[i - 1]
        BY <4>1
      <4> QED
        BY <3>1, <3>2, <3>3, <3>5, <4>2
    <3> QED
      BY <3>4, <3>5
  <2>3. n \in Nat /\ <<>> \in D
    BY <1>1
  <2> HIDE DEF G, D, n, e
  <2> QED
    BY <1>3, <2>1, <2>2, <2>3, Unwound
<1> QED
  BY <1>6, <1>7

\* What a sequence more adds to the whole.
LEMMA FlatAppend ==
  ASSUME NEW S, NEW ss \in Seq(Seq(S)), NEW s \in Seq(S)
  PROVE  /\ FlattenSeq(ss) \in Seq(S)
         /\ FlattenSeq(Append(ss, s)) = FlattenSeq(ss) \o s
<1> DEFINE n == Len(ss)
           tt == Append(ss, s)
           D == Seq(S)
<1>1. n \in Nat /\ <<>> \in D
  BY LenProperties
<1>2. /\ tt \in Seq(Seq(S)) /\ Len(tt) = n + 1 /\ tt[n + 1] = s
      /\ \A i \in 1..n : tt[i] = ss[i]
  BY AppendProperties
<1>3. PICK f : /\ Unwinds(f, n, D, <<>>, Flattening(ss, S))
               /\ FlattenSeq(ss) = f[n]
  BY FlatUnwinds
<1> HIDE DEF tt
<1>4. PICK g : /\ Unwinds(g, n + 1, D, <<>>, Flattening(tt, S))
               /\ FlattenSeq(tt) = g[n + 1]
  BY <1>2, FlatUnwinds
<1>7. \A i \in 1..n : Flattening(tt, S)[i] = Flattening(ss, S)[i]
  <2> SUFFICES ASSUME NEW i \in 1..n
               PROVE  Flattening(tt, S)[i] = Flattening(ss, S)[i]
    OBVIOUS
  <2>1. i \in 1..Len(tt) /\ tt[i] = ss[i]
    BY <1>1, <1>2
  <2> QED
    BY <2>1 DEF Flattening
<1>8. f[n] = g[n]
  <2> DEFINE G == Flattening(ss, S)
             H == Flattening(tt, S)
             m == n + 1
             none == <<>>
  <2>1. m \in Nat /\ n <= m /\ n \in Nat /\ n \in 0..n
    BY <1>1
  <2>6. SameSteps(G, H, n)
    BY <1>7 DEF SameSteps
  <2>3. Unwinds(f, n, D, none, G) /\ Unwinds(g, m, D, none, H)
    BY <1>3, <1>4
  <2> HIDE DEF G, H, m, n, D, none
  <2>5. \A i \in 0..n : f[i] = g[i]
    BY <2>1, <2>3, <2>6, UnwindsSame
  <2> QED
    BY <2>1, <2>5
<1>9. g[n + 1] = Flattening(tt, S)[n + 1][g[n]]
  <2>1. n + 1 \in 1..(n + 1) /\ (n + 1) - 1 = n
    BY <1>1
  <2> QED
    BY <1>4, <2>1 DEF Unwinds
<1>10. f[n] \in D
  <2>1. n \in 0..n /\ Unwinds(f, n, D, <<>>, Flattening(ss, S))
    BY <1>1, <1>3
  <2> HIDE DEF n, D
  <2> QED
    BY <2>1 DEF Unwinds
<1>11. Flattening(tt, S)[n + 1][f[n]] = f[n] \o s
  <2>1. n + 1 \in 1..Len(tt)
    BY <1>1, <1>2
  <2> QED
    BY <1>2, <1>10, <2>1 DEF Flattening
<1> QED
  BY <1>3, <1>4, <1>8, <1>9, <1>10, <1>11 DEF tt

\* The segments of the first files: all of them, in order, and none too large.
CutInto(segments, entries, limit, fs) ==
  /\ FlattenSeq(segments) = fs
  /\ \A i \in 1..Len(segments) : /\ Len(segments[i]) <= limit
                                 /\ SizeOn(entries, segments[i]) <= MaxTotal

\* Joining a file keeps it so.
LEMMA JoinCuts ==
  ASSUME NEW F, NEW entries \in [F -> Contents], NEW limit \in Nat \ {0},
         NEW d \in Seq(Seq(F)), NEW x \in F, NEW fs \in Seq(F),
         CutInto(d, entries, limit, fs)
  PROVE  CutInto(Join(d, x, entries, limit), entries, limit, Append(fs, x))
<1> DEFINE n == Len(d)
           new == Append(d, <<x>>)
<1>1. n \in Nat /\ DOMAIN d = 1..n /\ <<x>> \in Seq(F)
      /\ fs \o <<x>> = Append(fs, x)
  BY LenProperties, AppendIsConcat
<1>2. CutInto(new, entries, limit, Append(fs, x))
  <2>1. FlattenSeq(new) = Append(fs, x)
    BY <1>1, FlatAppend DEF CutInto
  <2>2. /\ Len(new) = n + 1 /\ new[n + 1] = <<x>>
        /\ \A i \in 1..n : new[i] = d[i]
    BY <1>1, AppendProperties
  <2>3. Len(<<x>>) = 1 /\ 1 <= limit /\ SizeOn(entries, <<x>>) <= MaxTotal
    <3> DEFINE one == <<x>>
    <3>1. Len(one) = 1 /\ one \in Seq(F)
      OBVIOUS
    <3>2. 1 <= limit
      OBVIOUS
    <3> HIDE DEF one
    <3>3. SizeOn(entries, one) <= MaxTotal
      BY <3>1, SizeFacts
    <3> QED
      BY <3>1, <3>2, <3>3 DEF one
  <2> HIDE DEF new
  <2>4. ASSUME NEW i \in 1..Len(new)
        PROVE  Len(new[i]) <= limit /\ SizeOn(entries, new[i]) <= MaxTotal
    <3>1. CASE i = n + 1
      BY <2>2, <2>3, <3>1
    <3>2. CASE i # n + 1
      <4>1. i \in 1..n
        BY <1>1, <2>2, <3>2
      <4> QED
        BY <2>2, <4>1 DEF CutInto
    <3> QED
      BY <3>1, <3>2
  <2> QED
    BY <2>1, <2>4 DEF CutInto
<1>3. ASSUME n # 0, ~Full(d[n], limit),
             ~(SizeOn(entries, Append(d[n], x)) > MaxTotal)
      PROVE  CutInto([d EXCEPT ![n] = Append(d[n], x)], entries, limit, Append(fs, x))
  <2> DEFINE last == d[n]
             longer == Append(last, x)
             q == [d EXCEPT ![n] = longer]
             front == SubSeq(d, 1, n - 1)
  <2>1. n \in 1..n /\ last \in Seq(F)
    BY <1>1, <1>3, ElementOfSeq
  <2>2. longer \in Seq(F) /\ Len(longer) = Len(last) + 1 /\ Len(last) \in Nat
        /\ longer = last \o <<x>>
    BY <2>1, AppendProperties, LenProperties, AppendIsConcat
  <2>3. Len(longer) <= limit
    BY <1>3, <2>2 DEF Full
  <2>4. SizeOn(entries, longer) <= MaxTotal
    <3>1. SizeOn(entries, longer) \in Nat /\ MaxTotal \in Nat
      BY <2>2, SizeFacts, ContextAssumption
    <3> QED
      BY <1>3, <3>1
  <2> HIDE DEF longer, last
  <2>5. q \in Seq(Seq(F)) /\ Len(q) = n
        /\ \A j \in 1..n : q[j] = IF j = n THEN longer ELSE d[j]
    BY <2>1, <2>2, ExceptSeq
  <2> HIDE DEF q
  <2>6. front \in Seq(Seq(F)) /\ Len(front) = n - 1
        /\ \A j \in 1..(n - 1) : front[j] = d[j]
    BY <1>1, <1>3, SubSeqProperties
  <2> HIDE DEF front
  <2>7. d = Append(front, last)
    <3> DEFINE whole == Append(front, last)
    <3>1. /\ whole \in Seq(Seq(F)) /\ Len(whole) = (n - 1) + 1
          /\ whole[(n - 1) + 1] = last
          /\ \A j \in 1..(n - 1) : whole[j] = front[j]
      BY <2>1, <2>6, AppendProperties
    <3>2. (n - 1) + 1 = n /\ d[n] = last
      BY <1>1 DEF last
    <3> HIDE DEF whole, n
    <3>3. ASSUME NEW j \in 1..n PROVE d[j] = whole[j]
      <4>1. CASE j = n
        BY <3>1, <3>2, <4>1
      <4>2. CASE j # n
        <5>1. j \in 1..(n - 1)
          BY <1>1, <4>2
        <5> QED
          BY <2>6, <3>1, <5>1
      <4> QED
        BY <4>1, <4>2
    <3> QED
      BY <3>1, <3>2, <3>3, SeqEqual DEF whole, n
  <2>8. q = Append(front, longer)
    <3> DEFINE whole == Append(front, longer)
    <3>1. /\ whole \in Seq(Seq(F)) /\ Len(whole) = (n - 1) + 1
          /\ whole[(n - 1) + 1] = longer
          /\ \A j \in 1..(n - 1) : whole[j] = front[j]
      BY <2>2, <2>6, AppendProperties
    <3>2. (n - 1) + 1 = n
      BY <1>1
    <3> HIDE DEF whole, n
    <3>3. ASSUME NEW j \in 1..n PROVE q[j] = whole[j]
      <4>1. CASE j = n
        BY <2>5, <3>1, <3>2, <4>1
      <4>2. CASE j # n
        <5>1. j \in 1..(n - 1)
          BY <1>1, <4>2
        <5> QED
          BY <2>5, <2>6, <3>1, <4>2, <5>1
      <4> QED
        BY <4>1, <4>2
    <3> QED
      BY <2>5, <3>1, <3>2, <3>3, SeqEqual DEF whole
  <2>9. FlattenSeq(q) = Append(fs, x)
    <3>1. /\ FlattenSeq(front) \in Seq(F)
          /\ FlattenSeq(d) = FlattenSeq(front) \o last
          /\ FlattenSeq(q) = FlattenSeq(front) \o longer
      BY <2>1, <2>2, <2>6, <2>7, <2>8, FlatAppend
    <3>2. FlattenSeq(front) \o (last \o <<x>>) = (FlattenSeq(front) \o last) \o <<x>>
      BY <1>1, <2>1, <3>1, ConcatAssociative
    <3> QED
      BY <1>1, <2>2, <3>1, <3>2 DEF CutInto
  <2>10. ASSUME NEW i \in 1..Len(q)
         PROVE  Len(q[i]) <= limit /\ SizeOn(entries, q[i]) <= MaxTotal
    BY <2>3, <2>4, <2>5, <2>10 DEF CutInto
  <2> QED
    BY <2>9, <2>10 DEF CutInto, q, longer, last
<1>4. Join(d, x, entries, limit) = new
      \/ /\ n # 0 /\ ~Full(d[n], limit) /\ ~(SizeOn(entries, Append(d[n], x)) > MaxTotal)
         /\ Join(d, x, entries, limit) = [d EXCEPT ![n] = Append(d[n], x)]
  BY DEF Join
<1> HIDE DEF new, n
<1> QED
  BY <1>2, <1>3, <1>4

\* A sequence up to one place further.
LEMMA OneFurther ==
  ASSUME NEW S, NEW s \in Seq(S), NEW k \in Nat, k + 1 <= Len(s)
  PROVE  /\ SubSeq(s, 1, k) \in Seq(S)
         /\ SubSeq(s, 1, k + 1) = Append(SubSeq(s, 1, k), s[k + 1])
<1>1. Len(s) \in Nat /\ \A i \in 1..Len(s) : s[i] \in S
  BY LenProperties, ElementOfSeq
<1>2. 1 \in 1..Len(s) /\ k + 1 \in 1..Len(s) /\ (k + 1) - 1 = k /\ 1 \in Int
      /\ k \in Int /\ s[k + 1] \in S
  BY <1>1
<1>3. \A i \in 1..k : s[i] \in S
  BY <1>1
<1>4. SubSeq(s, 1, k) \in Seq(S)
  BY <1>2, <1>3, SubSeqProperties
<1>5. SubSeq(s, 1, k + 1) = SubSeq(s, 1, k) \o <<s[k + 1]>>
  <2> DEFINE m == k + 1
             one == 1
  <2>1. one \in 1..Len(s) /\ m \in one..Len(s)
    BY <1>1, <1>2
  <2> HIDE DEF m, one
  <2>2. SubSeq(s, one, m) = SubSeq(s, one, m - 1) \o <<s[m]>>
    BY <2>1, SubSeqRecursiveSecond
  <2> QED
    BY <1>2, <2>2 DEF m, one
<1> QED
  BY <1>2, <1>4, <1>5, AppendIsConcat

\* The segments of a set of files.
LEMMA SegmentsCut ==
  ASSUME NEW F \in SUBSET ContextFiles, NEW entries \in [F -> Contents],
         NEW limit \in Nat \ {0}
  PROVE  /\ Segments(entries, limit) \in Seq(Seq(F))
         /\ CutInto(Segments(entries, limit), entries, limit, Sorted(F))
<1> DEFINE fs == Sorted(F)
           n == Len(fs)
           D == Seq(Seq(F))
           G == Cutting(entries, limit, fs)
<1>1. PICK f : /\ Unwinds(f, n, D, <<>>, G)
               /\ Segments(entries, limit) = f[n]
  BY CutUnwinds
<1>2. DOMAIN entries = F /\ fs \in Seq(F)
  BY SortedFacts
<1> HIDE DEF fs
<1>3. n \in Nat /\ \A i \in 1..n : fs[i] \in F
  BY <1>2, LenProperties, ElementOfSeq
<1>4. \A i \in 0..n : f[i] \in D
  BY <1>1 DEF Unwinds
<1> DEFINE Cut(k) == CutInto(f[k], entries, limit, SubSeq(fs, 1, k))
           K == {k \in Nat : k <= n => Cut(k)}
<1>5. 0 \in K
  <2>1. SubSeq(fs, 1, 0) = <<>>
    BY SubSeqEmpty
  <2>2. f[0] = <<>>
    BY <1>1 DEF Unwinds
  <2>3. FlattenSeq(<<>>) = <<>>
    BY DEF FlattenSeq
  <2>4. CutInto(<<>>, entries, limit, <<>>)
    BY <2>3 DEF CutInto
  <2>5. Cut(0)
    BY <2>1, <2>2, <2>4
  <2> QED
    BY <2>5
<1>6. ASSUME NEW k \in Nat, k \in K PROVE k + 1 \in K
  <2> SUFFICES ASSUME k + 1 <= n PROVE Cut(k + 1)
    OBVIOUS
  <2>1. k + 1 \in 1..n /\ (k + 1) - 1 = k /\ k \in 0..n /\ Cut(k)
    BY <1>3, <1>6
  <2>2. f[k] \in D /\ fs[k + 1] \in F
    BY <1>3, <1>4, <2>1
  <2>3. f[k + 1] = G[k + 1][f[k]]
    BY <1>1, <2>1 DEF Unwinds
  <2>4. f[k + 1] = Join(f[k], fs[k + 1], entries, limit)
    BY <1>2, <2>1, <2>2, <2>3 DEF Cutting
  <2>5. /\ SubSeq(fs, 1, k) \in Seq(F)
        /\ SubSeq(fs, 1, k + 1) = Append(SubSeq(fs, 1, k), fs[k + 1])
    BY <1>2, <2>1, OneFurther
  <2>6. Cut(k)
    BY <2>1
  <2> HIDE DEF D, G, K, n
  <2>7. CutInto(Join(f[k], fs[k + 1], entries, limit), entries, limit,
                Append(SubSeq(fs, 1, k), fs[k + 1]))
    <3> DEFINE d == f[k]
               x == fs[k + 1]
               sofar == SubSeq(fs, 1, k)
    <3>1. d \in Seq(Seq(F)) /\ x \in F /\ sofar \in Seq(F)
          /\ CutInto(d, entries, limit, sofar)
      BY <2>2, <2>5, <2>6 DEF D
    <3> HIDE DEF d, x, sofar
    <3>2. CutInto(Join(d, x, entries, limit), entries, limit, Append(sofar, x))
      BY <3>1, JoinCuts
    <3> QED
      BY <3>2 DEF d, x, sofar
  <2> QED
    BY <2>4, <2>5, <2>7
<1>7. Nat \subseteq K
  <2> HIDE DEF K
  <2> QED
    BY <1>5, <1>6, NatSet
<1>8. n \in 0..n /\ Cut(n) /\ SubSeq(fs, 1, n) = fs
  BY <1>2, <1>3, <1>7, SubSeqFull
<1> QED
  BY <1>1, <1>4, <1>8 DEF fs

Elements(s) == {s[i] : i \in DOMAIN s}

\* A call on its way through the files it compares: what it has read is what was
\* registered, what is left is the rest of it.
OnTheWay(q) ==
  /\ DOMAIN q.expected = DOMAIN q.got \cup Elements(q.todo)
  /\ \A f \in DOMAIN q.got : q.got[f] = q.expected[f]

\* What is true of a call between its steps; row is its audit row.
ReadsTruly(q, row, registered) ==
  /\ q.answer \in {"valid", "succeeded"} => q.got = q.expected
  /\ q.at = "idle" => q.got = Nothing /\ q.answer = "none"
  /\ q.at = "reading" =>
       /\ q.answer \in {"none", "invalid"}
       /\ q.want.op # "verify" => q.answer = "none"
       /\ q.want.op = "knowledge" => q.id = Id("knowledge")
       /\ q.want.op \notin Capturing => /\ q.todo \in Seq(DOMAIN q.expected)
                                        /\ q.answer = "none" => OnTheWay(q)
  /\ q.at = "committing" => /\ q.want.op \in Capturing /\ q.answer = "none"
                            /\ q.want.op = "knowledge" => q.id = Id("knowledge")
  /\ q.at = "collecting" =>
       /\ q.want.op = "knowledge" /\ q.answer = "none"
       /\ \E m \in registered : m.id = Id("knowledge") /\ m.entries = q.got
  /\ q.at = "auditing" => q.want.op = "search" /\ q.answer \in {"succeeded", "failed"}
  /\ q.at = "done" /\ q.want.op = "search" /\ q.answer # "rejected" => row = q.answer

KnowledgeTypes ==
  /\ onDisk \in [ContextFiles -> Contents \cup {Missing}]
  /\ \A m \in manifests : m.entries \in EntrySets
  /\ collection \in EntrySets
  /\ calls \in [Callers -> ContextCall]
  /\ resolutions \in [Callers -> {"none", "succeeded", "failed"}]

\* The types, the collection's manifest, and every call.
KnowledgeInv ==
  /\ KnowledgeTypes /\ CollectionMatches
  /\ \A c \in Callers : ReadsTruly(calls[c], resolutions[c], manifests)

\* What a set of entries is, and that none are one.
LEMMA EntriesAre ==
  ASSUME NEW e
  PROVE  /\ e \in EntrySets => /\ DOMAIN e \in SUBSET ContextFiles
                               /\ e \in [DOMAIN e -> Contents]
         /\ \A F \in SUBSET ContextFiles : e \in [F -> Contents] => e \in EntrySets
  BY DEF EntrySets

\* No entries are entries.
LEMMA NothingIs == Nothing \in EntrySets /\ DOMAIN Nothing = {}
<1>1. Nothing \in [{} -> Contents] /\ {} \in SUBSET ContextFiles
  BY DEF Nothing
<1> QED
  BY <1>1, EntriesAre

\* An id that is taken names what was registered.
LEMMA RegisteredIs ==
  ASSUME KnowledgeTypes, NEW id, Under(id) # {}
  PROVE  /\ EntriesOf(id) \in EntrySets
         /\ \E m \in manifests : m.id = id /\ m.entries = EntriesOf(id)
<1> DEFINE m == CHOOSE m \in manifests : m.id = id
<1>1. m \in manifests /\ m.id = id
  BY DEF Under
<1>2. EntriesOf(id) = m.entries
  BY DEF EntriesOf
<1> HIDE DEF m
<1> QED
  BY <1>1, <1>2 DEF KnowledgeTypes

SameAsk(q, p) == q.want = p.want /\ q.expected = p.expected /\ q.id = p.id
Alike(q, p) == SameAsk(q, p) /\ q.got = p.got

\* The ways in which a call goes on.
LEMMA CallReplies ==
  ASSUME NEW p \in ContextCall, NEW answer \in ContextAnswers
  PROVE  LET q == [p EXCEPT !.at = "done", !.answer = answer]
         IN  /\ q \in ContextCall /\ Alike(q, p) /\ q.at = "done" /\ q.answer = answer
<1>1. "done" \in ContextPlaces
  BY DEF ContextPlaces
<1> QED
  BY <1>1, Zenon DEF ContextCall, Alike, SameAsk

ContextIds == [name : Operations, scope : EntrySets, index : 0 .. Len(FileOrder)]

\* A call that begins to read.
Begun(p, id, fs, expected) ==
  [p EXCEPT !.at = "reading", !.id = id, !.todo = fs, !.expected = expected]

LEMMA CallAsks ==
  ASSUME NEW p \in ContextCall, NEW id \in ContextIds, NEW fs \in Seq(ContextFiles),
         NEW expected \in EntrySets, NEW q, q = Begun(p, id, fs, expected)
  PROVE  /\ q \in ContextCall /\ q.at = "reading" /\ q.id = id /\ q.todo = fs
         /\ q.expected = expected /\ q.want = p.want /\ q.got = p.got
         /\ q.answer = p.answer
<1> DEFINE r == Begun(p, id, fs, expected)
<1>1. "reading" \in ContextPlaces
  BY DEF ContextPlaces
<1>2. /\ r \in ContextCall /\ r.at = "reading" /\ r.id = id /\ r.todo = fs
      /\ r.expected = expected /\ r.want = p.want /\ r.got = p.got
      /\ r.answer = p.answer
  BY <1>1, Zenon DEF ContextCall, ContextIds, Begun
<1> HIDE DEF r
<1> QED
  BY <1>2 DEF r

\* A verification that has met a file that differs.
LEMMA CallDiffers ==
  ASSUME NEW p \in ContextCall, p.todo # <<>>
  PROVE  LET q == [p EXCEPT !.todo = Tail(@), !.answer = "invalid"]
         IN  /\ q \in ContextCall /\ Alike(q, p) /\ q.at = p.at
             /\ q.todo = Tail(p.todo) /\ q.answer = "invalid"
<1> DEFINE rest == Tail(p.todo)
           q == [p EXCEPT !.todo = rest, !.answer = "invalid"]
<1>1. rest \in Seq(ContextFiles)
  <2>1. p.todo \in Seq(ContextFiles)
    BY DEF ContextCall
  <2> QED
    BY <2>1, HeadTailProperties
<1>2. "invalid" \in ContextAnswers
  BY DEF ContextAnswers
<1> HIDE DEF rest
<1>3. q \in ContextCall /\ Alike(q, p) /\ q.at = p.at /\ q.todo = rest /\ q.answer = "invalid"
  BY <1>1, <1>2, Zenon DEF ContextCall, Alike, SameAsk
<1> QED
  BY <1>3 DEF rest

\* A file read: it counts among what was got, and is no longer to be read.
LEMMA CallCaptures ==
  ASSUME KnowledgeTypes, NEW c \in Callers, calls[c].todo # <<>>,
         NEW f, f = Head(calls[c].todo), onDisk[f] \in Contents
  PROVE  /\ Captured(c, f) \in ContextCall /\ SameAsk(Captured(c, f), calls[c])
         /\ Captured(c, f).at = calls[c].at /\ Captured(c, f).answer = calls[c].answer
         /\ Captured(c, f).todo = Tail(calls[c].todo)
         /\ Captured(c, f).got = [g \in DOMAIN calls[c].got \cup {f} |->
                                    IF g = f THEN onDisk[f] ELSE calls[c].got[g]]
<1> DEFINE p == calls[c]
           rest == Tail(p.todo)
           got == [g \in DOMAIN p.got \cup {f} |-> IF g = f THEN onDisk[f] ELSE p.got[g]]
           q == [p EXCEPT !.todo = rest, !.got = got]
<1>1. p \in ContextCall
  BY DEF KnowledgeTypes
<1>2. p.todo \in Seq(ContextFiles) /\ p.got \in EntrySets /\ p.todo # <<>>
  BY <1>1 DEF ContextCall
<1>3. rest \in Seq(ContextFiles) /\ f \in ContextFiles
  BY <1>2, HeadTailProperties
<1>4. got \in EntrySets
  <2>1. /\ DOMAIN p.got \in SUBSET ContextFiles
        /\ p.got \in [DOMAIN p.got -> Contents]
    BY <1>2, EntriesAre
  <2> DEFINE F == DOMAIN p.got \cup {f}
  <2>2. F \in SUBSET ContextFiles
    BY <1>3, <2>1
  <2>3. got \in [F -> Contents]
    BY <2>1
  <2> HIDE DEF got, F
  <2> QED
    BY <2>2, <2>3, EntriesAre
<1>5. Captured(c, f) = q
  BY DEF Captured
<1> HIDE DEF rest, got, p
<1>6. /\ q \in ContextCall /\ SameAsk(q, p) /\ q.at = p.at /\ q.answer = p.answer
      /\ q.todo = rest /\ q.got = got
  BY <1>1, <1>3, <1>4, Zenon DEF ContextCall, SameAsk
<1> QED
  BY <1>5, <1>6, Zenon DEF rest, got, p

\* A call's step keeps the invariant if the call still reads truly.
LEMMA CallKnows ==
  ASSUME KnowledgeInv, NEW c \in Callers, NEW q \in ContextCall, Enter(c, q),
         onDisk' = onDisk, manifests \subseteq manifests',
         \A m \in manifests' : m.entries \in EntrySets,
         collection' \in EntrySets, CollectionMatches',
         resolutions' \in [Callers -> {"none", "succeeded", "failed"}],
         \A d \in Callers \ {c} : resolutions'[d] = resolutions[d],
         ReadsTruly(q, resolutions'[c], manifests')
  PROVE  KnowledgeInv'
<1>1. calls' = [calls EXCEPT ![c] = q] /\ calls \in [Callers -> ContextCall]
  BY DEF Enter, KnowledgeInv, KnowledgeTypes
<1>2. calls' \in [Callers -> ContextCall]
  BY <1>1
<1>3. KnowledgeTypes'
  BY <1>2 DEF KnowledgeInv, KnowledgeTypes
<1>4. ASSUME NEW d \in Callers PROVE ReadsTruly(calls'[d], resolutions'[d], manifests')
  <2>1. CASE d = c
    BY <1>1, <2>1
  <2>2. CASE d # c
    <3>1. calls'[d] = calls[d] /\ resolutions'[d] = resolutions[d]
      BY <1>1, <2>2
    <3>2. ReadsTruly(calls[d], resolutions[d], manifests)
      BY DEF KnowledgeInv
    <3>3. ReadsTruly(calls[d], resolutions[d], manifests')
      <4> DEFINE p == calls[d]
                 row == resolutions[d]
      <4>1. ReadsTruly(p, row, manifests)
        BY <3>2
      <4> HIDE DEF p, row
      <4>2. ReadsTruly(p, row, manifests')
        BY <4>1 DEF ReadsTruly
      <4> QED
        BY <4>2 DEF p, row
    <3> QED
      BY <3>1, <3>3
  <2> QED
    BY <2>1, <2>2
<1> QED
  BY <1>3, <1>4 DEF KnowledgeInv

\* The steps that change no more than the call.
LEMMA CallOnly ==
  ASSUME KnowledgeInv, NEW c \in Callers, NEW q \in ContextCall, Enter(c, q),
         UNCHANGED <<onDisk, manifests, collection, resolutions>>,
         ReadsTruly(q, resolutions[c], manifests)
  PROVE  KnowledgeInv'
<1>1. /\ \A m \in manifests : m.entries \in EntrySets
      /\ collection \in EntrySets
      /\ resolutions \in [Callers -> {"none", "succeeded", "failed"}]
      /\ CollectionMatches
  BY DEF KnowledgeInv, KnowledgeTypes
<1>2. CollectionMatches'
  BY <1>1 DEF CollectionMatches
<1> QED
  BY <1>1, <1>2, CallKnows

\* A call that is told no more than that it ended.
LEMMA CallEnds ==
  ASSUME KnowledgeInv, NEW c \in Callers, NEW answer \in ContextAnswers,
         Reply(c, answer),
         answer \in {"valid", "succeeded"} => calls[c].got = calls[c].expected,
         calls[c].want.op = "search" => answer = "rejected",
         UNCHANGED <<onDisk, manifests, collection, resolutions>>
  PROVE  KnowledgeInv'
<1> DEFINE p == calls[c]
           q == [p EXCEPT !.at = "done", !.answer = answer]
<1>1. p \in ContextCall
  BY DEF KnowledgeInv, KnowledgeTypes
<1>2. q \in ContextCall /\ Alike(q, p) /\ q.at = "done" /\ q.answer = answer
  <2> HIDE DEF p
  <2> QED
    BY <1>1, CallReplies
<1>3. Enter(c, q)
  BY DEF Reply
<1> HIDE DEF q
<1>4. ReadsTruly(q, resolutions[c], manifests)
  BY <1>2 DEF ReadsTruly, Alike, SameAsk, p
<1> QED
  BY <1>2, <1>3, <1>4, CallOnly

\* What is known of each call.
LEMMA KnownCall ==
  ASSUME KnowledgeInv, NEW c \in Callers
  PROVE  /\ calls[c] \in ContextCall /\ ReadsTruly(calls[c], resolutions[c], manifests)
         /\ calls[c].want \in ContextDemand /\ calls[c].want.op \in Operations
         /\ calls[c].want.files \in SUBSET ContextFiles
         /\ calls[c].todo \in Seq(ContextFiles)
         /\ calls[c].got \in EntrySets /\ calls[c].expected \in EntrySets
         /\ calls[c].answer \in ContextAnswers
<1>1. calls[c] \in ContextCall /\ ReadsTruly(calls[c], resolutions[c], manifests)
  BY DEF KnowledgeInv, KnowledgeTypes
<1>2. /\ calls[c].want \in ContextDemand /\ calls[c].todo \in Seq(ContextFiles)
      /\ calls[c].got \in EntrySets /\ calls[c].expected \in EntrySets
      /\ calls[c].answer \in ContextAnswers
  BY <1>1 DEF ContextCall
<1>3. calls[c].want.op \in Operations /\ calls[c].want.files \in SUBSET ContextFiles
  BY <1>2 DEF ContextDemand
<1> QED
  BY <1>1, <1>2, <1>3

\* A call that has begun to read.
LEMMA AskStands ==
  ASSUME KnowledgeInv, NEW c \in Callers, calls[c].at = "idle",
         NEW id \in ContextIds, NEW fs \in Seq(ContextFiles), NEW expected \in EntrySets,
         Ask(c, id, fs, expected),
         calls[c].want.op = "knowledge" => id = Id("knowledge"),
         calls[c].want.op \notin Capturing =>
           /\ fs \in Seq(DOMAIN expected)
           /\ DOMAIN expected = Elements(fs),
         UNCHANGED <<onDisk, manifests, collection, resolutions>>
  PROVE  KnowledgeInv'
<1> DEFINE p == calls[c]
           q == Begun(p, id, fs, expected)
<1>1. p \in ContextCall /\ p.got = Nothing /\ p.answer = "none"
  BY KnownCall DEF ReadsTruly
<1>2. /\ q \in ContextCall /\ q.at = "reading" /\ q.id = id /\ q.todo = fs
      /\ q.expected = expected /\ q.want = p.want /\ q.got = p.got
      /\ q.answer = p.answer
  <2> HIDE DEF p
  <2> QED
    BY <1>1, CallAsks
<1>3. Enter(c, q)
  BY DEF Ask, Begun
<1> HIDE DEF q
<1>4. p.want.op \notin Capturing => OnTheWay(q)
  <2> SUFFICES ASSUME p.want.op \notin Capturing PROVE OnTheWay(q)
    OBVIOUS
  <2>1. DOMAIN q.got = {}
    BY <1>1, <1>2, NothingIs
  <2>2. DOMAIN expected = Elements(fs)
    OBVIOUS
  <2>3. DOMAIN q.expected = Elements(q.todo)
    BY <1>2, <2>2, Zenon
  <2> QED
    BY <2>1, <2>3 DEF OnTheWay
<1>5. q.want.op = "knowledge" => q.id = Id("knowledge")
  BY <1>2
<1>6. q.want.op \notin Capturing => q.todo \in Seq(DOMAIN q.expected)
  BY <1>2
<1>7. ReadsTruly(q, resolutions[c], manifests)
  BY <1>1, <1>2, <1>4, <1>5, <1>6 DEF ReadsTruly
<1> QED
  BY <1>2, <1>3, <1>7, CallOnly

\* An id that a caller gives is one.
LEMMA IdIs == \A name \in Operations : Id(name) \in ContextIds
<1>1. 0 \in 0 .. Len(FileOrder)
  BY OrderType
<1> QED
  BY <1>1, NothingIs DEF Id, ContextIds

\* The three ways in which a call begins: it reads all it is asked for,
LEMMA RegisterBegins ==
  ASSUME KnowledgeInv, NEW c \in Callers, calls[c].at = "idle", BeginRegister(c),
         UNCHANGED <<onDisk, manifests, collection, resolutions>>
  PROVE  KnowledgeInv'
<1> DEFINE op == calls[c].want.op
           fs == Sorted(calls[c].want.files)
<1>1. op \in {"register", "scope", "knowledge"} /\ op \in Operations /\ op \in Capturing
      /\ Ask(c, Id(op), fs, Nothing)
  BY DEF BeginRegister, Want, Operations, Capturing
<1>2. fs \in Seq(ContextFiles)
  <2>1. calls[c].want.files \in SUBSET ContextFiles
    BY KnownCall
  <2>2. fs \in Seq(calls[c].want.files)
    BY <2>1, SortedFacts
  <2> QED
    BY <2>1, <2>2
<1>3. op = "knowledge" => Id(op) = Id("knowledge")
  OBVIOUS
<1> HIDE DEF fs
<1> QED
  BY <1>1, <1>2, <1>3, IdIs, NothingIs, AskStands

\* What is chosen of some entries, in order.
LEMMA ChosenAre ==
  ASSUME NEW entries \in EntrySets, NEW chosen, chosen \subseteq DOMAIN entries
  PROVE  /\ Sorted(chosen) \in Seq(ContextFiles) /\ Sorted(chosen) \in Seq(chosen)
         /\ [f \in chosen |-> entries[f]] \in EntrySets
         /\ chosen = Elements(Sorted(chosen))
<1>1. /\ DOMAIN entries \in SUBSET ContextFiles
      /\ entries \in [DOMAIN entries -> Contents]
  BY EntriesAre
<1>2. chosen \in SUBSET ContextFiles
  BY <1>1
<1>3. [f \in chosen |-> entries[f]] \in EntrySets
  <2> DEFINE e == [f \in chosen |-> entries[f]]
  <2>1. e \in [chosen -> Contents]
    BY <1>1
  <2> HIDE DEF e
  <2>2. e \in EntrySets
    BY <1>2, <2>1, EntriesAre
  <2> QED
    BY <2>2 DEF e
<1> DEFINE s == Sorted(chosen)
<1>4. s \in Seq(chosen) /\ \A f \in chosen : \E j \in 1..Len(s) : s[j] = f
  BY <1>2, SortedFacts
<1> HIDE DEF s
<1>5. DOMAIN s = 1..Len(s) /\ \A j \in 1..Len(s) : s[j] \in chosen
  BY <1>4, LenProperties, ElementOfSeq
<1>6. chosen = Elements(s)
  BY <1>4, <1>5 DEF Elements
<1>7. s \in Seq(ContextFiles)
  BY <1>2, <1>4
<1> QED
  BY <1>3, <1>4, <1>6, <1>7 DEF s

\* what a manifest or the collection names,
LEMMA UseBegins ==
  ASSUME KnowledgeInv, NEW c \in Callers, calls[c].at = "idle", BeginUse(c),
         UNCHANGED <<onDisk, manifests, collection, resolutions>>
  PROVE  KnowledgeInv'
<1> DEFINE op == calls[c].want.op
           entries == IF op = "search" THEN collection
                      ELSE IF Under(Id("register")) = {} THEN Nothing
                      ELSE EntriesOf(Id("register"))
           chosen == IF op = "search" THEN DOMAIN entries \cap calls[c].want.files
                     ELSE DOMAIN entries
           expected == [f \in chosen |-> entries[f]]
<1>1. /\ op \in {"verify", "render", "search"}
      /\ IF entries = Nothing THEN Reply(c, "rejected")
         ELSE Ask(c, Id(op), Sorted(chosen), expected)
  BY DEF BeginUse, Want
<1>2. entries \in EntrySets
  BY RegisteredIs, NothingIs DEF KnowledgeInv, KnowledgeTypes
<1> HIDE DEF entries
<1>3. chosen \subseteq DOMAIN entries
  OBVIOUS
<1> HIDE DEF chosen
<1>4. CASE entries = Nothing
  <2>1. Reply(c, "rejected") /\ "rejected" \in ContextAnswers
    BY <1>1, <1>4 DEF ContextAnswers
  <2> QED
    BY <2>1, CallEnds
<1>5. CASE entries # Nothing
  <2>1. /\ Sorted(chosen) \in Seq(ContextFiles) /\ Sorted(chosen) \in Seq(chosen)
        /\ expected \in EntrySets /\ DOMAIN expected = chosen
        /\ chosen = Elements(Sorted(chosen))
    BY <1>2, <1>3, ChosenAre
  <2>2. Ask(c, Id(op), Sorted(chosen), expected) /\ op \in Operations /\ op # "knowledge"
    BY <1>1, <1>5 DEF Operations
  <2> DEFINE fs == Sorted(chosen)
  <2>3. fs \in Seq(DOMAIN expected) /\ DOMAIN expected = Elements(fs)
    BY <2>1
  <2>4. fs \in Seq(ContextFiles) /\ Ask(c, Id(op), fs, expected)
    BY <2>1, <2>2
  <2>5. expected \in EntrySets
    BY <2>1
  <2> HIDE DEF expected, fs
  <2> QED
    BY <2>2, <2>3, <2>4, <2>5, IdIs, AskStands
<1> QED
  BY <1>4, <1>5

\* or one segment of a scope.
LEMMA SegmentBegins ==
  ASSUME KnowledgeInv, NEW c \in Callers, calls[c].at = "idle", BeginSegment(c),
         UNCHANGED <<onDisk, manifests, collection, resolutions>>
  PROVE  KnowledgeInv'
<1> DEFINE scope == EntriesOf(Id("scope"))
           segments == Segments(scope, calls[c].want.limit)
           index == calls[c].want.index
           id == [name |-> "segment", scope |-> scope, index |-> index]
<1>1. /\ calls[c].want.op = "segment"
      /\ IF Under(Id("scope")) = {} \/ index > Len(segments) THEN Reply(c, "rejected")
         ELSE Ask(c, id, segments[index], Nothing)
  BY DEF BeginSegment, Want
<1>2. CASE Under(Id("scope")) = {} \/ index > Len(segments)
  <2>1. Reply(c, "rejected") /\ "rejected" \in ContextAnswers
    BY <1>1, <1>2 DEF ContextAnswers
  <2> QED
    BY <1>1, <2>1, CallEnds
<1>3. CASE ~(Under(Id("scope")) = {} \/ index > Len(segments))
  <2>1. scope \in EntrySets
    BY <1>3, RegisteredIs DEF KnowledgeInv
  <2>2. index \in 1 .. Len(FileOrder) /\ calls[c].want.limit \in 1 .. Len(FileOrder)
    BY KnownCall DEF ContextDemand
  <2>3. Ask(c, id, segments[index], Nothing) /\ ~(index > Len(segments))
    BY <1>1, <1>3
  <2>4. /\ calls[c].want.limit \in Nat \ {0} /\ index \in Nat \ {0}
        /\ index \in 0 .. Len(FileOrder)
    BY <2>2, OrderType
  <2>5. DOMAIN scope \in SUBSET ContextFiles /\ scope \in [DOMAIN scope -> Contents]
    BY <2>1, EntriesAre
  <2> HIDE DEF scope
  <2>6. segments \in Seq(Seq(DOMAIN scope))
    BY <2>4, <2>5, SegmentsCut
  <2> HIDE DEF segments
  <2>7. segments[index] \in Seq(ContextFiles)
    <3>1. index \in 1..Len(segments)
      <4>1. Len(segments) \in Nat
        BY <2>6, LenProperties
      <4> HIDE DEF index
      <4> QED
        BY <2>3, <2>4, <4>1
    <3>2. segments[index] \in Seq(DOMAIN scope)
      BY <2>6, <3>1, ElementOfSeq
    <3> QED
      BY <2>5, <3>2
  <2>8. "segment" \in Operations /\ "segment" \in Capturing
    BY DEF Operations, Capturing
  <2>9. id \in ContextIds
    BY <2>1, <2>4, <2>8 DEF ContextIds
  <2>10. Ask(c, id, segments[index], Nothing)
    BY <2>3
  <2> HIDE DEF index, id
  <2> QED
    BY <1>1, <2>7, <2>8, <2>9, <2>10, NothingIs, AskStands
<1> QED
  BY <1>2, <1>3

LEMMA CallBegins ==
  ASSUME KnowledgeInv, NEW c \in Callers, BeginCall(c)
  PROVE  KnowledgeInv'
<1>1. /\ calls[c].at = "idle" /\ UNCHANGED <<onDisk, manifests, collection, resolutions>>
      /\ BeginRegister(c) \/ BeginUse(c) \/ BeginSegment(c)
  BY DEF BeginCall
<1> QED
  BY <1>1, RegisterBegins, UseBegins, SegmentBegins

\* What is still to be read, but for the next of it.
LEMMA HeadAndRest ==
  ASSUME NEW S, NEW s \in Seq(S), s # <<>>
  PROVE  /\ Head(s) \in S /\ Tail(s) \in Seq(S)
         /\ Elements(s) = {Head(s)} \cup Elements(Tail(s))
<1> DEFINE t == Tail(s)
           h == Head(s)
<1>1. /\ h \in S /\ t \in Seq(S) /\ Len(t) = Len(s) - 1 /\ h = s[1]
      /\ \A i \in 1..Len(t) : t[i] = s[i + 1]
  BY HeadTailProperties
<1>2. DOMAIN t = 1..Len(t) /\ DOMAIN s = 1..Len(s) /\ Len(s) \in Nat \ {0}
  BY <1>1, LenProperties, EmptySeq
<1> HIDE DEF t, h
<1>3. ASSUME NEW i \in DOMAIN s PROVE s[i] = h \/ \E j \in DOMAIN t : s[i] = t[j]
  <2>1. CASE i = 1
    BY <1>1, <2>1
  <2>2. CASE i # 1
    <3>1. i - 1 \in 1..Len(t) /\ (i - 1) + 1 = i
      BY <1>1, <1>2, <2>2
    <3>2. t[i - 1] = s[i]
      BY <1>1, <3>1
    <3> QED
      BY <1>2, <3>1, <3>2
  <2> QED
    BY <2>1, <2>2
<1>4. ASSUME NEW j \in DOMAIN t PROVE \E i \in DOMAIN s : s[i] = t[j]
  <2>1. j + 1 \in 1..Len(s) /\ s[j + 1] = t[j]
    BY <1>1, <1>2
  <2> QED
    BY <1>2, <2>1
<1>5. 1 \in DOMAIN s
  BY <1>2
<1>6. Elements(s) = {h} \cup Elements(t)
  <2>1. \A x : x \in Elements(s) <=> \E i \in DOMAIN s : x = s[i]
    BY DEF Elements
  <2>2. \A x : x \in Elements(t) <=> \E i \in DOMAIN t : x = t[i]
    BY DEF Elements
  <2>3. \A x : x \in Elements(s) <=> (x = h \/ x \in Elements(t))
    <3> SUFFICES ASSUME NEW x PROVE x \in Elements(s) <=> (x = h \/ x \in Elements(t))
      OBVIOUS
    <3>1. ASSUME x \in Elements(s) PROVE x = h \/ x \in Elements(t)
      <4>1. PICK i \in DOMAIN s : x = s[i]
        BY <2>1, <3>1
      <4> QED
        BY <1>3, <2>2, <4>1
    <3>2. ASSUME x = h PROVE x \in Elements(s)
      BY <1>1, <1>5, <2>1, <3>2
    <3>3. ASSUME x \in Elements(t) PROVE x \in Elements(s)
      <4>1. PICK j \in DOMAIN t : x = t[j]
        BY <2>2, <3>3
      <4> QED
        BY <1>4, <2>1, <4>1
    <3> QED
      BY <3>1, <3>2, <3>3
  <2> QED
    BY <2>3
<1> QED
  BY <1>1, <1>6 DEF t, h

\* A file is read and found as it was registered, or taken as it is.
LEMMA CaptureStands ==
  ASSUME KnowledgeInv, NEW c \in Callers, calls[c].at = "reading", calls[c].todo # <<>>,
         NEW f, f = Head(calls[c].todo), onDisk[f] \in Contents,
         calls[c].want.op \notin Capturing => onDisk[f] = calls[c].expected[f],
         Enter(c, Captured(c, f)),
         UNCHANGED <<onDisk, manifests, collection, resolutions>>
  PROVE  KnowledgeInv'
<1> DEFINE p == calls[c]
           q == Captured(c, f)
<1>1. /\ q \in ContextCall /\ SameAsk(q, p) /\ q.at = "reading" /\ q.answer = p.answer
      /\ q.todo = Tail(p.todo)
      /\ q.got = [g \in DOMAIN p.got \cup {f} |-> IF g = f THEN onDisk[f] ELSE p.got[g]]
  BY CallCaptures DEF KnowledgeInv
<1>2. ReadsTruly(p, resolutions[c], manifests) /\ p.todo \in Seq(ContextFiles)
      /\ p.at = "reading" /\ p.todo # <<>> /\ f = Head(p.todo)
  BY KnownCall
<1>3. Enter(c, q) /\ q.want = p.want /\ q.expected = p.expected /\ q.id = p.id
  BY <1>1 DEF SameAsk
<1> HIDE DEF q
<1>4. ASSUME p.want.op \notin Capturing PROVE q.todo \in Seq(DOMAIN q.expected)
  <2>1. p.todo \in Seq(DOMAIN p.expected)
    BY <1>2, <1>4 DEF ReadsTruly
  <2> HIDE DEF p
  <2>2. Tail(p.todo) \in Seq(DOMAIN p.expected)
    BY <1>2, <2>1, HeadAndRest
  <2> QED
    BY <1>1, <1>3, <2>2
<1>5. ASSUME p.want.op \notin Capturing, p.answer = "none" PROVE OnTheWay(q)
  <2>1. OnTheWay(p) /\ onDisk[f] = p.expected[f]
    BY <1>2, <1>5 DEF ReadsTruly
  <2> HIDE DEF p
  <2> DEFINE ahead == Elements(p.todo)
             after == Elements(Tail(p.todo))
  <2>2. ahead = {f} \cup after
    BY <1>2, HeadAndRest
  <2>3. DOMAIN p.expected = DOMAIN p.got \cup ahead
    BY <2>1 DEF OnTheWay
  <2>4. DOMAIN q.got = DOMAIN p.got \cup {f}
    BY <1>1
  <2>6. Elements(q.todo) = after
    BY <1>1
  <2>7. DOMAIN q.expected = DOMAIN q.got \cup Elements(q.todo)
    <3> HIDE DEF after, ahead
    <3> QED
      BY <1>3, <2>2, <2>3, <2>4, <2>6
  <2>8. ASSUME NEW g \in DOMAIN q.got PROVE q.got[g] = q.expected[g]
    <3>1. q.got[g] = IF g = f THEN onDisk[f] ELSE p.got[g]
      BY <1>1, <2>4
    <3>2. g = f \/ p.got[g] = p.expected[g]
      BY <2>1, <2>4 DEF OnTheWay
    <3> QED
      BY <1>3, <2>1, <3>1, <3>2
  <2> QED
    BY <2>7, <2>8 DEF OnTheWay
<1>6. ReadsTruly(q, resolutions[c], manifests)
  <2> HIDE DEF p
  <2> QED
    BY <1>1, <1>2, <1>3, <1>4, <1>5 DEF ReadsTruly
<1> QED
  BY <1>1, <1>3, <1>6, CallOnly

\* The next file: captured, missing, or different.
LEMMA ReadsOne ==
  ASSUME KnowledgeInv, NEW c \in Callers, ReadOne(c)
  PROVE  KnowledgeInv'
<1> DEFINE p == calls[c]
           f == Head(p.todo)
           op == p.want.op
<1>1. /\ p.at = "reading" /\ p.todo # <<>>
      /\ UNCHANGED <<onDisk, manifests, collection, resolutions>>
  BY DEF ReadOne
<1>2. /\ p \in ContextCall /\ ReadsTruly(p, resolutions[c], manifests)
      /\ op \in Operations /\ p.todo \in Seq(ContextFiles) /\ p.expected \in EntrySets
  BY KnownCall
<1>3. f \in ContextFiles /\ onDisk[f] \in Contents \cup {Missing}
  <2>1. f \in ContextFiles
    BY <1>1, <1>2, HeadAndRest
  <2> HIDE DEF f
  <2> QED
    BY <2>1 DEF KnowledgeInv, KnowledgeTypes
<1>4. ASSUME op \notin Capturing, Unchanged(p, f)
      PROVE  onDisk[f] \in Contents /\ onDisk[f] = p.expected[f]
  <2>1. p.todo \in Seq(DOMAIN p.expected)
    BY <1>1, <1>2, <1>4 DEF ReadsTruly
  <2>2. f \in DOMAIN p.expected
    BY <1>1, <2>1, HeadAndRest
  <2>3. p.expected \in [DOMAIN p.expected -> Contents]
    BY <1>2, EntriesAre
  <2> HIDE DEF f, p
  <2> QED
    BY <1>4, <2>2, <2>3 DEF Unchanged
<1>5. ASSUME Enter(c, Captured(c, f)), onDisk[f] \in Contents,
             op \notin Capturing => onDisk[f] = p.expected[f]
      PROVE  KnowledgeInv'
  BY <1>1, <1>5, CaptureStands
<1>6. CASE op \in Capturing
  <2>1. IF onDisk[f] = Missing THEN Reply(c, "rejected") ELSE Enter(c, Captured(c, f))
    BY <1>6 DEF ReadOne, Want, Capturing
  <2>2. CASE onDisk[f] = Missing
    <3>1. Reply(c, "rejected") /\ "rejected" \in ContextAnswers
      BY <2>1, <2>2 DEF ContextAnswers
    <3> QED
      BY <1>1, <3>1, CallEnds
  <2>3. CASE onDisk[f] # Missing
    BY <1>3, <1>5, <1>6, <2>1, <2>3
  <2> QED
    BY <2>2, <2>3
<1>7. CASE op = "verify"
  <2> DEFINE q == [p EXCEPT !.todo = Tail(@), !.answer = "invalid"]
  <2>1. Enter(c, IF Unchanged(p, f) THEN Captured(c, f) ELSE q) /\ op \notin Capturing
    BY <1>7 DEF ReadOne, Want, Capturing
  <2>2. CASE Unchanged(p, f)
    <3>1. Enter(c, Captured(c, f))
      BY <2>1, <2>2
    <3> QED
      BY <1>4, <1>5, <2>1, <2>2, <3>1
  <2>3. CASE ~Unchanged(p, f)
    <3>1. Enter(c, q)
      BY <2>1, <2>3
    <3>2. /\ q \in ContextCall /\ Alike(q, p) /\ q.at = p.at
          /\ q.todo = Tail(p.todo) /\ q.answer = "invalid"
      BY <1>1, <1>2, CallDiffers
    <3>3. p.todo \in Seq(DOMAIN p.expected)
      BY <1>1, <1>2, <2>1 DEF ReadsTruly
    <3>4. Tail(p.todo) \in Seq(DOMAIN p.expected)
      BY <1>1, <3>3, HeadAndRest
    <3> HIDE DEF q, f
    <3>5. q.todo \in Seq(DOMAIN q.expected) /\ q.want.op = "verify"
      BY <1>7, <3>2, <3>4 DEF Alike, SameAsk
    <3>6. ReadsTruly(q, resolutions[c], manifests)
      BY <1>1, <3>2, <3>5 DEF ReadsTruly
    <3> QED
      BY <1>1, <3>1, <3>2, <3>6, CallOnly
  <2> QED
    BY <2>2, <2>3
<1>8. CASE op = "render"
  <2>1. /\ IF Unchanged(p, f) THEN Enter(c, Captured(c, f)) ELSE Reply(c, "failed")
        /\ op \notin Capturing
    BY <1>8 DEF ReadOne, Want, Capturing
  <2>2. CASE Unchanged(p, f)
    BY <1>4, <1>5, <2>1, <2>2
  <2>3. CASE ~Unchanged(p, f)
    <3>1. Reply(c, "failed") /\ "failed" \in ContextAnswers
      BY <2>1, <2>3 DEF ContextAnswers
    <3> QED
      BY <1>1, <1>8, <3>1, CallEnds
  <2> QED
    BY <2>2, <2>3
<1>9. CASE op = "search"
  <2> DEFINE q == [p EXCEPT !.at = "auditing", !.answer = "failed"]
  <2>1. /\ IF Unchanged(p, f) THEN Enter(c, Captured(c, f)) ELSE Enter(c, q)
        /\ op \notin Capturing
    BY <1>9 DEF ReadOne, Want, Capturing
  <2>2. CASE Unchanged(p, f)
    BY <1>4, <1>5, <2>1, <2>2
  <2>3. CASE ~Unchanged(p, f)
    <3>1. Enter(c, q) /\ "auditing" \in ContextPlaces /\ "failed" \in ContextAnswers
      BY <2>1, <2>3 DEF ContextPlaces, ContextAnswers
    <3>2. q \in ContextCall /\ Alike(q, p) /\ q.at = "auditing" /\ q.answer = "failed"
      BY <1>2, <3>1, Zenon DEF ContextCall, Alike, SameAsk
    <3> HIDE DEF q, f
    <3>3. ReadsTruly(q, resolutions[c], manifests)
      BY <1>9, <3>2 DEF ReadsTruly, Alike, SameAsk
    <3> QED
      BY <1>1, <3>1, <3>2, <3>3, CallOnly
  <2> QED
    BY <2>2, <2>3
<1> QED
  BY <1>2, <1>6, <1>7, <1>8, <1>9 DEF Operations, Capturing

\* A reader that is through with its files and has met no difference has read
\* what was registered.
LEMMA AllRead ==
  ASSUME NEW q \in ContextCall, OnTheWay(q), q.todo = <<>>
  PROVE  q.got = q.expected
<1>1. q.got \in EntrySets /\ q.expected \in EntrySets
  BY DEF ContextCall
<1>2. q.got \in [DOMAIN q.got -> Contents] /\ q.expected \in [DOMAIN q.expected -> Contents]
  BY <1>1, EntriesAre
<1>3. DOMAIN q.got = DOMAIN q.expected
  <2>1. Elements(q.todo) = {}
    BY DEF Elements
  <2> QED
    BY <2>1 DEF OnTheWay
<1>4. \A f \in DOMAIN q.got : q.got[f] = q.expected[f]
  BY DEF OnTheWay
<1> QED
  BY <1>2, <1>3, <1>4

\* All files are read.
LEMMA ReadsAll ==
  ASSUME KnowledgeInv, NEW c \in Callers, ReadAll(c)
  PROVE  KnowledgeInv'
<1> DEFINE p == calls[c]
           op == p.want.op
<1>1. /\ p.at = "reading" /\ p.todo = <<>>
      /\ UNCHANGED <<onDisk, manifests, collection, resolutions>>
  BY DEF ReadAll
<1>2. p \in ContextCall /\ ReadsTruly(p, resolutions[c], manifests) /\ op \in Operations
  BY KnownCall
<1>3. /\ op # "verify" => p.answer = "none"
      /\ op = "knowledge" => p.id = Id("knowledge")
      /\ p.answer \in {"none", "invalid"}
      /\ op \notin Capturing /\ p.answer = "none" => OnTheWay(p)
  BY <1>1, <1>2 DEF ReadsTruly
<1>4. ASSUME op \notin Capturing, p.answer = "none" PROVE p.got = p.expected
  <2>1. OnTheWay(p)
    BY <1>3, <1>4
  <2> HIDE DEF p
  <2> QED
    BY <1>1, <1>2, <2>1, AllRead
<1>5. CASE op \in Capturing
  <2> DEFINE q == [p EXCEPT !.at = "committing"]
  <2>1. Reply(c, "rejected") \/ Enter(c, q)
    BY <1>5 DEF ReadAll, Want, Capturing
  <2>2. CASE Reply(c, "rejected")
    <3>1. "rejected" \in ContextAnswers
      BY DEF ContextAnswers
    <3> QED
      BY <1>1, <2>2, <3>1, CallEnds
  <2>3. CASE Enter(c, q)
    <3>1. "committing" \in ContextPlaces
      BY DEF ContextPlaces
    <3>2. q \in ContextCall /\ Alike(q, p) /\ q.at = "committing" /\ q.answer = p.answer
      BY <1>2, <3>1, Zenon DEF ContextCall, Alike, SameAsk
    <3>3. op # "verify"
      BY <1>5 DEF Capturing
    <3> HIDE DEF q
    <3>4. ReadsTruly(q, resolutions[c], manifests)
      BY <1>3, <1>5, <3>2, <3>3 DEF ReadsTruly, Alike, SameAsk
    <3> QED
      BY <1>1, <2>3, <3>2, <3>4, CallOnly
  <2> QED
    BY <2>1, <2>2, <2>3
<1>6. CASE op = "verify"
  <2> DEFINE answer == IF p.answer = "invalid" THEN "invalid" ELSE "valid"
  <2>1. Reply(c, answer) /\ op \notin Capturing
    BY <1>6 DEF ReadAll, Want, Capturing
  <2>2. answer \in ContextAnswers
    BY DEF ContextAnswers
  <2>3. answer \in {"valid", "succeeded"} => p.got = p.expected
    BY <1>3, <1>4, <2>1
  <2> HIDE DEF answer
  <2> QED
    BY <1>1, <1>6, <2>1, <2>2, <2>3, CallEnds
<1>7. CASE op = "render"
  <2>1. PICK answer \in {"succeeded", "rejected"} : Reply(c, answer)
    BY <1>7 DEF ReadAll, Want, Capturing
  <2>2. answer \in ContextAnswers
    BY DEF ContextAnswers
  <2>3. p.got = p.expected
    BY <1>3, <1>4, <1>7 DEF Capturing
  <2> QED
    BY <1>1, <1>7, <2>1, <2>2, <2>3, CallEnds
<1>8. CASE op = "search"
  <2>1. PICK answer \in {"succeeded", "failed"} :
          Enter(c, [p EXCEPT !.at = "auditing", !.answer = answer])
    BY <1>8 DEF ReadAll, Want, Capturing
  <2> DEFINE q == [p EXCEPT !.at = "auditing", !.answer = answer]
  <2>2. answer \in ContextAnswers /\ "auditing" \in ContextPlaces
    BY DEF ContextAnswers, ContextPlaces
  <2>3. p.got = p.expected
    BY <1>3, <1>4, <1>8 DEF Capturing
  <2>4. q \in ContextCall /\ Alike(q, p) /\ q.at = "auditing" /\ q.answer = answer
    BY <1>2, <2>2, Zenon DEF ContextCall, Alike, SameAsk
  <2>5. Enter(c, q)
    BY <2>1
  <2> HIDE DEF q
  <2>6. ReadsTruly(q, resolutions[c], manifests)
    BY <1>8, <2>3, <2>4 DEF ReadsTruly, Alike, SameAsk
  <2> QED
    BY <1>1, <2>4, <2>5, <2>6, CallOnly
<1> QED
  BY <1>2, <1>5, <1>6, <1>7, <1>8 DEF Operations, Capturing

\* The two transactions of a registration.
LEMMA ManifestCommits ==
  ASSUME KnowledgeInv, NEW c \in Callers, CommitManifest(c)
  PROVE  KnowledgeInv'
<1> DEFINE p == calls[c]
           op == p.want.op
           id == p.id
           new == [id |-> id, entries |-> p.got]
           q == [p EXCEPT !.at = "collecting"]
<1>1. p.at = "committing" /\ UNCHANGED <<onDisk, collection, resolutions>>
  BY DEF CommitManifest
<1>2. /\ p \in ContextCall /\ ReadsTruly(p, resolutions[c], manifests)
      /\ p.got \in EntrySets
  BY KnownCall
<1>3. /\ op \in Capturing /\ op # "search" /\ p.answer = "none"
      /\ op = "knowledge" => id = Id("knowledge")
  BY <1>1, <1>2 DEF ReadsTruly, Capturing
<1>4. /\ \A m \in manifests : m.entries \in EntrySets
      /\ collection \in EntrySets /\ CollectionMatches
      /\ resolutions \in [Callers -> {"none", "succeeded", "failed"}]
  BY DEF KnowledgeInv, KnowledgeTypes
\* What is registered only grows, so a collection keeps its manifest.
<1>5. ASSUME manifests \subseteq manifests',
             \A m \in manifests' : m.entries \in EntrySets,
             \E m \in manifests' : m.id = id /\ m.entries = p.got,
             NEW answer \in {"created", "replayed"}, Registered(c, answer)
      PROVE  KnowledgeInv'
  <2>1. CollectionMatches'
    BY <1>1, <1>4, <1>5 DEF CollectionMatches
  <2>2. CASE op = "knowledge"
    <3>1. Enter(c, q) /\ "collecting" \in ContextPlaces
      BY <1>5, <2>2 DEF Registered, Want, ContextPlaces
    <3>2. q \in ContextCall /\ Alike(q, p) /\ q.at = "collecting" /\ q.answer = p.answer
      BY <1>2, <3>1, Zenon DEF ContextCall, Alike, SameAsk
    <3> HIDE DEF q
    <3>3. \E m \in manifests' : m.id = Id("knowledge") /\ m.entries = q.got
      BY <1>3, <1>5, <2>2, <3>2 DEF Alike
    <3>4. ReadsTruly(q, resolutions'[c], manifests')
      BY <1>3, <2>2, <3>2, <3>3 DEF ReadsTruly, Alike, SameAsk
    <3> QED
      BY <1>1, <1>4, <1>5, <2>1, <3>1, <3>2, <3>4, CallKnows
  <2>3. CASE op # "knowledge"
    <3> DEFINE r == [p EXCEPT !.at = "done", !.answer = answer]
    <3>1. Enter(c, r) /\ answer \in ContextAnswers
      BY <1>5, <2>3 DEF Registered, Want, Reply, ContextAnswers
    <3>2. r \in ContextCall /\ Alike(r, p) /\ r.at = "done" /\ r.answer = answer
      BY <1>2, <3>1, CallReplies
    <3> HIDE DEF r
    <3>3. ReadsTruly(r, resolutions'[c], manifests')
      BY <1>3, <3>2 DEF ReadsTruly, Alike, SameAsk
    <3> QED
      BY <1>1, <1>4, <1>5, <2>1, <3>1, <3>2, <3>3, CallKnows
  <2> QED
    BY <2>2, <2>3
<1>6. CASE Under(id) = {}
  <2>1. manifests' = manifests \cup {new} /\ Registered(c, "created")
    BY <1>6 DEF CommitManifest
  <2>2. new.id = id /\ new.entries = p.got
    OBVIOUS
  <2> HIDE DEF new
  <2>3. \A m \in manifests' : m.entries \in EntrySets
    BY <1>2, <1>4, <2>1, <2>2
  <2>4. \E m \in manifests' : m.id = id /\ m.entries = p.got
    BY <2>1, <2>2
  <2> QED
    BY <1>5, <2>1, <2>3, <2>4
<1>7. CASE Under(id) # {}
  <2>1. /\ UNCHANGED manifests
        /\ IF EntriesOf(id) = p.got THEN Registered(c, "replayed") ELSE Reply(c, "conflict")
    BY <1>7 DEF CommitManifest
  <2>2. CASE EntriesOf(id) = p.got
    <3>1. \E m \in manifests : m.id = id /\ m.entries = p.got
      BY <1>7, <2>2, RegisteredIs DEF KnowledgeInv
    <3> QED
      BY <1>4, <1>5, <2>1, <2>2, <3>1
  <2>3. CASE EntriesOf(id) # p.got
    <3>1. Reply(c, "conflict") /\ "conflict" \in ContextAnswers
      BY <2>1, <2>3 DEF ContextAnswers
    <3> QED
      BY <1>1, <1>3, <2>1, <3>1, CallEnds
  <2> QED
    BY <2>2, <2>3
<1> QED
  BY <1>6, <1>7

LEMMA CollectionCommits ==
  ASSUME KnowledgeInv, NEW c \in Callers, CommitCollection(c)
  PROVE  KnowledgeInv'
<1> DEFINE p == calls[c]
<1>1. p.at = "collecting" /\ UNCHANGED <<onDisk, manifests, resolutions>>
  BY DEF CommitCollection
<1>2. /\ p \in ContextCall /\ p.got \in EntrySets
      /\ ReadsTruly(p, resolutions[c], manifests)
  BY KnownCall
<1>3. /\ p.want.op = "knowledge"
      /\ \E m \in manifests : m.id = Id("knowledge") /\ m.entries = p.got
  BY <1>1, <1>2 DEF ReadsTruly
<1>4. CASE collection = Nothing
  <2>1. collection' = p.got /\ Reply(c, "created")
    BY <1>4 DEF CommitCollection
  <2> DEFINE q == [p EXCEPT !.at = "done", !.answer = "created"]
  <2>2. Enter(c, q) /\ "created" \in ContextAnswers /\ "done" \in ContextPlaces
    BY <2>1 DEF Reply, ContextAnswers, ContextPlaces
  <2>3. q \in ContextCall /\ Alike(q, p) /\ q.at = "done" /\ q.answer = "created"
    BY <1>2, <2>2, Zenon DEF ContextCall, Alike, SameAsk
  <2> HIDE DEF q
  <2>4. ReadsTruly(q, resolutions'[c], manifests')
    BY <1>3, <2>3 DEF ReadsTruly, Alike, SameAsk
  <2>5. CollectionMatches'
    BY <1>1, <1>3, <2>1 DEF CollectionMatches
  <2>6. /\ \A m \in manifests' : m.entries \in EntrySets
        /\ resolutions' \in [Callers -> {"none", "succeeded", "failed"}]
        /\ collection' \in EntrySets
        /\ manifests \subseteq manifests' /\ onDisk' = onDisk
        /\ \A d \in Callers \ {c} : resolutions'[d] = resolutions[d]
    BY <1>1, <1>2, <2>1 DEF KnowledgeInv, KnowledgeTypes
  <2> QED
    BY <2>2, <2>3, <2>4, <2>5, <2>6, CallKnows
<1>5. CASE collection # Nothing
  <2> DEFINE answer == IF collection = p.got THEN "replayed" ELSE "conflict"
  <2>1. /\ Reply(c, answer) /\ answer \in ContextAnswers
        /\ answer \notin {"valid", "succeeded"}
        /\ UNCHANGED <<onDisk, manifests, collection, resolutions>>
    BY <1>1, <1>5 DEF CommitCollection, ContextAnswers
  <2> HIDE DEF answer
  <2> QED
    BY <1>3, <2>1, CallEnds
<1> QED
  BY <1>4, <1>5

\* The row about a search.
LEMMA Audits ==
  ASSUME KnowledgeInv, NEW c \in Callers, Audit(c)
  PROVE  KnowledgeInv'
<1> DEFINE p == calls[c]
<1>1. p.at = "auditing" /\ UNCHANGED <<onDisk, manifests, collection>>
  BY DEF Audit
<1>2. /\ p \in ContextCall /\ ReadsTruly(p, resolutions[c], manifests)
      /\ p.answer \in ContextAnswers
  BY KnownCall
<1>3. /\ p.want.op = "search" /\ p.answer \in {"succeeded", "failed"}
      /\ p.answer \in {"valid", "succeeded"} => p.got = p.expected
  BY <1>1, <1>2 DEF ReadsTruly
<1>4. /\ \A m \in manifests' : m.entries \in EntrySets
      /\ resolutions \in [Callers -> {"none", "succeeded", "failed"}]
      /\ collection' \in EntrySets /\ CollectionMatches'
      /\ manifests \subseteq manifests' /\ onDisk' = onDisk
  <2>1. CollectionMatches /\ KnowledgeTypes
    BY DEF KnowledgeInv
  <2> QED
    BY <1>1, <2>1 DEF KnowledgeTypes, CollectionMatches
<1>5. CASE resolutions' = [resolutions EXCEPT ![c] = p.answer]
           /\ Enter(c, [p EXCEPT !.at = "done"])
  <2> DEFINE q == [p EXCEPT !.at = "done"]
  <2>1. "done" \in ContextPlaces
    BY DEF ContextPlaces
  <2>2. q \in ContextCall /\ Alike(q, p) /\ q.at = "done" /\ q.answer = p.answer
    BY <1>2, <2>1, Zenon DEF ContextCall, Alike, SameAsk
  <2>3. Enter(c, q)
    BY <1>5
  <2> HIDE DEF q
  <2>4. resolutions'[c] = p.answer /\ \A d \in Callers \ {c} : resolutions'[d] = resolutions[d]
    BY <1>4, <1>5
  <2>5. ReadsTruly(q, resolutions'[c], manifests')
    BY <1>3, <2>2, <2>4 DEF ReadsTruly, Alike, SameAsk
  <2>6. resolutions' \in [Callers -> {"none", "succeeded", "failed"}]
    BY <1>3, <1>4, <1>5
  <2> QED
    BY <1>4, <2>2, <2>3, <2>4, <2>5, <2>6, CallKnows
<1>6. CASE Enter(c, [p EXCEPT !.at = "dead"]) /\ UNCHANGED resolutions
  <2> DEFINE q == [p EXCEPT !.at = "dead"]
  <2>1. "dead" \in ContextPlaces
    BY DEF ContextPlaces
  <2>2. q \in ContextCall /\ Alike(q, p) /\ q.at = "dead" /\ q.answer = p.answer
    BY <1>2, <2>1, Zenon DEF ContextCall, Alike, SameAsk
  <2>3. Enter(c, q)
    BY <1>6
  <2> HIDE DEF q
  <2>4. ReadsTruly(q, resolutions[c], manifests)
    BY <1>3, <2>2 DEF ReadsTruly, Alike, SameAsk
  <2> QED
    BY <1>1, <1>6, <2>2, <2>3, <2>4, CallOnly
<1> QED
  BY <1>5, <1>6 DEF Audit

LEMMA CallDies ==
  ASSUME KnowledgeInv, NEW c \in Callers, CallerDies(c)
  PROVE  KnowledgeInv'
<1> DEFINE p == calls[c]
           q == [p EXCEPT !.at = "dead"]
<1>1. Enter(c, q) /\ UNCHANGED <<onDisk, manifests, collection, resolutions>>
  BY DEF CallerDies
<1>2. p \in ContextCall /\ ReadsTruly(p, resolutions[c], manifests)
  BY KnownCall
<1>3. q \in ContextCall /\ Alike(q, p) /\ q.at = "dead" /\ q.answer = p.answer
  <2>1. "dead" \in ContextPlaces
    BY DEF ContextPlaces
  <2> QED
    BY <1>2, <2>1, Zenon DEF ContextCall, Alike, SameAsk
<1> HIDE DEF q
<1>4. ReadsTruly(q, resolutions[c], manifests)
  BY <1>2, <1>3 DEF ReadsTruly, Alike, SameAsk
<1> QED
  BY <1>1, <1>3, <1>4, CallOnly

\* The invariant holds at the start and of every step.
LEMMA ContextStarts == ContextInit => KnowledgeInv
<1> SUFFICES ASSUME ContextInit PROVE KnowledgeInv
  OBVIOUS
<1>1. PICK wants \in [Callers -> Asks] :
        calls = [c \in Callers |->
          [at |-> "idle", want |-> wants[c], id |-> Id("register"), todo |-> <<>>,
           expected |-> Nothing, got |-> Nothing, answer |-> "none"]]
  BY DEF ContextInit
<1> DEFINE First(w) == [at |-> "idle", want |-> w, id |-> Id("register"), todo |-> <<>>,
                        expected |-> Nothing, got |-> Nothing, answer |-> "none"]
<1>2. ASSUME NEW w \in ContextDemand
      PROVE  First(w) \in ContextCall /\ ReadsTruly(First(w), "none", manifests)
  <2>1. /\ Nothing \in EntrySets /\ Id("register") \in ContextIds
        /\ "idle" \in ContextPlaces /\ "none" \in ContextAnswers /\ <<>> \in Seq(ContextFiles)
    <3>1. "register" \in Operations
      BY DEF Operations
    <3> QED
      BY <3>1, NothingIs, IdIs DEF ContextPlaces, ContextAnswers
  <2>2. First(w) \in ContextCall
    BY <2>1 DEF ContextCall, ContextIds
  <2>3. First(w).at = "idle" /\ First(w).got = Nothing /\ First(w).answer = "none"
    OBVIOUS
  <2> HIDE DEF First
  <2> QED
    BY <2>2, <2>3 DEF ReadsTruly
<1>3. \A c \in Callers : wants[c] \in ContextDemand
  BY ContextAssumption
<1>4. /\ calls = [c \in Callers |-> First(wants[c])]
      /\ resolutions = [c \in Callers |-> "none"]
      /\ onDisk = [f \in ContextFiles |-> 1] /\ manifests = {} /\ collection = Nothing
  BY <1>1 DEF ContextInit
<1> HIDE DEF First
<1>5. /\ calls \in [Callers -> ContextCall]
      /\ resolutions \in [Callers -> {"none", "succeeded", "failed"}]
  BY <1>2, <1>3, <1>4
<1>6. onDisk \in [ContextFiles -> Contents \cup {Missing}]
  <2>1. 1 \in Contents
    BY ContextAssumption DEF Contents
  <2> QED
    BY <1>4, <2>1
<1>7. KnowledgeTypes /\ CollectionMatches
  BY <1>4, <1>5, <1>6, NothingIs DEF KnowledgeTypes, CollectionMatches
<1>8. ASSUME NEW c \in Callers PROVE ReadsTruly(calls[c], resolutions[c], manifests)
  BY <1>2, <1>3, <1>4
<1> QED
  BY <1>7, <1>8 DEF KnowledgeInv

LEMMA ContextSteps == KnowledgeInv /\ [ContextNext]_contextVars => KnowledgeInv'
<1> SUFFICES ASSUME KnowledgeInv, [ContextNext]_contextVars PROVE KnowledgeInv'
  OBVIOUS
<1>1. ASSUME NEW c \in Callers,
             \/ BeginCall(c) \/ ReadOne(c) \/ ReadAll(c)
             \/ CommitManifest(c) \/ CommitCollection(c)
             \/ Audit(c) \/ CallerDies(c)
      PROVE  KnowledgeInv'
  BY <1>1, CallBegins, ReadsOne, ReadsAll, ManifestCommits, CollectionCommits, Audits,
     CallDies
<1>2. ASSUME UserEdits PROVE KnowledgeInv'
  <2>1. /\ onDisk' \in [ContextFiles -> Contents \cup {Missing}]
        /\ UNCHANGED <<manifests, collection, calls, resolutions>>
    BY <1>2 DEF UserEdits, KnowledgeInv, KnowledgeTypes
  <2> QED
    BY <2>1 DEF KnowledgeInv, KnowledgeTypes, CollectionMatches
<1>3. CASE UNCHANGED contextVars
  BY <1>3 DEF contextVars, KnowledgeInv, KnowledgeTypes, CollectionMatches
<1> QED
  BY <1>1, <1>2, <1>3 DEF ContextNext

\* The invariant says what is said of the collections and the readers.
LEMMA KnowledgeTold == KnowledgeInv => ContextTypeOK /\ KnowledgeSound
<1> SUFFICES ASSUME KnowledgeInv PROVE ContextTypeOK /\ KnowledgeSound
  OBVIOUS
<1>1. KnowledgeTypes /\ CollectionMatches
  BY DEF KnowledgeInv
<1>2. ASSUME NEW c \in Callers
      PROVE  /\ calls[c].at \in ContextPlaces
             /\ calls[c].expected \in EntrySets /\ calls[c].got \in EntrySets
             /\ calls[c].answer \in ContextAnswers
             /\ calls[c].answer \in {"valid", "succeeded"} =>
                  calls[c].got = calls[c].expected
             /\ calls[c].at = "done" /\ Want(c).op = "search"
                /\ calls[c].answer # "rejected" => resolutions[c] = calls[c].answer
  <2>1. calls[c] \in ContextCall /\ ReadsTruly(calls[c], resolutions[c], manifests)
    BY KnownCall
  <2> QED
    BY <2>1 DEF ContextCall, ReadsTruly, Want
<1>3. ContextTypeOK
  BY <1>1, <1>2 DEF ContextTypeOK, KnowledgeTypes
<1>4. ReadersToldTruth
  BY <1>2 DEF ReadersToldTruth
<1> QED
  BY <1>1, <1>3, <1>4 DEF KnowledgeSound

\* And the segments of what is registered hold each file once, within the limits.
LEMMA SegmentsStand == KnowledgeInv => SegmentsPartition
<1> SUFFICES ASSUME KnowledgeInv, NEW m \in Under(Id("scope")),
                    NEW limit \in 1 .. Len(FileOrder)
             PROVE  LET segments == Segments(m.entries, limit) IN
                    /\ FlattenSeq(segments) = Sorted(DOMAIN m.entries)
                    /\ \A i \in DOMAIN segments :
                         /\ Len(segments[i]) <= limit
                         /\ SizeOn(m.entries, segments[i]) <= MaxTotal
  BY DEF SegmentsPartition
<1> DEFINE e == m.entries
           F == DOMAIN e
           segments == Segments(e, limit)
<1>1. e \in EntrySets
  BY DEF Under, KnowledgeInv, KnowledgeTypes
<1>2. F \in SUBSET ContextFiles /\ e \in [F -> Contents]
  BY <1>1, EntriesAre
<1>3. limit \in Nat \ {0}
  BY OrderType
<1> HIDE DEF e
<1>4. segments \in Seq(Seq(F)) /\ CutInto(segments, e, limit, Sorted(F))
  BY <1>2, <1>3, SegmentsCut
<1>5. DOMAIN segments = 1..Len(segments)
  BY <1>4, LenProperties
<1>6. /\ FlattenSeq(segments) = Sorted(DOMAIN e)
      /\ \A i \in DOMAIN segments : /\ Len(segments[i]) <= limit
                                    /\ SizeOn(e, segments[i]) <= MaxTotal
  BY <1>4, <1>5 DEF CutInto
<1> QED
  BY <1>6 DEF e
=============================================================================
