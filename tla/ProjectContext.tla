---------------------------- MODULE ProjectContext ----------------------------
(***************************************************************************)
(* Context manifests and the knowledge collections built on them.  Both    *)
(* name files and what they held when they were registered, never content; *)
(* whoever uses them reads the files again and compares.  The files are    *)
(* the user's: they change and vanish between two reads of one call.  A    *)
(* collection is written in a transaction after that of its manifest, and  *)
(* the process may die between the two.                                    *)
(***************************************************************************)
EXTENDS Naturals, Sequences, FiniteSets, SequencesExt


CONSTANTS Callers,     \* threads, each with one call
          FileOrder,   \* the files in the order of their paths
          SizeOf,      \* the size of each content
          Asks,        \* what the calls may ask for
          MaxTotal,    \* what the sizes of a context may add up to
          MaxScope,    \* what those of a scope may
          MaxContents  \* bound: contents the files take on

ContextFiles == {FileOrder[i] : i \in DOMAIN FileOrder}
Contents == 1 .. MaxContents
Missing == 0

VARIABLES onDisk,       \* per file: its content
          manifests,    \* what is registered: ids and entries
          collection,   \* the entries of the knowledge collection
          calls,        \* per thread: its call
          resolutions   \* the audit rows of searches

contextVars == <<onDisk, manifests, collection, calls, resolutions>>

Nothing == [f \in {} |-> Missing]
EntrySets == UNION {[fs -> Contents] : fs \in SUBSET ContextFiles}
\* Files in the order of their paths.
Sorted(fs) ==
  LET upTo[i \in 0 .. Len(FileOrder)] ==
        IF i = 0 THEN <<>>
        ELSE IF FileOrder[i] \in fs THEN Append(upTo[i - 1], FileOrder[i])
        ELSE upTo[i - 1]
  IN upTo[Len(FileOrder)]

\* What a call may ask for.  limit and index are those of a scope segment.
Operations == {"register", "scope", "knowledge", "verify", "render", "search",
               "segment"}
Capturing == {"register", "scope", "knowledge", "segment"}
ContextDemand == [op : Operations, files : SUBSET ContextFiles \ {{}},
                  limit : 1 .. Len(FileOrder), index : 1 .. Len(FileOrder)]

ASSUME ContextAssumption ==
  /\ FileOrder \in Seq(ContextFiles)
  /\ \A i, j \in DOMAIN FileOrder : FileOrder[i] = FileOrder[j] => i = j
  /\ Asks \subseteq ContextDemand
  /\ SizeOf \in [Contents -> Nat \ {0}]
  /\ \A x \in Contents : SizeOf[x] <= MaxTotal
  /\ MaxTotal \in Nat /\ MaxScope \in Nat /\ MaxContents \in Nat \ {0}

ContextPlaces == {"idle", "reading", "committing", "collecting", "auditing",
                  "done", "dead"}
ContextAnswers == {"none", "created", "replayed", "conflict", "rejected", "valid",
                   "invalid", "succeeded", "failed"}

\* An id is given by the caller, that of a segment is made from its scope and
\* its index, not from the limit.
Id(name) == [name |-> name, scope |-> Nothing, index |-> 0]

\* todo: the files still to be read; expected: what they held when registered.
ContextCall == [at : ContextPlaces, want : ContextDemand,
                id : [name : Operations, scope : EntrySets,
                      index : 0 .. Len(FileOrder)],
                todo : Seq(ContextFiles), expected : EntrySets, got : EntrySets,
                answer : ContextAnswers]

ContextTypeOK ==
  /\ onDisk \in [ContextFiles -> Contents \cup {Missing}]
  /\ \A m \in manifests : m.entries \in EntrySets
  /\ collection \in EntrySets
  /\ \A c \in Callers : /\ calls[c].at \in ContextPlaces
                        /\ calls[c].expected \in EntrySets /\ calls[c].got \in EntrySets
                        /\ calls[c].answer \in ContextAnswers
  /\ resolutions \in [Callers -> {"none", "succeeded", "failed"}]

ContextInit ==
  /\ onDisk = [f \in ContextFiles |-> 1]
  /\ manifests = {} /\ collection = Nothing
  /\ \E wants \in [Callers -> Asks] :
       calls = [c \in Callers |->
         [at |-> "idle", want |-> wants[c], id |-> Id("register"), todo |-> <<>>,
          expected |-> Nothing, got |-> Nothing, answer |-> "none"]]
  /\ resolutions = [c \in Callers |-> "none"]

Want(c) == calls[c].want
Enter(c, call) == calls' = [calls EXCEPT ![c] = call]
Reply(c, answer) ==
  Enter(c, [calls[c] EXCEPT !.at = "done", !.answer = answer])

Under(id) == {m \in manifests : m.id = id}
EntriesOf(id) == (CHOOSE m \in manifests : m.id = id).entries

SizeOn(entries, fs) == LET S[i \in 0 .. Len(fs)] ==
                             IF i = 0 THEN 0 ELSE S[i - 1] + SizeOf[entries[fs[i]]]
                       IN S[Len(fs)]

\* Defect: a segment is closed one file late.
Full_Late(segment, limit) == Len(segment) > limit

\* A segment takes no more files than the limit.
Full(segment, limit) == Len(segment) >= limit

\* A file joins the last segment, unless that is full or would be too large.
Join(segments, f, entries, limit) ==
  LET n == Len(segments) IN
  IF n = 0 \/ Full(segments[n], limit)
     \/ SizeOn(entries, Append(segments[n], f)) > MaxTotal
  THEN Append(segments, <<f>>)
  ELSE [segments EXCEPT ![n] = Append(@, f)]

\* The files of a manifest in order, cut into segments.
Segments(entries, limit) ==
  LET fs == Sorted(DOMAIN entries)
      cut[i \in 0 .. Len(fs)] ==
        IF i = 0 THEN <<>> ELSE Join(cut[i - 1], fs[i], entries, limit)
  IN cut[Len(fs)]

Ask(c, id, fs, expected) ==
  Enter(c, [calls[c] EXCEPT !.at = "reading", !.id = id, !.todo = fs,
                            !.expected = expected])

BeginRegister(c) ==
  /\ Want(c).op \in {"register", "scope", "knowledge"}
  /\ Ask(c, Id(Want(c).op), Sorted(Want(c).files), Nothing)

\* Verification and rendering start from a manifest, a search from what the
\* collection holds of the kind that is asked for.
BeginUse(c) ==
  /\ Want(c).op \in {"verify", "render", "search"}
  /\ LET entries == IF Want(c).op = "search" THEN collection
                    ELSE IF Under(Id("register")) = {} THEN Nothing
                    ELSE EntriesOf(Id("register"))
         chosen == IF Want(c).op = "search" THEN DOMAIN entries \cap Want(c).files
                   ELSE DOMAIN entries
     IN IF entries = Nothing THEN Reply(c, "rejected")
        ELSE Ask(c, Id(Want(c).op), Sorted(chosen),
                 [f \in chosen |-> entries[f]])

\* A segment is cut from what the scope names and captured from the disk.
BeginSegment(c) ==
  /\ Want(c).op = "segment"
  /\ LET scope == EntriesOf(Id("scope"))
         segments == Segments(scope, Want(c).limit)
     IN IF Under(Id("scope")) = {} \/ Want(c).index > Len(segments)
          THEN Reply(c, "rejected")
          ELSE Ask(c, [name |-> "segment", scope |-> scope, index |-> Want(c).index],
                   segments[Want(c).index], Nothing)

BeginCall(c) ==
  /\ calls[c].at = "idle"
  /\ BeginRegister(c) \/ BeginUse(c) \/ BeginSegment(c)
  /\ UNCHANGED <<onDisk, manifests, collection, resolutions>>

\* Size and digest are compared with those of one read of the file.
Unchanged(call, f) == onDisk[f] = call.expected[f]

\* What the reading of one file does to a call.
Captured(c, f) ==
  [calls[c] EXCEPT !.todo = Tail(@),
     !.got = [g \in DOMAIN @ \cup {f} |-> IF g = f THEN onDisk[f] ELSE @[g]]]

\* A registration needs every file, a verification goes on and counts, a
\* search or a rendering ends at the first file that has changed.
ReadOne(c) ==
  /\ calls[c].at = "reading" /\ calls[c].todo # <<>>
  /\ LET f == Head(calls[c].todo) IN
       CASE Want(c).op \in Capturing ->
              IF onDisk[f] = Missing THEN Reply(c, "rejected")
              ELSE Enter(c, Captured(c, f))
         [] Want(c).op = "verify" ->
              Enter(c, IF Unchanged(calls[c], f) THEN Captured(c, f)
                       ELSE [calls[c] EXCEPT !.todo = Tail(@), !.answer = "invalid"])
         [] Want(c).op = "render" ->
              IF Unchanged(calls[c], f) THEN Enter(c, Captured(c, f))
              ELSE Reply(c, "failed")
         [] OTHER ->
              IF Unchanged(calls[c], f) THEN Enter(c, Captured(c, f))
              ELSE Enter(c, [calls[c] EXCEPT !.at = "auditing", !.answer = "failed"])
  /\ UNCHANGED <<onDisk, manifests, collection, resolutions>>

\* All files are read: a total beyond the limit is refused, the text of a
\* binary file too.
ReadAll(c) ==
  /\ calls[c].at = "reading" /\ calls[c].todo = <<>>
  /\ \/ /\ Want(c).op \in Capturing
        /\ IF SizeOn(calls[c].got, Sorted(DOMAIN calls[c].got))
               > (IF Want(c).op = "scope" THEN MaxScope ELSE MaxTotal)
             THEN Reply(c, "rejected")
             ELSE Enter(c, [calls[c] EXCEPT !.at = "committing"])
     \/ /\ Want(c).op = "verify"
        /\ Reply(c, IF calls[c].answer = "invalid" THEN "invalid" ELSE "valid")
     \/ /\ Want(c).op = "render"
        /\ \E answer \in {"succeeded", "rejected"} : Reply(c, answer)
     \/ /\ Want(c).op = "search"
        /\ \E answer \in {"succeeded", "failed"} :
             Enter(c, [calls[c] EXCEPT !.at = "auditing", !.answer = answer])
  /\ UNCHANGED <<onDisk, manifests, collection, resolutions>>

Registered(c, answer) ==
  IF Want(c).op = "knowledge"
    THEN Enter(c, [calls[c] EXCEPT !.at = "collecting"])
    ELSE Reply(c, answer)

\* Defect: an id that is taken is answered with what it names, whatever the
\* files hold.
CommitManifest_AnyReplay(c) ==
  /\ calls[c].at = "committing"
  /\ LET id == calls[c].id IN
     \/ /\ Under(id) = {}
        /\ manifests' = manifests \cup {[id |-> id, entries |-> calls[c].got]}
        /\ Registered(c, "created")
     \/ Under(id) # {} /\ Registered(c, "replayed") /\ UNCHANGED manifests
  /\ UNCHANGED <<onDisk, collection, resolutions>>

\* One transaction: the id is new, or names the same entries.
CommitManifest(c) ==
  /\ calls[c].at = "committing"
  /\ LET id == calls[c].id IN
     \/ /\ Under(id) = {}
        /\ manifests' = manifests \cup {[id |-> id, entries |-> calls[c].got]}
        /\ Registered(c, "created")
     \/ /\ Under(id) # {}
        /\ IF EntriesOf(id) = calls[c].got THEN Registered(c, "replayed")
           ELSE Reply(c, "conflict")
        /\ UNCHANGED manifests
  /\ UNCHANGED <<onDisk, collection, resolutions>>

\* A second transaction.
CommitCollection(c) ==
  /\ calls[c].at = "collecting"
  /\ IF collection = Nothing
       THEN collection' = calls[c].got /\ Reply(c, "created")
       ELSE /\ Reply(c, IF collection = calls[c].got THEN "replayed" ELSE "conflict")
            /\ UNCHANGED collection
  /\ UNCHANGED <<onDisk, manifests, resolutions>>

\* The row about a search is written before it is answered; if that fails the
\* call raises.
Audit(c) ==
  /\ calls[c].at = "auditing"
  /\ \/ /\ resolutions' = [resolutions EXCEPT ![c] = calls[c].answer]
        /\ Enter(c, [calls[c] EXCEPT !.at = "done"])
     \/ Enter(c, [calls[c] EXCEPT !.at = "dead"]) /\ UNCHANGED resolutions
  /\ UNCHANGED <<onDisk, manifests, collection>>

CallerDies(c) ==
  /\ calls[c].at \in {"reading", "committing", "collecting", "auditing"}
  /\ Enter(c, [calls[c] EXCEPT !.at = "dead"])
  /\ UNCHANGED <<onDisk, manifests, collection, resolutions>>

UserEdits ==
  /\ \E f \in ContextFiles, x \in Contents \cup {Missing} :
       x # onDisk[f] /\ onDisk' = [onDisk EXCEPT ![f] = x]
  /\ UNCHANGED <<manifests, collection, calls, resolutions>>

ContextNext ==
  \/ \E c \in Callers : \/ BeginCall(c) \/ ReadOne(c) \/ ReadAll(c)
                        \/ CommitManifest(c) \/ CommitCollection(c)
                        \/ Audit(c) \/ CallerDies(c)
  \/ UserEdits

ContextSpec == ContextInit /\ [][ContextNext]_contextVars

--------------------------------------------------------------------------------

\* A collection names what its manifest names, though the two are written
\* apart and a registration may have died between them.
CollectionMatches ==
  collection # Nothing =>
    \E m \in manifests : m.id = Id("knowledge") /\ m.entries = collection

\* Whoever was told that the files still are what was registered, by a
\* verification, a rendering or a search, was told so of every one of them;
\* what a search answered is on record.
ReadersToldTruth ==
  \A c \in Callers :
    /\ calls[c].answer \in {"valid", "succeeded"} => calls[c].got = calls[c].expected
    /\ calls[c].at = "done" /\ Want(c).op = "search" /\ calls[c].answer # "rejected" =>
         resolutions[c] = calls[c].answer

KnowledgeSound == CollectionMatches /\ ReadersToldTruth

\* The segments of a scope, for every limit, hold each file once, in order,
\* and none is larger than the limits.
SegmentsPartition ==
  \A m \in Under(Id("scope")), limit \in 1 .. Len(FileOrder) :
    LET segments == Segments(m.entries, limit) IN
    /\ FlattenSeq(segments) = Sorted(DOMAIN m.entries)
    /\ \A i \in DOMAIN segments : /\ Len(segments[i]) <= limit
                                  /\ SizeOn(m.entries, segments[i]) <= MaxTotal
================================================================================
