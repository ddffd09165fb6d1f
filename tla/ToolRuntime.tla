------------------------------ MODULE ToolRuntime ------------------------------
(***************************************************************************)
(* One invocation of the bounded, read-only tool runtime.  The workspace   *)
(* is not locked: its owner may change what a tool looks at while the tool *)
(* looks.  The answer is given only after a content-free row about the     *)
(* invocation is in the database, and writing that row may fail.           *)
(*                                                                         *)
(* Contents are kept as sizes.  A directory has entries, a file has bytes, *)
(* a repository and a database have rows of a given size; a status line of *)
(* size 0 is one too short to name a path.                                 *)
(***************************************************************************)
EXTENDS Naturals, Sequences, FiniteSets

CONSTANTS Disks,     \* what the workspace may hold at the requested path
          MaxLimit,  \* bound: the largest limit a caller passes
          MaxEdits   \* bound: changes of the workspace during the call

ASSUME ToolAssumption ==
  /\ Disks \subseteq [kind : {"missing", "directory", "file", "repository",
                              "database"},
                      size : Nat, text : BOOLEAN, rows : Seq(Nat)]
  /\ MaxLimit \in Nat \ {0} /\ MaxEdits \in Nat

VARIABLES disks,    \* history: what the path held, the last is what it holds
          toolCall, \* the invocation
          audit     \* its row in tool_invocations: a status or "none"

toolVars == <<disks, toolCall, audit>>

Tools == {"list", "stat", "sha256", "read_text", "status", "diff", "query"}
\* What a caller may ask a database: with_write is a WITH that deletes.
Statements == {"select", "with_write", "pragma_read", "pragma_other", "delete"}
Arguments == {"fit", "unsupported", "unknown_task"}
Statuses == {"succeeded", "rejected", "failed"}

\* The answer's shape: how much is shown, whether it says it cut something
\* off, and, for a digest, of which content it is.
Answers == [status : Statuses, shown : Nat, cut : BOOLEAN, of : Nat]
Answer(status, shown, cut) ==
  [status |-> status, shown |-> shown, cut |-> cut, of |-> 0]
Rejected == Answer("rejected", 0, FALSE)
Failed == Answer("failed", 0, FALSE)
Shown(n, cut) == Answer("succeeded", n, cut)

ToolTypeOK ==
  /\ disks \in Seq(Disks) /\ Len(disks) \in 1 .. MaxEdits + 1
  /\ toolCall.at \in {"asked", "hashing", "recording", "answered", "raised"}
  /\ toolCall.answer \in Answers
  /\ audit \in Statuses \cup {"none"}

ToolInit ==
  /\ disks \in {<<d>> : d \in Disks}
  /\ toolCall \in [at : {"asked"}, tool : Tools, statement : Statements,
                   arguments : Arguments, limit : 1 .. MaxLimit,
                   answer : {Failed}]
  /\ toolCall.tool = "query" \/ toolCall.statement = "select"
  /\ audit = "none"

Least(a, b) == IF a < b THEN a ELSE b
Held == disks[Len(disks)]

\* The first limit + 1 names are taken; one too many is told as a cut.
FilesystemList(d, limit) ==
  IF d.kind # "directory" THEN Rejected
  ELSE Shown(Least(d.size, limit), d.size > limit)

FilesystemStat(d) ==
  IF d.kind = "missing" THEN Rejected
  ELSE Shown(IF d.kind = "file" THEN d.size ELSE 0, FALSE)

\* The size is looked at before the file is read.
HashMayRead(d, limit) == d.kind = "file" /\ d.size <= limit

ReadText(d, limit) ==
  IF d.kind # "file" \/ d.size > limit \/ ~d.text THEN Rejected
  ELSE Shown(d.size, FALSE)

Entries(rows) == {i \in DOMAIN rows : rows[i] > 0}

\* Lines are taken in order until the limit is reached with lines left.
GitStatus(d, limit) ==
  IF d.kind # "repository" THEN Failed
  ELSE Shown(Least(Cardinality(Entries(d.rows)), limit),
             \E i \in DOMAIN d.rows :
               Cardinality({j \in Entries(d.rows) : j < i}) >= limit)

SumTo(rows, k) ==
  LET sum[i \in 0 .. k] == IF i = 0 THEN 0 ELSE sum[i - 1] + rows[i]
  IN sum[k]

GitDiff(d, limit) ==
  IF d.kind # "repository" THEN Failed
  ELSE LET bytes == SumTo(d.rows, Len(d.rows))
       IN IF bytes > limit THEN Rejected ELSE Shown(bytes, FALSE)

\* The first word decides before the database is opened ...
ShapeAllows(statement) ==
  statement \in {"select", "with_write", "pragma_read"}

\* ... and the authorizer of the connection while it is compiled.
AuthorizerAllows(statement) == statement \notin {"with_write", "delete"}

\* Defect: a result that fills the limit exactly is not told from a cut one.
SqliteQuery_FullIsAll(d, statement, limit) ==
  IF ~ShapeAllows(statement) \/ d.kind # "database"
     \/ ~AuthorizerAllows(statement)
  THEN Rejected
  ELSE LET fits == {k \in 0 .. Least(limit, Len(d.rows)) :
                      SumTo(d.rows, k) <= limit}
           most == CHOOSE k \in fits : \A l \in fits : l <= k
       IN Shown(most, most < Least(limit, Len(d.rows)))

\* Rows are taken while the next fits both limits; the row limit and the byte
\* limit are passed as one here.
SqliteQuery(d, statement, limit) ==
  IF ~ShapeAllows(statement) \/ d.kind # "database"
     \/ ~AuthorizerAllows(statement)
  THEN Rejected
  ELSE LET fits == {k \in 0 .. Least(limit, Len(d.rows)) :
                      SumTo(d.rows, k) <= limit}
           most == CHOOSE k \in fits : \A l \in fits : l <= k
       IN Shown(most, most < Len(d.rows))

\* What the handlers that look once say about the content they find.
Handler(c, d) ==
  CASE c.tool = "list" -> FilesystemList(d, c.limit)
    [] c.tool = "stat" -> FilesystemStat(d)
    [] c.tool = "read_text" -> ReadText(d, c.limit)
    [] c.tool = "status" -> GitStatus(d, c.limit)
    [] c.tool = "diff" -> GitDiff(d, c.limit)
    [] c.tool = "query" -> SqliteQuery(d, c.statement, c.limit)
    [] OTHER -> IF HashMayRead(d, c.limit) THEN Shown(d.size, FALSE)
                ELSE Rejected

Recording(answer) ==
  toolCall' = [toolCall EXCEPT !.at = "recording", !.answer = answer]

\* Policy first, then the handler; an operating-system error is a failure,
\* and the digest of a file has still to be taken.
Look ==
  /\ toolCall.at = "asked"
  /\ \/ toolCall.arguments # "fit" /\ Recording(Rejected)
     \/ toolCall.arguments = "fit" /\ Recording(Failed)
     \/ /\ toolCall.arguments = "fit"
        /\ LET found == Handler(toolCall, Held)
           IN IF toolCall.tool = "sha256" /\ found.status = "succeeded"
                THEN toolCall' = [toolCall EXCEPT !.at = "hashing",
                                                  !.answer = found]
                ELSE Recording(found)
  /\ UNCHANGED <<disks, audit>>

\* The file is opened again: it may be another one, or gone.
Hash ==
  /\ toolCall.at = "hashing"
  /\ Recording(IF Held.kind = "file"
                 THEN [toolCall.answer EXCEPT !.of = Len(disks)] ELSE Failed)
  /\ UNCHANGED <<disks, audit>>

\* The row is committed, or the call raises and answers nothing.
Record ==
  /\ toolCall.at = "recording"
  /\ \/ /\ audit' = toolCall.answer.status
        /\ toolCall' = [toolCall EXCEPT !.at = "answered"]
     \/ /\ toolCall' = [toolCall EXCEPT !.at = "raised"]
        /\ UNCHANGED audit
  /\ UNCHANGED disks

\* The owner of the workspace changes what is at the path.
Edit == /\ toolCall.at \in {"asked", "hashing", "recording"}
        /\ Len(disks) <= MaxEdits
        /\ \E d \in Disks \ {Held} : disks' = Append(disks, d)
        /\ UNCHANGED <<toolCall, audit>>

ToolNext == Look \/ Hash \/ Record \/ Edit

--------------------------------------------------------------------------------

\* An answer that claims to be complete shows everything the content had, and
\* none shows more than the caller allowed.
Complete(c, d) ==
  CASE c.tool = "list" -> d.kind = "directory" /\ c.answer.shown = d.size
    [] c.tool = "stat" -> d.kind = "file" => c.answer.shown = d.size
    [] c.tool \in {"read_text", "sha256"} ->
         d.kind = "file" /\ c.answer.shown = d.size
    [] c.tool = "status" -> c.answer.shown = Cardinality(Entries(d.rows))
    [] c.tool = "diff" -> c.answer.shown = SumTo(d.rows, Len(d.rows))
    [] OTHER -> c.answer.shown = Len(d.rows)

\* Every successful answer was true of what the path held at some moment of
\* the call, stays within the limit, comes from no statement that writes, and
\* is on record with the status told; a call that raised is not on record.
ToolsTruthful ==
  /\ toolCall.at = "answered" =>
       /\ audit = toolCall.answer.status
       /\ toolCall.answer.status = "succeeded" =>
            /\ toolCall.answer.cut \/
                 \E i \in DOMAIN disks : Complete(toolCall, disks[i])
            /\ toolCall.tool # "stat" => toolCall.answer.shown <= toolCall.limit
            /\ toolCall.statement \in {"select", "pragma_read"}
            /\ toolCall.tool = "sha256" =>
                 /\ toolCall.answer.of \in DOMAIN disks
                 /\ disks[toolCall.answer.of].kind = "file"
  /\ toolCall.at = "raised" => audit = "none"
================================================================================
