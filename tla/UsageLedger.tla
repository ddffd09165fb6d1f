---------------------------- MODULE UsageLedger ----------------------------
(***************************************************************************)
(* What one attempt of a task has used: the usage updates a vendor's       *)
(* program sends (backends/codebuddy/acp_client.py and sdk_client.py,      *)
(* backends/qoder/acp_client.py), the facts a backend makes of them, the   *)
(* append-only evidence rows (TaskService.append_usage_evidence) and the   *)
(* summary read from them (latest_usage_evidence).  Updates are repeated,  *)
(* enriched later and sometimes anonymous; they go on arriving while the   *)
(* worker reports, and Qoder's worker reports the same samples twice.      *)
(***************************************************************************)
EXTENDS Naturals, SequencesExt, FiniteSetsExt

CONSTANTS UsageRoutes,       \* "codebuddy" and "qoder" over ACP, "sdk" (CodeBuddy)
          Updates,      \* the updates a program may send
          MaxUpdates,   \* bound on updates
          MaxTies,      \* bound on rows written in the millisecond of the last
          MaxRefused    \* bound on appends that fail

\* Tokens and credits of one request; the session's credits so far.
Additive == {"tokens", "credits"}
UsageFields == Additive \cup {"session"}

Anonymous == ""
RequestIds == {u.id : u \in Updates} \ {Anonymous}

ASSUME UsageAssumptions ==
  /\ UsageRoutes \subseteq {"codebuddy", "sdk", "qoder"}
  /\ \A u \in Updates : /\ DOMAIN u.usage \subseteq UsageFields
                        /\ u \in [id : STRING, usage : [DOMAIN u.usage -> Nat]]
  /\ MaxUpdates \in Nat /\ MaxTies \in Nat /\ MaxRefused \in Nat

VARIABLES
  said,      \* every update sent, in order (history)
  samples,   \* the client's _usage_samples
  teller,    \* the worker: [route, place, queue]; queue has the facts it will
             \* append next; told: how much was said when it last looked
  usageRows, \* the usage rows of evidences, by created_at and evidence_id
  ties, refusals

usageVars == <<said, samples, teller, usageRows, ties, refusals>>

TellerPlaces == {"running", "reporting", "collect", "collected", "closing", "done"}

UsageTypeOK ==
  /\ said \in Seq(Updates)
  /\ \A i \in DOMAIN samples : samples[i].id \in RequestIds \cup {Anonymous}
  /\ teller.route \in UsageRoutes /\ teller.place \in TellerPlaces
  /\ teller.told \in 0..Len(said)
  /\ IsInjective(usageRows)
  /\ ties \in 0..MaxTies /\ refusals \in 0..MaxRefused

UsageInit ==
  /\ said = << >> /\ samples = << >> /\ usageRows = << >>
  /\ \E r \in UsageRoutes :
       teller = [route |-> r, place |-> "running", queue |-> << >>, told |-> 0]
  /\ ties = 0 /\ refusals = 0

(***************************************************************************)
(* What the client keeps                                                   *)
(***************************************************************************)

\* Position of the sample of request id, 0 if there is none.
Known(ss, id) ==
  LET at == {i \in DOMAIN ss : ss[i].id = id} IN IF at = {} THEN 0 ELSE Min(at)

\* One usage over another.
Over(new, old) ==
  [f \in DOMAIN new \cup DOMAIN old |-> IF f \in DOMAIN new THEN new[f] ELSE old[f]]

Sample(id, usage) == [id |-> id, usage |-> usage]

\* One sample for each request, later fields over earlier ones.  Of anonymous
\* updates CodeBuddy's ACP client keeps the last; the two others keep each
\* distinct one, where it first came.
Heard(ss, r, u) ==
  LET i == Known(ss, u.id) IN
  CASE u.id # Anonymous /\ i # 0 ->
         [ss EXCEPT ![i] = Sample(u.id, Over(u.usage, ss[i].usage))]
    [] u.id = Anonymous /\ i # 0 /\ r = "codebuddy" -> [ss EXCEPT ![i] = u]
    [] u.id = Anonymous /\ r # "codebuddy" /\ u \in Range(ss) -> ss
    [] OTHER -> Append(ss, u)

(***************************************************************************)
(* What the backend makes of it                                            *)
(***************************************************************************)

FactOf(from, scope, accounting, id, usage) ==
  [from |-> from, scope |-> scope, accounting |-> accounting, id |-> id, usage |-> usage]

\* _usage_fact: CodeBuddy's facts have no session credits.
Fact(r, from, s) ==
  FactOf(from, "turn", IF s.id = Anonymous THEN "snapshot" ELSE "delta", s.id,
         IF r = "qoder" THEN s.usage ELSE Restrict(s.usage, Additive \cap DOMAIN s.usage))

Facts(r, from, ss) == [i \in DOMAIN ss |-> Fact(r, from, ss[i])]

\* The Qoder SDK's reader over the messages of a finished session: the first
\* value of a field stays; anonymous messages stay apart.
Gather(so, u) ==
  LET i == Known(so.identified, u.id) IN
  IF u.id = Anonymous
    THEN [identified |-> so.identified, anonymous |-> Append(so.anonymous, u)]
    ELSE [identified |-> IF i = 0 THEN Append(so.identified, u)
                         ELSE [so.identified EXCEPT
                                ![i] = Sample(u.id, Over(so.identified[i].usage, u.usage))],
          anonymous |-> so.anonymous]

Gathered(messages) ==
  LET upTo[i \in 0 .. Len(messages)] ==
        IF i = 0 THEN [identified |-> << >>, anonymous |-> << >>]
        ELSE Gather(upTo[i - 1], messages[i])
  IN upTo[Len(messages)]

\* The latest total is a fact of the session.
Totals(messages) ==
  LET at == {i \in DOMAIN messages : "session" \in DOMAIN messages[i].usage} IN
  IF at = {} THEN << >>
  ELSE <<FactOf("sdk_result", "session", "snapshot", Anonymous,
                [session |-> messages[Max(at)].usage["session"]])>>

Collected(messages) ==
  LET so == Gathered(messages) IN
  Facts("sdk", "sdk_assistant", so.identified)
    \o Facts("sdk", "sdk_assistant", so.anonymous) \o Totals(messages)

(***************************************************************************)
(* The worker                                                              *)
(***************************************************************************)

\* The reader thread of an ACP client hears updates until the client is
\* closed; the SDK's messages end with the run.
Update(u) ==
  /\ Len(said) < MaxUpdates
  /\ teller.place # "done"
  /\ teller.route = "sdk" => teller.place = "running"
  /\ said' = Append(said, u)
  /\ samples' = Heard(samples, teller.route, u)
  /\ UNCHANGED <<teller, usageRows, ties, refusals>>

Report(place, facts, told) ==
  teller' = [teller EXCEPT !.place = place, !.queue = facts, !.told = told]

\* The run returns with a copy of the samples.  The SDK's result carries usage
\* of its own, which is one more snapshot.
RunReturns ==
  /\ teller.place = "running"
  /\ \/ /\ teller.route # "sdk"
        /\ Report("reporting", Facts(teller.route, "acp", samples), Len(said))
        /\ UNCHANGED said
     \/ /\ teller.route = "sdk"
        /\ \E u \in Updates :
             /\ u.id = Anonymous
             /\ said' = Append(said, u)
             /\ Report("reporting", Facts("sdk", "acp", samples)
                  \o <<Fact("sdk", "sdk_result", u)>>, Len(said) + 1)
  /\ UNCHANGED <<samples, usageRows, ties, refusals>>

\* It fails, is cancelled or timed out: only Qoder's finally reports then.
RunFails ==
  /\ teller.place = "running"
  /\ IF teller.route = "qoder"
       THEN Report("closing", Facts("qoder", "acp", samples), Len(said))
       ELSE Report("done", << >>, 0)
  /\ UNCHANGED <<said, samples, usageRows, ties, refusals>>

\* append_usage_evidence: the same payload again is no row.  Rows are read by
\* created_at, then evidence_id, which is a digest: the order of two written
\* in one millisecond says nothing about which came first.
AppendEvidence ==
  /\ teller.queue # << >>
  /\ teller' = [teller EXCEPT !.queue = Tail(@)]
  /\ LET fact == Head(teller.queue) IN
     IF fact \in Range(usageRows) THEN UNCHANGED <<usageRows, ties>>
     ELSE \/ usageRows' = Append(usageRows, fact) /\ UNCHANGED ties
          \/ /\ ties < MaxTies /\ usageRows # << >>
             /\ ties' = ties + 1
             /\ usageRows' = InsertAt(usageRows, Len(usageRows), fact)
  /\ UNCHANGED <<said, samples, refusals>>

\* The lease is gone or the database refuses: the fact is dropped and the
\* execution goes on (on_usage).
AppendRefused ==
  /\ teller.queue # << >>
  /\ refusals < MaxRefused
  /\ refusals' = refusals + 1
  /\ teller' = [teller EXCEPT !.queue = Tail(@)]
  /\ UNCHANGED <<said, samples, usageRows, ties>>

\* The SDK is not installed, or its import fails, or it finds the session.
CollectSdk ==
  /\ teller.place = "reporting" /\ teller.queue = << >>
  /\ teller.route = "qoder"
  /\ \E facts \in {<< >>, Collected(said)} : Report("collected", facts, teller.told)
  /\ UNCHANGED <<said, samples, usageRows, ties, refusals>>

\* Qoder's finally block reads the client's samples once more.
FinallyReports ==
  /\ teller.place = "collected" /\ teller.queue = << >>
  /\ Report("closing", Facts("qoder", "acp", samples), Len(said))
  /\ UNCHANGED <<said, samples, usageRows, ties, refusals>>

Closed ==
  /\ teller.queue = << >>
  /\ teller.place = IF teller.route = "qoder" THEN "closing" ELSE "reporting"
  /\ Report("done", << >>, teller.told)
  /\ UNCHANGED <<said, samples, usageRows, ties, refusals>>

UsageNext ==
  \/ \E u \in Updates : Update(u)
  \/ RunReturns \/ RunFails \/ AppendEvidence \/ AppendRefused
  \/ CollectSdk \/ FinallyReports \/ Closed

UsageSpec == UsageInit /\ [][UsageNext]_usageVars

(***************************************************************************)
(* The summary: latest_usage_evidence                                      *)
(***************************************************************************)

RowsOf(accounting) ==
  {i \in DOMAIN usageRows : /\ usageRows[i].scope = "turn"
                            /\ usageRows[i].accounting = accounting}

\* A defect: every row counts.
Counted_EachRow(i) == i

\* The request a row counts for.
Counted(i) == usageRows[i].id

\* The rows that give a number for f, of one request or of all.
Giving(f) == {i \in RowsOf("delta") : f \in DOMAIN usageRows[i].usage}
GivingFor(id, f) == {i \in Giving(f) : Counted(i) = id}

\* One usage for each request: what its rows say, the later over the earlier.
Deltas(f) ==
  [id \in {Counted(i) : i \in Giving(f)} |-> usageRows[Max(GivingFor(id, f))].usage[f]]

\* A number of the summary; 0 stands for None.  Requests are added up, and
\* only what no request names is taken from the last snapshot.
Summary(f) ==
  LET last == usageRows[Max(RowsOf("snapshot"))].usage
  IN IF Giving(f) # {} THEN SumFunctionOnSet(Deltas(f), DOMAIN Deltas(f))
     ELSE IF RowsOf("snapshot") # {} /\ f \in DOMAIN last THEN last[f]
     ELSE 0

\* Session credits are those of the last row that has any, of either kind.
SessionCredits ==
  LET totals == {i \in DOMAIN usageRows : "session" \in DOMAIN usageRows[i].usage} IN
  IF totals = {} THEN 0 ELSE usageRows[Max(totals)].usage["session"]

-----------------------------------------------------------------------------
(***************************************************************************)
(* Properties                                                              *)
(***************************************************************************)

\* What was said about field f of request id, up to the n-th update.
Told(id, f, n) ==
  {said[i].usage[f] : i \in {j \in 1..n : said[j].id = id /\ f \in DOMAIN said[j].usage}}

\* The worker is done and all it looked at was written down.
Settled ==
  /\ teller.place = "done" /\ refusals = 0 /\ teller.told # 0

\* The ledger counts each request once, with one of the values given for it,
\* however often it was updated, by whichever thread it was reported and in
\* whatever order the rows come back; requests are all there if nothing was
\* refused; anonymous numbers are never added to them or to each other
\* (latest_usage_evidence: "accumulated once per reliable provider sample_id").
CountedOnce ==
  \A f \in Additive :
    LET all == Len(said)
        named == {id \in RequestIds : Told(id, f, all) # {}}
        owed == IF Settled THEN {id \in RequestIds : Told(id, f, teller.told) # {}} ELSE {}
    IN \/ \E counted \in SUBSET named :
            /\ owed \subseteq counted
            /\ \E value \in [counted -> UNION {Told(id, f, all) : id \in counted}] :
                 /\ \A id \in counted : value[id] \in Told(id, f, all)
                 /\ Summary(f) = SumFunctionOnSet(value, counted)
       \/ owed = {} /\ Summary(f) \in Told(Anonymous, f, all)

\* latest_usage_evidence: "Session cumulative Credits are always latest-value
\* snapshots": for totals that only grow, the summary has the last one told.
LatestTotal ==
  Settled /\ teller.route = "qoder" /\ ties = 0 =>
    LET totals == SelectSeq(SubSeq(said, 1, teller.told),
                            LAMBDA u : "session" \in DOMAIN u.usage)
        total(i) == totals[i].usage["session"]
    IN (\A i, j \in DOMAIN totals : i <= j => total(i) <= total(j))
         => totals = << >> \/ SessionCredits = total(Len(totals))
=============================================================================
