----------------------------- MODULE ServicesProofs ----------------------------
(***************************************************************************)
(* Proofs about the services around a task: what the proofs of the single  *)
(* services say holds in their scene, and those of the verification and of *)
(* the migration, for any files, plans, texts, ages and openers.           *)
(***************************************************************************)
EXTENDS MCServices, RequestProofs

(***************************************************************************)
(* Scenes                                                                  *)
(***************************************************************************)

\* A scene is chosen once, and its steps are those of its service.
LEMMA SceneStarts ==
  /\ Init /\ scene = "dispatch" => DispatchInit
  /\ Init /\ scene = "migration" => MigrationInit
  /\ Init /\ scene = "verification" => VerificationInit
  /\ Init /\ scene = "tools" => ToolInit
  /\ Init /\ scene = "context" => ContextInit
  /\ Init /\ scene = "planner" => PlannerInit
  /\ Init /\ scene = "usage" => UsageInit
BY DEF Init

LEMMA SceneSteps ==
  ASSUME [Next]_servicesVars
  PROVE  /\ scene' = scene
         /\ scene = "dispatch" => [DispatchNext]_dispatchVars
         /\ scene = "migration" => [MigrationNext]_migrationVars
         /\ scene = "verification" => [VerificationNext]_verificationVars
         /\ scene = "tools" => [ToolNext]_toolVars
         /\ scene = "context" => [ContextNext]_contextVars
         /\ scene = "planner" => [PlannerNext]_plannerVars
         /\ scene = "usage" => [UsageNext]_usageVars
<1>1. CASE LeaseScene
  BY <1>1
    DEF LeaseScene, dispatchVars, migrationVars, verificationVars, toolVars,
        contextVars, plannerVars, usageVars
<1>2. CASE ToolScene
  BY <1>2
    DEF ToolScene, dispatchVars, migrationVars, verificationVars, contextVars,
        plannerVars, usageVars
<1>3. CASE DispatchScene
  BY <1>3
    DEF DispatchScene, migrationVars, verificationVars, toolVars, contextVars,
        plannerVars, usageVars
<1>4. CASE MigrationScene
  BY <1>4
    DEF MigrationScene, dispatchVars, verificationVars, toolVars, contextVars,
        plannerVars, usageVars
<1>5. CASE ContextScene
  BY <1>5
    DEF ContextScene, dispatchVars, migrationVars, verificationVars, toolVars,
        plannerVars, usageVars
<1>6. CASE PlannerScene
  BY <1>6
    DEF PlannerScene, dispatchVars, migrationVars, verificationVars, toolVars, contextVars,
        usageVars
<1>7. CASE VerificationScene
  BY <1>7
    DEF VerificationScene, dispatchVars, migrationVars, toolVars, contextVars,
        plannerVars, usageVars
<1>8. CASE UsageScene
  BY <1>8
    DEF UsageScene, dispatchVars, migrationVars, verificationVars, toolVars,
        contextVars, plannerVars
<1>9. CASE UNCHANGED servicesVars
  BY <1>9
    DEF servicesVars, dispatchVars, migrationVars, verificationVars, toolVars,
        contextVars, plannerVars, usageVars
<1> QED
  BY <1>1, <1>2, <1>3, <1>4, <1>5, <1>6, <1>7, <1>8, <1>9 DEF Next

(***************************************************************************)
(* The dispatch                                                            *)
(***************************************************************************)

LEMMA DispatchScenes == Spec => [](scene = "dispatch" => DispatchInv)
<1> DEFINE Inv == scene = "dispatch" => DispatchInv
<1>1. Init => Inv
  BY SceneStarts, DispatchStarts
<1>2. Inv /\ [Next]_servicesVars => Inv'
  <2> SUFFICES ASSUME Inv, [Next]_servicesVars, scene' = "dispatch" PROVE DispatchInv'
    OBVIOUS
  <2>1. scene = "dispatch" /\ [DispatchNext]_dispatchVars
    BY SceneSteps
  <2> QED
    BY <2>1, DispatchSteps
<1> QED
  BY <1>1, <1>2, PTL DEF Spec

\* A directory that exists is being made, or could not be removed, or has a task
\* that runs in it or keeps it: for any calls of task_dispatch, in any order, and
\* wherever a thread dies.
THEOREM ServicesRooms == Spec => []RoomsStand
<1>1. (scene = "dispatch" => DispatchInv) => RoomsStand
  BY DEF DispatchInv, RoomsStand
<1> QED
  BY <1>1, DispatchScenes, PTL

\* The text in the prompt of a read-only task is the one its contract names, for
\* whoever is answered with it, however often the user saves meanwhile.
THEOREM ServicesText == Spec => []TextStands
<1>1. (scene = "dispatch" => DispatchInv) => TextStands
  BY TextFrozen DEF TextStands
<1> QED
  BY <1>1, DispatchScenes, PTL

(***************************************************************************)
(* The tools                                                               *)
(***************************************************************************)

LEMMA ToolScenes == Spec => [](scene = "tools" => ToolInv)
<1> DEFINE Inv == scene = "tools" => ToolInv
<1>1. Init => Inv
  BY SceneStarts, ToolStarts
<1>2. Inv /\ [Next]_servicesVars => Inv'
  <2> SUFFICES ASSUME Inv, [Next]_servicesVars, scene' = "tools" PROVE ToolInv'
    OBVIOUS
  <2>1. scene = "tools" /\ [ToolNext]_toolVars
    BY SceneSteps
  <2> QED
    BY <2>1, ToolSteps
<1> QED
  BY <1>1, <1>2, PTL DEF Spec

\* A tool's successful answer was true of what the path held at some moment of
\* the call, or says that it is cut, never shows more than the caller allowed, is
\* of no statement that writes, and is on record: for any limits and contents,
\* however often the workspace changes under the call.
THEOREM ServicesTools == Spec => []ToolsAnswer
<1>1. (scene = "tools" => ToolInv) => ToolsAnswer
  BY ToolsTold DEF ToolsAnswer
<1> QED
  BY <1>1, ToolScenes, PTL

(***************************************************************************)
(* The context                                                             *)
(***************************************************************************)

LEMMA ContextScenes == Spec => [](scene = "context" => KnowledgeInv)
<1> DEFINE Inv == scene = "context" => KnowledgeInv
<1>1. Init => Inv
  BY SceneStarts, ContextStarts
<1>2. Inv /\ [Next]_servicesVars => Inv'
  <2> SUFFICES ASSUME Inv, [Next]_servicesVars, scene' = "context" PROVE KnowledgeInv'
    OBVIOUS
  <2>1. scene = "context" /\ [ContextNext]_contextVars
    BY SceneSteps
  <2> QED
    BY <2>1, ContextSteps
<1> QED
  BY <1>1, <1>2, PTL DEF Spec

\* A knowledge collection has the manifest it was registered with, though the two
\* are written apart; whoever is told that files are still what was registered was
\* told so of each of them; and the segments of a scope hold each file once, in
\* order and within the limits: for any files, sizes and callers, however the files
\* change and wherever a call dies.
THEOREM ServicesContext == Spec => []ContextStands
<1>1. (scene = "context" => KnowledgeInv) => ContextStands
  BY KnowledgeTold, SegmentsStand DEF ContextStands
<1> QED
  BY <1>1, ContextScenes, PTL

(***************************************************************************)
(* The planner                                                             *)
(***************************************************************************)

\* How what of s is in T goes on.
Narrowing(s, T, S) ==
  [i \in 1..Len(s) |->
     [d \in Seq(S) |-> IF s[i] \in T THEN Append(d, s[i]) ELSE d]]

\* What of a sequence is in a set, unwound.
LEMMA OnlyUnwinds ==
  ASSUME NEW S, NEW s \in Seq(S), NEW T
  PROVE  \E f : /\ Unwinds(f, Len(s), Seq(S), <<>>, Narrowing(s, T, S))
                /\ Only(s, T) = f[Len(s)]
<1> DEFINE n == Len(s)
           D == Seq(S)
           G == Narrowing(s, T, S)
           Is(h) == h = [i \in 0 .. Len(s) |->
                           IF i = 0 THEN <<>>
                           ELSE IF s[i] \in T THEN Append(h[i - 1], s[i]) ELSE h[i - 1]]
           h == CHOOSE f : Is(f)
<1>1. n \in Nat /\ <<>> \in D /\ \A i \in 1..n : s[i] \in S
  BY LenProperties, ElementOfSeq
<1>2. ASSUME NEW i \in 1..n, NEW d \in D
      PROVE  /\ G[i][d] \in D
             /\ G[i][d] = IF s[i] \in T THEN Append(d, s[i]) ELSE d
  BY <1>1, AppendProperties DEF Narrowing
<1>3. G \in [1..n -> [D -> D]]
  BY <1>1, AppendProperties DEF Narrowing
<1>4. PICK f : Unwinds(f, n, D, <<>>, G)
  <2>1. n \in Nat /\ <<>> \in D
    BY <1>1
  <2> HIDE DEF n, D, G
  <2> QED
    BY <1>3, <2>1, Recursion
<1>5. Is(h)
  <2> DEFINE t == [i \in 0 .. n |->
                     IF i = 0 THEN <<>>
                     ELSE IF s[i] \in T THEN Append(f[i - 1], s[i]) ELSE f[i - 1]]
  <2>1. ASSUME NEW i \in 0..n PROVE f[i] = t[i]
    <3>1. CASE i = 0
      BY <1>4, <3>1 DEF Unwinds
    <3>2. CASE i # 0
      <4>1. i \in 1..n /\ i - 1 \in 0..n
        BY <1>1, <3>2
      <4>2. f[i - 1] \in D /\ f[i] = G[i][f[i - 1]]
        BY <1>4, <4>1 DEF Unwinds
      <4>3. f[i] = IF s[i] \in T THEN Append(f[i - 1], s[i]) ELSE f[i - 1]
        <5> HIDE DEF G, D, n
        <5> QED
          BY <1>2, <4>1, <4>2
      <4> QED
        BY <3>2, <4>3
    <3> QED
      BY <3>1, <3>2
  <2>2. f = [i \in 0..n |-> f[i]] /\ t = [i \in 0..n |-> t[i]]
    BY <1>4 DEF Unwinds
  <2> HIDE DEF t
  <2>3. f = t
    BY <2>1, <2>2
  <2>4. Is(f)
    BY <2>3 DEF t
  <2> QED
    BY <2>4
<1>6. Only(s, T) = h[n]
  BY DEF Only
<1> HIDE DEF h
<1>7. Unwinds(h, n, D, <<>>, G)
  <2>1. h = [i \in 0..n |-> h[i]] /\ h[0] = <<>>
    BY <1>1, <1>5
  <2>2. ASSUME NEW i \in 1..n, h[i - 1] \in D PROVE h[i] = G[i][h[i - 1]]
    <3>1. i \in 0..n /\ i # 0
      BY <1>1
    <3>2. h[i] = IF s[i] \in T THEN Append(h[i - 1], s[i]) ELSE h[i - 1]
      BY <1>5, <3>1
    <3> HIDE DEF G, D, n
    <3> QED
      BY <1>2, <2>2, <3>2
  <2>3. n \in Nat /\ <<>> \in D
    BY <1>1
  <2> HIDE DEF G, D, n
  <2> QED
    BY <1>3, <2>1, <2>2, <2>3, Unwound
<1> QED
  BY <1>6, <1>7

\* Nothing is left of nothing; an element more is left if it is in the set.
LEMMA OnlyOfNone == ASSUME NEW T PROVE Only(<<>>, T) = <<>>
<1> DEFINE none == <<>>
<1>1. none \in Seq({}) /\ Len(none) = 0
  OBVIOUS
<1>2. PICK f : /\ Unwinds(f, Len(none), Seq({}), <<>>, Narrowing(none, T, {}))
               /\ Only(none, T) = f[Len(none)]
  <2> HIDE DEF none
  <2> QED
    BY <1>1, OnlyUnwinds
<1> QED
  BY <1>1, <1>2 DEF Unwinds

LEMMA OnlyOfMore ==
  ASSUME NEW S, NEW s \in Seq(S), NEW e \in S, NEW T
  PROVE  /\ Only(s, T) \in Seq(S)
         /\ Only(Append(s, e), T) = IF e \in T THEN Append(Only(s, T), e) ELSE Only(s, T)
<1> DEFINE n == Len(s)
           tt == Append(s, e)
           D == Seq(S)
<1>1. n \in Nat /\ <<>> \in D
  BY LenProperties
<1>2. /\ tt \in Seq(S) /\ Len(tt) = n + 1 /\ tt[n + 1] = e
      /\ \A i \in 1..n : tt[i] = s[i]
  BY AppendProperties
<1>3. PICK f : /\ Unwinds(f, n, D, <<>>, Narrowing(s, T, S))
               /\ Only(s, T) = f[n]
  BY OnlyUnwinds
<1> HIDE DEF tt
<1>4. PICK g : /\ Unwinds(g, n + 1, D, <<>>, Narrowing(tt, T, S))
               /\ Only(tt, T) = g[n + 1]
  BY <1>2, OnlyUnwinds
<1>7. \A i \in 1..n : Narrowing(tt, T, S)[i] = Narrowing(s, T, S)[i]
  <2> SUFFICES ASSUME NEW i \in 1..n
               PROVE  Narrowing(tt, T, S)[i] = Narrowing(s, T, S)[i]
    OBVIOUS
  <2>1. i \in 1..Len(tt) /\ tt[i] = s[i]
    BY <1>1, <1>2
  <2> QED
    BY <2>1 DEF Narrowing
<1>8. f[n] = g[n]
  <2> DEFINE G == Narrowing(s, T, S)
             H == Narrowing(tt, T, S)
             m == n + 1
             none == <<>>
  <2>1. m \in Nat /\ n <= m /\ n \in Nat /\ n \in 0..n
    BY <1>1
  <2>6. SameSteps(G, H, n)
    BY <1>7 DEF SameSteps
  <2>3. Unwinds(f, n, D, none, G) /\ Unwinds(g, m, D, none, H)
    BY <1>3, <1>4
  <2> HIDE DEF G, H, m, n, D, none
  <2>5. \A i \in 0..n : f[i] = g[i]
    BY <2>1, <2>3, <2>6, UnwindsSame
  <2> QED
    BY <2>1, <2>5
<1>9. g[n + 1] = Narrowing(tt, T, S)[n + 1][g[n]]
  <2>1. n + 1 \in 1..(n + 1) /\ (n + 1) - 1 = n
    BY <1>1
  <2> QED
    BY <1>4, <2>1 DEF Unwinds
<1>10. f[n] \in D
  <2>1. n \in 0..n /\ Unwinds(f, n, D, <<>>, Narrowing(s, T, S))
    BY <1>1, <1>3
  <2> HIDE DEF n, D
  <2> QED
    BY <2>1 DEF Unwinds
<1>11. Narrowing(tt, T, S)[n + 1][f[n]] = IF e \in T THEN Append(f[n], e) ELSE f[n]
  <2>1. n + 1 \in 1..Len(tt)
    BY <1>1, <1>2
  <2> QED
    BY <1>2, <1>10, <2>1 DEF Narrowing
<1> QED
  BY <1>3, <1>4, <1>8, <1>9, <1>10, <1>11 DEF tt

\* The steps of the policies.
LEMMA TheKeys ==
  StepKeys = {"analyze", "report", "implement", "verify", "inspect", "review",
              "document", "diagnose", "remediate"}
<1>1. DOMAIN BasePolicies
        = {"analysis", "implementation", "review", "documentation", "maintenance"}
  BY DEF BasePolicies
<1>2. /\ ToSet(BasePolicies["analysis"]) = {"analyze", "report"}
      /\ ToSet(BasePolicies["implementation"]) = {"analyze", "implement", "verify"}
      /\ ToSet(BasePolicies["review"]) = {"inspect", "review", "report"}
      /\ ToSet(BasePolicies["documentation"]) = {"analyze", "document", "verify"}
      /\ ToSet(BasePolicies["maintenance"]) = {"diagnose", "remediate", "verify"}
  BY DEF BasePolicies, ToSet
<1> QED
  BY <1>1, <1>2 DEF StepKeys

\* The step that waits for an approval, of keys that have the k-th wanted one and
\* none before it.
LEMMA ApprovalIs ==
  ASSUME NEW keys, NEW wanted,
         wanted = <<"implement", "remediate", "document", "review", "report">>,
         NEW k \in 1..5, wanted[k] \in ToSet(keys),
         \A i \in 1..5 : i < k => wanted[i] \notin ToSet(keys)
  PROVE  ApprovalKey(keys) = wanted[k]
<1> DEFINE there == {i \in DOMAIN wanted : wanted[i] \in ToSet(keys)}
<1>1. DOMAIN wanted = 1..5
  OBVIOUS
<1>2. k \in there /\ \A i \in there : i \in 1..5 /\ k <= i
  BY <1>1
<1>3. Min(there) = k
  <2> HIDE DEF there
  <2>1. \A x \in there : (\A y \in there : x <= y) => x = k
    BY <1>2
  <2>2. \E x \in there : \A y \in there : x <= y
    BY <1>2
  <2>3. /\ Min(there) \in there
        /\ \A y \in there : Min(there) <= y
    BY <2>2 DEF Min
  <2> QED
    BY <2>1, <2>3
<1> QED
  BY <1>2, <1>3 DEF ApprovalKey, Preferred

\* What makes some keys do what is meant: each step once, those of a kind of work
\* in their places, and the one that waits for an approval before what changes
\* something.
Arranged(keys, intent) ==
  /\ keys \in Seq(StepKeys) /\ keys # <<>>
  /\ \A i, j \in DOMAIN keys : keys[i] = keys[j] => i = j
  /\ \E a \in DOMAIN keys :
       /\ keys[a] = ApprovalKey(keys)
       /\ \A i \in DOMAIN keys : keys[i] \in Changing => a <= i
  /\ ToSet(keys) \cap Changing # {} => (intent.verify <=> "verify" \in ToSet(keys))
  /\ intent.level = "high" => "review" \in ToSet(keys)
  /\ \A i, j \in DOMAIN keys :
       /\ keys[i] \in Changing /\ keys[j] = "verify" => i < j
       /\ keys[i] = "verify" /\ keys[j] = "review" => i < j
       /\ keys[i] # "report" /\ keys[j] = "report" => i < j

\* The ways in which the steps of a policy come.
LEMMA ReportsArranged ==
  ASSUME NEW intent \in IntentType
  PROVE  /\ intent.level # "high" => Arranged(<<"analyze", "report">>, intent)
         /\ Arranged(<<"analyze", "review", "report">>, intent)
         /\ Arranged(<<"inspect", "review", "report">>, intent)
<1>1. ASSUME NEW a \in StepKeys \ (Changing \cup {"verify", "review", "report"})
      PROVE  Arranged(<<a, "review", "report">>, intent)
  <2> DEFINE keys == <<a, "review", "report">>
  <2>1. /\ keys \in Seq(StepKeys) /\ DOMAIN keys = 1..3 /\ keys # <<>>
        /\ keys[1] = a /\ keys[2] = "review" /\ keys[3] = "report"
    BY TheKeys
  <2>2. ToSet(keys) = {a, "review", "report"}
    BY <2>1 DEF ToSet
  <2> HIDE DEF keys
  <2>3. ApprovalKey(keys) = "review"
    <3> DEFINE wanted == <<"implement", "remediate", "document", "review", "report">>
    <3>1. /\ 4 \in 1..5 /\ wanted[4] \in ToSet(keys)
          /\ \A i \in 1..5 : i < 4 => wanted[i] \notin ToSet(keys)
      BY <2>2 DEF Changing
    <3>2. wanted[4] = "review"
      OBVIOUS
    <3>3. ApprovalKey(keys) = wanted[4]
      BY <3>1, ApprovalIs
    <3> QED
      BY <3>2, <3>3
  <2>4. \A i \in DOMAIN keys : keys[i] \notin Changing
    BY <2>1 DEF Changing
  <2>5. \E b \in DOMAIN keys : /\ keys[b] = ApprovalKey(keys)
                               /\ \A i \in DOMAIN keys : keys[i] \in Changing => b <= i
    BY <2>1, <2>3, <2>4
  <2>6. ToSet(keys) \cap Changing = {}
    BY <2>2 DEF Changing
  <2>7. \A i, j \in DOMAIN keys :
          /\ keys[i] = keys[j] => i = j
          /\ keys[i] # "report" /\ keys[j] = "report" => i < j
          /\ keys[i] # "verify"
    BY <2>1
  <2>8. Arranged(keys, intent)
    BY <2>1, <2>2, <2>4, <2>5, <2>6, <2>7 DEF Arranged
  <2> QED
    BY <2>8 DEF keys
<1>2. ASSUME intent.level # "high" PROVE Arranged(<<"analyze", "report">>, intent)
  <2> DEFINE keys == <<"analyze", "report">>
  <2>1. /\ keys \in Seq(StepKeys) /\ DOMAIN keys = 1..2 /\ keys # <<>>
        /\ keys[1] = "analyze" /\ keys[2] = "report"
    BY TheKeys
  <2>2. ToSet(keys) = {"analyze", "report"}
    BY <2>1 DEF ToSet
  <2> HIDE DEF keys
  <2>3. ApprovalKey(keys) = "report"
    <3> DEFINE wanted == <<"implement", "remediate", "document", "review", "report">>
    <3>1. /\ 5 \in 1..5 /\ wanted[5] \in ToSet(keys)
          /\ \A i \in 1..5 : i < 5 => wanted[i] \notin ToSet(keys)
      BY <2>2
    <3>2. wanted[5] = "report"
      OBVIOUS
    <3>3. ApprovalKey(keys) = wanted[5]
      BY <3>1, ApprovalIs
    <3> QED
      BY <3>2, <3>3
  <2>4. \A i \in DOMAIN keys : keys[i] \notin Changing
    BY <2>1 DEF Changing
  <2>5. \E b \in DOMAIN keys : /\ keys[b] = ApprovalKey(keys)
                               /\ \A i \in DOMAIN keys : keys[i] \in Changing => b <= i
    BY <2>1, <2>3, <2>4
  <2>6. ToSet(keys) \cap Changing = {}
    BY <2>2 DEF Changing
  <2>7. \A i, j \in DOMAIN keys :
          /\ keys[i] = keys[j] => i = j
          /\ keys[i] # "report" /\ keys[j] = "report" => i < j
          /\ keys[i] # "verify"
    BY <2>1
  <2>8. Arranged(keys, intent)
    BY <1>2, <2>1, <2>2, <2>4, <2>5, <2>6, <2>7 DEF Arranged
  <2> QED
    BY <2>8 DEF keys
<1>3. "analyze" \in StepKeys \ (Changing \cup {"verify", "review", "report"})
      /\ "inspect" \in StepKeys \ (Changing \cup {"verify", "review", "report"})
  BY TheKeys DEF Changing
<1> QED
  BY <1>1, <1>2, <1>3

\* What comes after a step that changes something: a verification if it is
\* wanted, a review if the work is complex.
After(intent) ==
  IF intent.verify
    THEN IF intent.level = "high" THEN <<"verify", "review">> ELSE <<"verify">>
    ELSE IF intent.level = "high" THEN <<"review">> ELSE <<>>

LEMMA ChangesArranged ==
  ASSUME NEW intent \in IntentType,
         NEW a \in StepKeys \ (Changing \cup {"verify", "review", "report"}),
         NEW x \in Changing
  PROVE  Arranged(<<a, x>> \o After(intent), intent)
<1> DEFINE keys == <<a, x>> \o After(intent)
<1>1. /\ Len(After(intent)) \in 0..2 /\ After(intent) \in Seq({"verify", "review"})
      /\ intent.verify /\ intent.level = "high" => After(intent) = <<"verify", "review">>
      /\ intent.verify /\ intent.level # "high" => After(intent) = <<"verify">>
      /\ ~intent.verify /\ intent.level = "high" => After(intent) = <<"review">>
      /\ ~intent.verify /\ intent.level # "high" => After(intent) = <<>>
  <2>1. \/ After(intent) = <<"verify", "review">> \/ After(intent) = <<"verify">>
        \/ After(intent) = <<"review">> \/ After(intent) = <<>>
    BY DEF After
  <2>2. Len(After(intent)) \in 0..2 /\ After(intent) \in Seq({"verify", "review"})
    <3>1. /\ <<"verify", "review">> \in Seq({"verify", "review"})
          /\ Len(<<"verify", "review">>) = 2
      OBVIOUS
    <3>2. <<"verify">> \in Seq({"verify", "review"}) /\ Len(<<"verify">>) = 1
      OBVIOUS
    <3>3. <<"review">> \in Seq({"verify", "review"}) /\ Len(<<"review">>) = 1
      OBVIOUS
    <3>4. <<>> \in Seq({"verify", "review"}) /\ Len(<<>>) = 0
      OBVIOUS
    <3>5. CASE After(intent) = <<"verify", "review">>
      BY <3>1, <3>5
    <3>6. CASE After(intent) = <<"verify">>
      BY <3>2, <3>6
    <3>7. CASE After(intent) = <<"review">>
      BY <3>3, <3>7
    <3>8. CASE After(intent) = <<>>
      BY <3>4, <3>8
    <3> QED
      BY <2>1, <3>5, <3>6, <3>7, <3>8
  <2> QED
    BY <2>2 DEF After
<1> DEFINE m == Len(After(intent))
<1>2. /\ keys \in Seq(StepKeys) /\ DOMAIN keys = 1..(2 + m) /\ keys # <<>>
      /\ keys[1] = a /\ keys[2] = x
      /\ \A i \in 3..(2 + m) : keys[i] = After(intent)[i - 2]
  BY <1>1, TheKeys DEF Changing
<1>3. /\ m \in 0..2
      /\ m = 2 => /\ intent.verify /\ intent.level = "high"
                  /\ keys[3] = "verify" /\ keys[4] = "review"
      /\ m = 1 => \/ intent.verify /\ intent.level # "high" /\ keys[3] = "verify"
                  \/ ~intent.verify /\ intent.level = "high" /\ keys[3] = "review"
      /\ m = 0 => ~intent.verify /\ intent.level # "high"
  <2>1. CASE intent.verify /\ intent.level = "high"
    <3>1. m = 2 /\ After(intent)[1] = "verify" /\ After(intent)[2] = "review"
      BY <1>1, <2>1
    <3>2. keys[3] = After(intent)[1] /\ keys[4] = After(intent)[2]
      BY <1>2, <3>1
    <3> HIDE DEF keys, m
    <3> QED
      BY <2>1, <3>1, <3>2
  <2>2. CASE intent.verify /\ intent.level # "high"
    <3>1. m = 1 /\ After(intent)[1] = "verify"
      BY <1>1, <2>2
    <3>2. keys[3] = After(intent)[1]
      BY <1>2, <3>1
    <3> QED
      BY <2>2, <3>1, <3>2
  <2>3. CASE ~intent.verify /\ intent.level = "high"
    <3>1. m = 1 /\ After(intent)[1] = "review"
      BY <1>1, <2>3
    <3>2. keys[3] = After(intent)[1]
      BY <1>2, <3>1
    <3> QED
      BY <2>3, <3>1, <3>2
  <2>4. CASE ~intent.verify /\ intent.level # "high"
    <3>1. m = 0
      BY <1>1, <2>4
    <3> QED
      BY <2>4, <3>1
  <2> QED
    BY <2>1, <2>2, <2>3, <2>4
<1> HIDE DEF keys, m
<1>4. \A i \in DOMAIN keys : \/ i = 1 \/ i = 2
                            \/ (m >= 1 /\ i = 3) \/ (m = 2 /\ i = 4)
  BY <1>2, <1>3
<1>5. /\ x \in ToSet(keys)
      /\ ToSet(keys) \subseteq {a, x, "verify", "review"}
      /\ intent.verify <=> "verify" \in ToSet(keys)
      /\ intent.level = "high" <=> "review" \in ToSet(keys)
  <2>1. x \in ToSet(keys) /\ \A i \in DOMAIN keys : keys[i] \in ToSet(keys)
    BY <1>2, <1>3 DEF ToSet
  <2>2. ToSet(keys) \subseteq {a, x, "verify", "review"}
    BY <1>2, <1>3, <1>4 DEF ToSet
  <2>3. a \notin {"verify", "review"} /\ x \notin {"verify", "review"}
    BY DEF Changing
  <2>4. /\ intent.verify => \E i \in DOMAIN keys : keys[i] = "verify"
        /\ intent.level = "high" => \E i \in DOMAIN keys : keys[i] = "review"
    BY <1>2, <1>3
  <2>5. /\ ~intent.verify => \A i \in DOMAIN keys : keys[i] # "verify"
        /\ intent.level # "high" => \A i \in DOMAIN keys : keys[i] # "review"
    BY <1>2, <1>3, <1>4, <2>3
  <2>6. intent.verify \in BOOLEAN
    BY DEF IntentType
  <2> QED
    BY <2>1, <2>2, <2>4, <2>5, <2>6 DEF ToSet
<1>6. ApprovalKey(keys) = x
  <2> DEFINE wanted == <<"implement", "remediate", "document", "review", "report">>
  <2>1. PICK k \in 1..3 : wanted[k] = x
    BY DEF Changing
  <2>2. /\ k \in 1..5 /\ wanted[k] \in ToSet(keys)
        /\ \A i \in 1..5 : i < k => wanted[i] \notin ToSet(keys)
    <3>1. \A i \in 1..3 : wanted[i] \in Changing /\ (i # k => wanted[i] # x)
      BY <2>1 DEF Changing
    <3>2. \A i \in 1..3 : wanted[i] \notin {a, "verify", "review"}
      BY <3>1 DEF Changing
    <3> QED
      BY <1>5, <2>1, <3>1, <3>2
  <2>3. ApprovalKey(keys) = wanted[k]
    BY <2>2, ApprovalIs
  <2> QED
    BY <2>1, <2>3
<1>7. \E b \in DOMAIN keys : /\ keys[b] = ApprovalKey(keys)
                             /\ \A i \in DOMAIN keys : keys[i] \in Changing => b <= i
  <2>1. 2 \in DOMAIN keys /\ keys[2] = ApprovalKey(keys)
    BY <1>2, <1>3, <1>6
  <2>2. \A i \in DOMAIN keys : keys[i] \in Changing => 2 <= i
    BY <1>2, <1>3, <1>4
  <2> QED
    BY <2>1, <2>2
<1>8. \A i, j \in DOMAIN keys :
        /\ keys[i] = keys[j] => i = j
        /\ keys[i] \in Changing /\ keys[j] = "verify" => i < j
        /\ keys[i] = "verify" /\ keys[j] = "review" => i < j
        /\ keys[j] # "report"
  <2>1. a \notin {"verify", "review", "report"} /\ x \notin {"verify", "review", "report"}
        /\ a # x /\ a \notin Changing /\ "verify" \notin Changing /\ "review" \notin Changing
    BY DEF Changing
  <2> QED
    BY <1>2, <1>3, <1>4, <2>1
<1>9. Arranged(keys, intent)
  BY <1>2, <1>5, <1>7, <1>8 DEF Arranged
<1> QED
  BY <1>9 DEF keys

\* A short sequence is the one before it with its last element.
LEMMA Grown ==
  ASSUME NEW a, NEW b, NEW c
  PROVE  /\ Append(<<>>, a) = <<a>>
         /\ Append(<<a>>, b) = <<a, b>> /\ <<a>> \o <<b>> = <<a, b>>
         /\ Append(<<a, b>>, c) = <<a, b, c>> /\ <<a, b>> \o <<c>> = <<a, b, c>>
<1> DEFINE S == {a, b, c}
<1>1. /\ <<a>> \in Seq(S) /\ <<a, b>> \in Seq(S) /\ <<a, b, c>> \in Seq(S)
      /\ a \in S /\ b \in S /\ c \in S
  OBVIOUS
<1> HIDE DEF S
<1>2. Append(<<>>, a) = <<a>>
  OBVIOUS
<1>3. Append(<<a>>, b) = <<a, b>>
  <2> DEFINE s == <<a>>
             t == <<a, b>>
             u == Append(s, b)
  <2>1. s \in Seq(S) /\ t \in Seq(S) /\ b \in S
    BY <1>1
  <2>2. /\ Len(s) = 1 /\ Len(t) = 2
        /\ s[1] = a /\ t[1] = a /\ t[2] = b
    OBVIOUS
  <2> HIDE DEF s, t
  <2>3. /\ u \in Seq(S) /\ Len(u) = Len(s) + 1 /\ u[Len(s) + 1] = b
        /\ \A i \in 1..Len(s) : u[i] = s[i]
    BY <2>1, AppendProperties
  <2> HIDE DEF u
  <2>4. Len(u) = 2 /\ \A i \in 1..Len(u) : u[i] = t[i]
    BY <2>2, <2>3
  <2>5. u = t
    BY <2>1, <2>2, <2>3, <2>4, SeqEqual
  <2> QED
    BY <2>5 DEF u, s, t
<1>4. Append(<<a, b>>, c) = <<a, b, c>>
  <2> DEFINE s == <<a, b>>
             t == <<a, b, c>>
             u == Append(s, c)
  <2>1. s \in Seq(S) /\ t \in Seq(S) /\ c \in S
    BY <1>1
  <2>2. /\ Len(s) = 2 /\ Len(t) = 3
        /\ s[1] = a /\ t[1] = a /\ s[2] = b /\ t[2] = b /\ t[3] = c
    OBVIOUS
  <2> HIDE DEF s, t
  <2>3. /\ u \in Seq(S) /\ Len(u) = Len(s) + 1 /\ u[Len(s) + 1] = c
        /\ \A i \in 1..Len(s) : u[i] = s[i]
    BY <2>1, AppendProperties
  <2> HIDE DEF u
  <2>4. Len(u) = 3 /\ \A i \in 1..Len(u) : u[i] = t[i]
    BY <2>2, <2>3
  <2>5. u = t
    BY <2>1, <2>2, <2>3, <2>4, SeqEqual
  <2> QED
    BY <2>5 DEF u, s, t
<1>5. Append(<<a>>, b) = <<a>> \o <<b>>
  <2> DEFINE s == <<a>>
  <2>1. s \in Seq(S)
    BY <1>1
  <2> HIDE DEF s
  <2>2. Append(s, b) = s \o <<b>>
    BY <1>1, <2>1, AppendIsConcat
  <2> QED
    BY <2>2 DEF s
<1>6. Append(<<a, b>>, c) = <<a, b>> \o <<c>>
  <2> DEFINE s == <<a, b>>
  <2>1. s \in Seq(S)
    BY <1>1
  <2> HIDE DEF s
  <2>2. Append(s, c) = s \o <<c>>
    BY <1>1, <2>1, AppendIsConcat
  <2> QED
    BY <2>2 DEF s
<1> QED
  BY <1>2, <1>3, <1>4, <1>5, <1>6

\* What is left of the steps of a kind that changes something when no verification
\* is wanted, and that the other kinds have none.
LEMMA NoVerification ==
  LET T == StepKeys \ {"verify"} IN
  /\ \A a, x \in T : Only(<<a, x, "verify">>, T) = <<a, x>>
  /\ Only(<<"analyze", "report">>, T) = <<"analyze", "report">>
  /\ Only(<<"inspect", "review", "report">>, T) = <<"inspect", "review", "report">>
<1> DEFINE T == StepKeys \ {"verify"}
           S == StepKeys
           none == <<>>
<1>1. Only(none, T) = none /\ none \in Seq(S)
  BY OnlyOfNone
<1>2. /\ \A a \in T : a \in S
      /\ "verify" \in S /\ "verify" \notin T
      /\ {"analyze", "report", "inspect", "review"} \subseteq T
  BY TheKeys
<1> HIDE DEF T, S, none
<1>3. ASSUME NEW s \in Seq(S), NEW e \in S
      PROVE  Only(Append(s, e), T) = IF e \in T THEN Append(Only(s, T), e) ELSE Only(s, T)
  BY OnlyOfMore
<1>4. ASSUME NEW a \in T PROVE Only(<<a>>, T) = <<a>>
  <2>1. a \in S /\ Append(none, a) = <<a>>
    BY <1>2, Grown DEF none
  <2>2. Only(Append(none, a), T) = Append(Only(none, T), a)
    BY <1>1, <1>3, <2>1
  <2> QED
    BY <1>1, <2>1, <2>2
<1>5. ASSUME NEW a \in T, NEW b \in T PROVE Only(<<a, b>>, T) = <<a, b>>
  <2>3. a \in S /\ b \in S
    BY <1>2
  <2>1. <<a>> \in Seq(S) /\ Append(<<a>>, b) = <<a, b>>
    <3>1. <<a>> \in Seq(S)
      BY <2>3
    <3> QED
      BY <3>1, Grown, Zenon
  <2>2. Only(Append(<<a>>, b), T) = Append(Only(<<a>>, T), b)
    BY <1>3, <2>1, <2>3
  <2> QED
    BY <1>4, <2>1, <2>2
<1>6. ASSUME NEW a \in T, NEW b \in T, NEW c \in S
      PROVE  Only(<<a, b, c>>, T) = IF c \in T THEN <<a, b, c>> ELSE <<a, b>>
  <2>3. a \in S /\ b \in S
    BY <1>2
  <2>1. <<a, b>> \in Seq(S) /\ Append(<<a, b>>, c) = <<a, b, c>>
    <3>1. <<a, b>> \in Seq(S)
      BY <2>3
    <3> QED
      BY <3>1, Grown, Zenon
  <2>2. Only(Append(<<a, b>>, c), T)
          = IF c \in T THEN Append(Only(<<a, b>>, T), c) ELSE Only(<<a, b>>, T)
    BY <1>3, <2>1, <2>3
  <2> QED
    BY <1>5, <2>1, <2>2
<1>7. /\ \A a, x \in T : Only(<<a, x, "verify">>, T) = <<a, x>>
      /\ Only(<<"analyze", "report">>, T) = <<"analyze", "report">>
      /\ Only(<<"inspect", "review", "report">>, T) = <<"inspect", "review", "report">>
  <2>1. ASSUME NEW a \in T, NEW x \in T PROVE Only(<<a, x, "verify">>, T) = <<a, x>>
    BY <1>2, <1>6
  <2>2. Only(<<"analyze", "report">>, T) = <<"analyze", "report">>
    BY <1>2, <1>5
  <2>3. Only(<<"inspect", "review", "report">>, T) = <<"inspect", "review", "report">>
    <3>1. /\ "inspect" \in T /\ "review" \in T /\ "report" \in T /\ "report" \in S
      BY <1>2
    <3> QED
      BY <1>6, <3>1
  <2> QED
    BY <2>1, <2>2, <2>3
<1> QED
  BY <1>7 DEF T

\* The base of a policy, and what a review adds to it.
LEMMA PolicyFrom ==
  ASSUME NEW intent \in IntentType, NEW base,
         base = (IF intent.verify THEN BasePolicies[intent.kind]
                 ELSE Only(BasePolicies[intent.kind], StepKeys \ {"verify"}))
  PROVE  /\ intent.level # "high" \/ "review" \in ToSet(base)
              => PolicyKeys(intent) = base
         /\ intent.level = "high" /\ "review" \notin ToSet(base)
              => IF "report" \in ToSet(base)
                 THEN PolicyKeys(intent)
                        = InsertAt(base, CHOOSE i \in DOMAIN base : base[i] = "report", "review")
                 ELSE PolicyKeys(intent) = Append(base, "review")
BY DEF PolicyKeys

\* The steps of a policy are arranged as it is meant.
LEMMA PolicyArranged ==
  ASSUME NEW intent \in IntentType
  PROVE  Arranged(PolicyKeys(intent), intent)
<1> DEFINE base == IF intent.verify THEN BasePolicies[intent.kind]
                   ELSE Only(BasePolicies[intent.kind], StepKeys \ {"verify"})
<1>1. /\ intent.level # "high" \/ "review" \in ToSet(base)
           => PolicyKeys(intent) = base
      /\ intent.level = "high" /\ "review" \notin ToSet(base)
           => IF "report" \in ToSet(base)
              THEN PolicyKeys(intent)
                     = InsertAt(base, CHOOSE i \in DOMAIN base : base[i] = "report", "review")
              ELSE PolicyKeys(intent) = Append(base, "review")
  BY PolicyFrom
<1>2. CASE intent.kind = "analysis"
  <2>1. base = <<"analyze", "report">>
    BY <1>2, NoVerification DEF BasePolicies
  <2> HIDE DEF base
  <2>2. ToSet(base) = {"analyze", "report"}
    BY <2>1 DEF ToSet
  <2>3. CASE intent.level # "high"
    BY <1>1, <2>1, <2>3, ReportsArranged
  <2>4. CASE intent.level = "high"
    <3>1. PolicyKeys(intent)
            = InsertAt(base, CHOOSE i \in DOMAIN base : base[i] = "report", "review")
      BY <1>1, <2>2, <2>4
    <3>2. (CHOOSE i \in DOMAIN base : base[i] = "report") = 2
      BY <2>1
    <3>3. InsertAt(base, 2, "review") = <<"analyze", "review", "report">>
      <4>1. /\ SubSeq(base, 1, 2 - 1) = <<"analyze">>
            /\ SubSeq(base, 2, Len(base)) = <<"report">>
        <5> DEFINE s == SubSeq(base, 1, 2 - 1)
                   t == SubSeq(base, 2, Len(base))
                   S == {"analyze", "report"}
        <5>3. base \in Seq(S) /\ Len(base) = 2 /\ base[1] = "analyze" /\ base[2] = "report"
          BY <2>1
        <5>1. /\ s \in Seq(S) /\ Len(s) = 1 /\ s[1] = "analyze"
              /\ t \in Seq(S) /\ Len(t) = 1 /\ t[1] = "report"
          BY <5>3
        <5> HIDE DEF s, t
        <5>2. s = <<"analyze">> /\ t = <<"report">>
          BY <5>1
        <5> QED
          BY <5>2 DEF s, t
      <4>2. <<"analyze">> \o <<"review">> \o <<"report">>
              = <<"analyze", "review", "report">>
        <5>1. <<"analyze">> \o <<"review">> = <<"analyze", "review">>
          BY Grown, Zenon
        <5>2. <<"analyze", "review">> \o <<"report">> = <<"analyze", "review", "report">>
          BY Grown, Zenon
        <5> QED
          BY <5>1, <5>2
      <4> QED
        BY <4>1, <4>2 DEF InsertAt
    <3> QED
      BY <3>1, <3>2, <3>3, ReportsArranged
  <2> QED
    BY <2>3, <2>4
<1>3. CASE intent.kind = "review"
  <2>1. base = <<"inspect", "review", "report">>
    BY <1>3, NoVerification DEF BasePolicies
  <2> HIDE DEF base
  <2>2. "review" \in ToSet(base)
    BY <2>1 DEF ToSet
  <2> QED
    BY <1>1, <2>1, <2>2, ReportsArranged
<1>4. ASSUME NEW a \in StepKeys \ (Changing \cup {"verify", "review", "report"}),
             NEW x \in Changing, BasePolicies[intent.kind] = <<a, x, "verify">>
      PROVE  Arranged(PolicyKeys(intent), intent)
  <2>1. /\ intent.verify => base = <<a, x, "verify">>
        /\ ~intent.verify => base = <<a, x>>
    <3>1. a \in StepKeys \ {"verify"} /\ x \in StepKeys \ {"verify"}
      BY TheKeys DEF Changing
    <3> QED
      BY <1>4, <3>1, NoVerification
  <2> HIDE DEF base
  <2>2. a \notin {"verify", "review", "report"} /\ x \notin {"verify", "review", "report"}
    BY DEF Changing
  <2>3. "review" \notin ToSet(base) /\ "report" \notin ToSet(base)
    <3>1. CASE intent.verify
      BY <2>1, <2>2, <3>1 DEF ToSet
    <3>2. CASE ~intent.verify
      BY <2>1, <2>2, <3>2 DEF ToSet
    <3> QED
      BY <3>1, <3>2
  <2>4. /\ intent.level # "high" => PolicyKeys(intent) = base
        /\ intent.level = "high" => PolicyKeys(intent) = Append(base, "review")
    BY <1>1, <2>3
  <2>5. PolicyKeys(intent) = <<a, x>> \o After(intent)
    <3>1. CASE intent.verify /\ intent.level = "high"
      <4>1. Append(<<a, x, "verify">>, "review") = <<a, x>> \o <<"verify", "review">>
        OBVIOUS
      <4>2. After(intent) = <<"verify", "review">>
        BY <3>1 DEF After
      <4> QED
        BY <2>1, <2>4, <3>1, <4>1, <4>2
    <3>2. CASE intent.verify /\ intent.level # "high"
      <4>1. <<a, x, "verify">> = <<a, x>> \o <<"verify">>
        OBVIOUS
      <4>2. After(intent) = <<"verify">>
        BY <3>2 DEF After
      <4> QED
        BY <2>1, <2>4, <3>2, <4>1, <4>2
    <3>3. CASE ~intent.verify /\ intent.level = "high"
      <4>1. Append(<<a, x>>, "review") = <<a, x>> \o <<"review">>
        OBVIOUS
      <4>2. After(intent) = <<"review">>
        BY <3>3 DEF After
      <4> QED
        BY <2>1, <2>4, <3>3, <4>1, <4>2
    <3>4. CASE ~intent.verify /\ intent.level # "high"
      <4>1. <<a, x>> = <<a, x>> \o <<>>
        OBVIOUS
      <4>2. After(intent) = <<>>
        BY <3>4 DEF After
      <4> QED
        BY <2>1, <2>4, <3>4, <4>1, <4>2
    <3> QED
      BY <3>1, <3>2, <3>3, <3>4
  <2> QED
    BY <2>5, ChangesArranged
<1>5. CASE intent.kind \in {"implementation", "documentation", "maintenance"}
  <2>1. PICK a \in {"analyze", "diagnose"}, x \in Changing :
          BasePolicies[intent.kind] = <<a, x, "verify">>
    <3>1. CASE intent.kind = "implementation"
      BY <3>1 DEF BasePolicies, Changing
    <3>2. CASE intent.kind = "documentation"
      BY <3>2 DEF BasePolicies, Changing
    <3>3. CASE intent.kind = "maintenance"
      BY <3>3 DEF BasePolicies, Changing
    <3> QED
      BY <1>5, <3>1, <3>2, <3>3
  <2>2. a \in StepKeys \ (Changing \cup {"verify", "review", "report"})
    BY TheKeys DEF Changing
  <2> QED
    BY <1>4, <2>1, <2>2
<1>6. intent.kind \in {"analysis", "implementation", "review", "documentation", "maintenance"}
  BY DEF IntentType, BasePolicies
<1> QED
  BY <1>2, <1>3, <1>5, <1>6

\* Such steps do what is meant.
LEMMA StepsHonour ==
  ASSUME NEW intent \in IntentType
  PROVE  /\ Honours(Steps(intent), intent) /\ Steps(intent) # <<>>
         /\ \A i \in DOMAIN Steps(intent) : Steps(intent)[i].key \in StepKeys
<1> DEFINE keys == PolicyKeys(intent)
           steps == Steps(intent)
           told == {steps[i].key : i \in DOMAIN steps}
           gates == {i \in DOMAIN steps : steps[i].approval}
<1>1. Arranged(keys, intent)
  BY PolicyArranged
<1>2. /\ DOMAIN steps = DOMAIN keys
      /\ \A i \in DOMAIN keys :
           /\ steps[i].key = keys[i]
           /\ steps[i].approval <=> (intent.approval /\ keys[i] = ApprovalKey(keys))
  BY DEF Steps
<1>3. keys \in Seq(StepKeys) /\ keys # <<>>
  BY <1>1 DEF Arranged
<1>4. 1 \in DOMAIN keys /\ \A i \in DOMAIN keys : keys[i] \in StepKeys /\ i \in Nat
  BY <1>3
<1> HIDE DEF keys, steps
<1>5. told = ToSet(keys)
  BY <1>2 DEF ToSet
<1>6. PICK a \in DOMAIN keys :
        /\ keys[a] = ApprovalKey(keys)
        /\ \A i \in DOMAIN keys : keys[i] \in Changing => a <= i
  BY <1>1 DEF Arranged
<1>7. gates = (IF intent.approval THEN {a} ELSE {})
  <2>1. \A i \in DOMAIN keys : keys[i] = keys[a] => i = a
    BY <1>1 DEF Arranged
  <2> QED
    BY <1>2, <1>6, <2>1
<1>8. Cardinality(gates) = (IF intent.approval THEN 1 ELSE 0)
  <2> HIDE DEF gates
  <2> QED
    BY <1>7, FS_EmptySet, FS_Singleton
<1>9. \A g \in gates, i \in DOMAIN steps : steps[i].key \in Changing => g <= i
  <2>1. gates \subseteq {a}
    BY <1>7
  <2> HIDE DEF gates
  <2> QED
    BY <1>2, <1>6, <2>1
<1>10. /\ told \cap Changing # {} => (intent.verify <=> "verify" \in told)
       /\ intent.level = "high" => "review" \in told
  BY <1>1, <1>5 DEF Arranged
<1>11. /\ Before(steps, Changing, {"verify"}) /\ Before(steps, {"verify"}, {"review"})
       /\ Before(steps, told \ {"report"}, {"report"})
  <2>1. \A i, j \in DOMAIN keys :
          /\ keys[i] \in Changing /\ keys[j] = "verify" => i < j
          /\ keys[i] = "verify" /\ keys[j] = "review" => i < j
          /\ keys[i] # "report" /\ keys[j] = "report" => i < j
    BY <1>1 DEF Arranged
  <2> HIDE DEF told
  <2> QED
    BY <1>2, <2>1 DEF Before
<1>12. Honours(steps, intent)
  BY <1>8, <1>9, <1>10, <1>11 DEF Honours
<1>13. steps # <<>> /\ \A i \in DOMAIN steps : steps[i].key \in StepKeys
  BY <1>2, <1>4
<1> QED
  BY <1>12, <1>13 DEF steps

\* The way of a plan, and what is stored of one.
Way == <<"draft", "validated", "prepared">>
Ways == {<<>>} \cup {Steps(intent) : intent \in IntentType}
Texts == STRING \cup {"none"}
PlanRows ==
  [status : PlanStatuses, version : 0..3, kind : DOMAIN BasePolicies \cup {"none"},
   level : {"low", "medium", "high", "none"}, text : Texts, knowledge : Texts,
   context : Texts, steps : Ways, dependencies : {Chain(steps) : steps \in Ways} \cup {{}}]
PlanEvents == [plan : PlanIds, status : PlanStatuses]

\* The history of a plan.
EventsOf(id) == Only(planEvents, [plan : {id}, status : PlanStatuses])

\* A plan that is stored is as far as its version says, and so is its history.
StoredStands ==
  /\ plans \in [PlanIds -> PlanRows] /\ planEvents \in Seq(PlanEvents)
  /\ \A id \in PlanIds :
       /\ plans[id].version = 0 => plans[id] = NoPlan
       /\ plans[id].version > 0 => plans[id].status = Way[plans[id].version]
       /\ EventsOf(id) \in Seq(PlanEvents) /\ Len(EventsOf(id)) = plans[id].version
       /\ \A i \in 1..Len(EventsOf(id)) : EventsOf(id)[i].status = Way[i]

\* Whoever was given stages was given those of the plan, as it is meant to be by who
\* asked for it, and prepared if it was to be.
ToldStands(client, told) ==
  told.stages # <<>> =>
    /\ told.to = "create" => /\ client.intent \in Intents
                             /\ told.stages = Steps(client.intent)
    /\ told.plan \in PlanIds => /\ plans[told.plan].version > 0
                                /\ told.stages = plans[told.plan].steps
                                /\ told.to = "prepare" => plans[told.plan].status = "prepared"

ClientsStand ==
  /\ clients = [c \in Clients |-> clients[c]]
  /\ \A c \in Clients : /\ clients[c].made \in 0..MaxRequests
                        /\ ToldStands(clients[c], clients[c].answer)

PlannerInv == StoredStands /\ ClientsStand

LEMMA RowIs ==
  /\ NoPlan \in PlanRows /\ NoPlan.version = 0 /\ NoPlan.status = "none"
  /\ \A intent \in IntentType : /\ Stored(intent) \in PlanRows
                                /\ Stored(intent).version = 1
                                /\ Stored(intent).status = "draft"
                                /\ Stored(intent).steps = Steps(intent)
<1>1. NoPlan \in PlanRows
  <2>1. /\ "none" \in PlanStatuses /\ 0 \in 0..3 /\ "none" \in DOMAIN BasePolicies \cup {"none"}
        /\ "none" \in {"low", "medium", "high", "none"} /\ "none" \in Texts
    BY DEF PlanStatuses, Texts
  <2>2. <<>> \in Ways /\ {} \in {Chain(steps) : steps \in Ways} \cup {{}}
    BY DEF Ways
  <2> QED
    BY <2>1, <2>2, Zenon DEF NoPlan, PlanRows
<1>2. ASSUME NEW intent \in IntentType PROVE Stored(intent) \in PlanRows
  <2>1. /\ "draft" \in PlanStatuses /\ 1 \in 0..3
        /\ intent.kind \in DOMAIN BasePolicies \cup {"none"}
        /\ intent.level \in {"low", "medium", "high", "none"} /\ intent.text \in Texts
        /\ intent.knowledge \in Texts /\ intent.context \in Texts
    BY DEF PlanStatuses, Texts, IntentType
  <2>2. Steps(intent) \in Ways
    BY DEF Ways
  <2>3. Chain(Steps(intent)) \in {Chain(steps) : steps \in Ways} \cup {{}}
    BY <2>2
  <2> QED
    BY <2>1, <2>2, <2>3, Zenon DEF Stored, PlanRows
<1>3. NoPlan.version = 0 /\ NoPlan.status = "none"
  BY DEF NoPlan
<1>4. ASSUME NEW intent \in IntentType
      PROVE  /\ Stored(intent).version = 1 /\ Stored(intent).status = "draft"
             /\ Stored(intent).steps = Steps(intent)
  BY DEF Stored
<1> QED
  BY <1>1, <1>2, <1>3, <1>4

\* An event more is one of its plan.
LEMMA EventTells ==
  ASSUME StoredStands, NEW id \in PlanIds, NEW status \in PlanStatuses, Event(id, status)
  PROVE  /\ planEvents' \in Seq(PlanEvents)
         /\ EventsOf(id)' = Append(EventsOf(id), [plan |-> id, status |-> status])
         /\ \A other \in PlanIds : other # id => EventsOf(other)' = EventsOf(other)
<1> DEFINE e == [plan |-> id, status |-> status]
           T(other) == [plan : {other}, status : PlanStatuses]
<1>1. e \in PlanEvents /\ \A other \in PlanIds : e \in T(other) <=> other = id
  BY DEF PlanEvents
<1>2. planEvents \in Seq(PlanEvents) /\ planEvents' = Append(planEvents, e)
  BY DEF StoredStands, Event
<1> HIDE DEF e
<1>3. planEvents' \in Seq(PlanEvents)
  BY <1>1, <1>2, AppendProperties
<1>4. ASSUME NEW other \in PlanIds
      PROVE  EventsOf(other)' = IF other = id THEN Append(EventsOf(other), e)
                                ELSE EventsOf(other)
  <2> DEFINE U == T(other)
  <2>1. e \in U <=> other = id
    BY <1>1
  <2>4. /\ EventsOf(other)' = Only(planEvents', U)
        /\ EventsOf(other) = Only(planEvents, U)
    BY DEF EventsOf
  <2> HIDE DEF U
  <2>2. Only(Append(planEvents, e), U)
          = IF e \in U THEN Append(Only(planEvents, U), e) ELSE Only(planEvents, U)
    BY <1>1, <1>2, OnlyOfMore
  <2> QED
    BY <1>2, <2>1, <2>2, <2>4
<1> QED
  BY <1>3, <1>4 DEF e

\* Nothing that was stored is undone.
PlanKept(id) ==
  plans[id].version > 0 =>
    /\ plans'[id].version > 0 /\ plans'[id].steps = plans[id].steps
    /\ plans[id].status = "prepared" => plans'[id].status = "prepared"

\* A plan that goes a step further.
LEMMA StepFurther ==
  ASSUME StoredStands, NEW id \in PlanIds, NEW row \in PlanRows,
         plans' = [plans EXCEPT ![id] = row],
         row.version = plans[id].version + 1, row.status = Way[row.version],
         Event(id, row.status),
         plans[id].version > 0 => row.steps = plans[id].steps
  PROVE  StoredStands' /\ \A other \in PlanIds : PlanKept(other)
<1>1. /\ plans' \in [PlanIds -> PlanRows] /\ plans'[id] = row
      /\ \A other \in PlanIds : other # id => plans'[other] = plans[other]
  BY DEF StoredStands
<1>2. /\ plans[id].version \in 0..3 /\ row.version \in 0..3 /\ row.status \in PlanStatuses
  BY DEF StoredStands, PlanRows
<1>3. /\ planEvents' \in Seq(PlanEvents)
      /\ EventsOf(id)' = Append(EventsOf(id), [plan |-> id, status |-> row.status])
      /\ \A other \in PlanIds : other # id => EventsOf(other)' = EventsOf(other)
  BY <1>2, EventTells
<1>4. ASSUME NEW other \in PlanIds
      PROVE  /\ plans'[other].version = 0 => plans'[other] = NoPlan
             /\ plans'[other].version > 0 => plans'[other].status = Way[plans'[other].version]
             /\ EventsOf(other)' \in Seq(PlanEvents)
             /\ Len(EventsOf(other)') = plans'[other].version
             /\ \A i \in 1..Len(EventsOf(other)') : EventsOf(other)'[i].status = Way[i]
  <2>1. CASE other # id
    BY <1>1, <1>3, <2>1 DEF StoredStands
  <2>2. CASE other = id
    <3> DEFINE s == EventsOf(id)
               e == [plan |-> id, status |-> row.status]
    <3>1. /\ s \in Seq(PlanEvents) /\ Len(s) = plans[id].version
          /\ \A i \in 1..Len(s) : s[i].status = Way[i]
      BY DEF StoredStands
    <3>2. e \in PlanEvents /\ e.status = row.status
      BY <1>2 DEF PlanEvents
    <3>3. EventsOf(id)' = Append(s, e)
      BY <1>3
    <3> HIDE DEF s, e
    <3>4. /\ Append(s, e) \in Seq(PlanEvents) /\ Len(Append(s, e)) = Len(s) + 1
          /\ \A i \in 1..Len(s) : Append(s, e)[i] = s[i]
          /\ Append(s, e)[Len(s) + 1] = e
      BY <3>1, <3>2, AppendProperties
    <3> DEFINE t == Append(s, e)
    <3> HIDE DEF t
    <3>5. t \in Seq(PlanEvents) /\ Len(t) = row.version
      BY <1>2, <3>1, <3>4 DEF t
    <3>6. \A i \in 1..Len(t) : t[i].status = Way[i]
      <4> SUFFICES ASSUME NEW i \in 1..Len(t) PROVE t[i].status = Way[i]
        OBVIOUS
      <4>1. CASE i \in 1..Len(s)
        BY <3>1, <3>4, <4>1 DEF t
      <4>2. CASE i = row.version
        BY <1>2, <3>1, <3>2, <3>4, <4>2 DEF t
      <4> QED
        BY <1>2, <3>1, <3>5, <4>1, <4>2
    <3>7. EventsOf(id)' = t
      BY <3>3 DEF t
    <3>8. row.version > 0
      BY <1>2
    <3> QED
      BY <1>1, <2>2, <3>5, <3>6, <3>7, <3>8
  <2> QED
    BY <2>1, <2>2
<1>5. StoredStands'
  BY <1>1, <1>3, <1>4 DEF StoredStands
<1>6. ASSUME NEW other \in PlanIds PROVE PlanKept(other)
  <2>1. CASE other # id
    BY <1>1, <2>1 DEF PlanKept
  <2>2. CASE other = id
    <3>1. plans[id].version > 0 => plans[id].status # "prepared" \/ row.status = "prepared"
      <4>1. plans[id].version > 0 => plans[id].status = Way[plans[id].version]
        BY DEF StoredStands
      <4>2. plans[id].version > 0 => plans[id].version \in 1..2
        BY <1>2
      <4>3. \A v \in 1..2 : Way[v] # "prepared"
        BY DEF Way
      <4> QED
        BY <4>1, <4>2, <4>3
    <3> QED
      BY <1>1, <1>2, <2>2, <3>1 DEF PlanKept
  <2> QED
    BY <2>1, <2>2
<1> QED
  BY <1>5, <1>6

LEMMA MovesOn ==
  ASSUME StoredStands, NEW id \in PlanIds, NEW status,
         \/ plans[id].status = "draft" /\ status = "validated"
         \/ plans[id].status = "validated" /\ status = "prepared",
         MoveTo(id, status)
  PROVE  /\ StoredStands' /\ \A other \in PlanIds : PlanKept(other)
         /\ plans[id].version > 0 /\ plans'[id].status = status
<1> DEFINE plan == plans[id]
           row == [plan EXCEPT !.status = status, !.version = plan.version + 1]
<1>1. plan \in PlanRows /\ plan.version \in 0..3
  BY DEF StoredStands, PlanRows
<1>2. /\ plan.version = 0 => plan = NoPlan
      /\ plan.version > 0 => plan.status = Way[plan.version]
  BY DEF StoredStands
<1>3. plan.version > 0
  <2>1. plan.status # "none"
    OBVIOUS
  <2> HIDE DEF plan
  <2> QED
    BY <1>1, <1>2, <2>1, RowIs
<1>4. \A v \in 1..3 : /\ Way[v] = "draft" => v = 1
                      /\ Way[v] = "validated" => v = 2
  BY DEF Way
<1>5. plan.version + 1 \in 0..3 /\ status = Way[plan.version + 1]
  <2>1. plan.version \in 1..3
    BY <1>1, <1>3
  <2>2. plan.status = Way[plan.version]
    BY <1>2, <1>3
  <2>3. CASE plan.status = "draft"
    BY <1>4, <2>1, <2>2, <2>3 DEF Way
  <2>4. CASE plan.status = "validated"
    BY <1>4, <2>1, <2>2, <2>4 DEF Way
  <2> QED
    BY <2>3, <2>4
<1>6. status \in PlanStatuses
  BY DEF PlanStatuses
<1>7. plans' = [plans EXCEPT ![id] = row]
  <2>1. plans' = [plans EXCEPT ![id].status = status, ![id].version = @ + 1]
    BY DEF MoveTo
  <2>2. plans \in [PlanIds -> PlanRows]
    BY DEF StoredStands
  <2> QED
    BY <2>1, <2>2
<1> HIDE DEF plan
<1>8. row \in PlanRows
  BY <1>1, <1>5, <1>6, Zenon DEF PlanRows
<1>9. row.version = plan.version + 1 /\ row.status = status /\ row.steps = plan.steps
  BY <1>1 DEF PlanRows
<1>10. Event(id, status)
  BY DEF MoveTo
<1> HIDE DEF row
<1>11. /\ row.version = plans[id].version + 1 /\ row.status = Way[row.version]
       /\ Event(id, row.status)
       /\ plans[id].version > 0 => row.steps = plans[id].steps
  BY <1>5, <1>9, <1>10 DEF plan
<1>12. StoredStands' /\ \A other \in PlanIds : PlanKept(other)
  BY <1>7, <1>8, <1>11, StepFurther
<1>13. plans'[id] = row
  BY <1>7 DEF StoredStands
<1> QED
  BY <1>3, <1>9, <1>12, <1>13 DEF plan

\* Who is told what stands.
LEMMA TellsRight ==
  ASSUME ClientsStand, NEW c \in Clients, NEW id \in PlanIds, NEW intent, NEW to,
         NEW told, NEW stages, MayAsk(c), Tell(c, intent, to, id, told, stages),
         \A other \in PlanIds : PlanKept(other),
         stages # <<>> => /\ to = "create" => intent \in Intents /\ stages = Steps(intent)
                          /\ plans'[id].version > 0 /\ stages = plans'[id].steps
                          /\ to = "prepare" => plans'[id].status = "prepared"
  PROVE  ClientsStand'
<1> DEFINE answer == [to |-> to, plan |-> id, said |-> told, stages |-> stages]
           new == [made |-> clients[c].made + 1, intent |-> intent, answer |-> answer]
<1>1. clients' = [clients EXCEPT ![c] = new]
  BY DEF Tell
<1>2. clients = [d \in Clients |-> clients[d]] /\ clients[c].made \in 0..MaxRequests
  BY DEF ClientsStand
<1>3. new.made \in 0..MaxRequests
  BY <1>2, PlannerAssumption DEF MayAsk
<1>4. /\ new.intent = intent /\ new.answer.to = to /\ new.answer.plan = id
      /\ new.answer.stages = stages
  OBVIOUS
<1> HIDE DEF new, answer
<1>5. /\ clients' = [d \in Clients |-> clients'[d]] /\ clients'[c] = new
      /\ \A d \in Clients : d # c => clients'[d] = clients[d]
  BY <1>1, <1>2
<1>6. ASSUME NEW d \in Clients
      PROVE  /\ clients'[d].made \in 0..MaxRequests
             /\ ToldStands(clients[d], clients[d].answer)'
  <2>1. CASE d = c
    BY <1>3, <1>4, <1>5, <2>1 DEF ToldStands
  <2>2. CASE d # c
    <3>1. /\ clients[d].made \in 0..MaxRequests
          /\ ToldStands(clients[d], clients[d].answer)
      BY DEF ClientsStand
    <3> QED
      BY <1>5, <2>2, <3>1 DEF ToldStands, PlanKept
  <2> QED
    BY <2>1, <2>2
<1> QED
  BY <1>5, <1>6 DEF ClientsStand

LEMMA NothingMoves ==
  ASSUME StoredStands, UNCHANGED <<plans, planEvents>>
  PROVE  StoredStands' /\ \A other \in PlanIds : PlanKept(other)
BY DEF StoredStands, EventsOf, PlanKept

LEMMA PlannerStarts == PlannerInit => PlannerInv
<1> SUFFICES ASSUME PlannerInit PROVE PlannerInv
  OBVIOUS
<1>1. ASSUME NEW id \in PlanIds
      PROVE  /\ plans[id] = NoPlan /\ plans[id].version = 0
             /\ EventsOf(id) = <<>>
  <2>1. EventsOf(id) = <<>>
    BY OnlyOfNone DEF PlannerInit, EventsOf
  <2> QED
    BY <2>1, RowIs DEF PlannerInit
<1>2. plans \in [PlanIds -> PlanRows] /\ planEvents \in Seq(PlanEvents)
  BY RowIs DEF PlannerInit
<1>3. StoredStands
  <2>1. ASSUME NEW id \in PlanIds
        PROVE  /\ EventsOf(id) \in Seq(PlanEvents) /\ Len(EventsOf(id)) = 0
               /\ \A i \in 1..Len(EventsOf(id)) : EventsOf(id)[i].status = Way[i]
    <3>1. Len(<<>>) = 0 /\ <<>> \in Seq(PlanEvents) /\ 1..0 = {}
      OBVIOUS
    <3> QED
      BY <1>1, <3>1
  <2> QED
    BY <1>1, <1>2, <2>1 DEF StoredStands
<1>4. ClientsStand
  <2>1. clients = [c \in Clients |-> [made |-> 0, intent |-> "none", answer |-> Silent]]
    BY DEF PlannerInit
  <2>2. ASSUME NEW c \in Clients
        PROVE  clients[c].made = 0 /\ clients[c].answer.stages = <<>>
    BY <2>1 DEF Silent
  <2>3. 0 \in 0..MaxRequests
    BY PlannerAssumption
  <2>4. clients = [c \in Clients |-> clients[c]]
    BY <2>1
  <2> QED
    BY <2>2, <2>3, <2>4 DEF ClientsStand, ToldStands
<1> QED
  BY <1>3, <1>4 DEF PlannerInv

LEMMA CreateStands ==
  ASSUME PlannerInv, NEW c \in Clients, NEW id \in PlanIds, NEW intent \in Intents,
         CreatePlan(c, id, intent)
  PROVE  PlannerInv'
<1>1. StoredStands /\ ClientsStand /\ MayAsk(c) /\ intent \in IntentType
  BY PlannerAssumption DEF PlannerInv, CreatePlan
<1>2. CASE /\ plans[id] = NoPlan /\ plans' = [plans EXCEPT ![id] = Stored(intent)]
           /\ Event(id, "draft")
           /\ Tell(c, intent, "create", id, "created", Steps(intent))
  <2> DEFINE row == Stored(intent)
  <2>1. /\ row \in PlanRows /\ row.version = 1 /\ row.status = "draft"
        /\ row.steps = Steps(intent) /\ plans[id].version = 0 /\ Way[1] = "draft"
    BY <1>1, <1>2, RowIs DEF Way
  <2> HIDE DEF row
  <2>2. plans' = [plans EXCEPT ![id] = row]
    BY <1>2 DEF row
  <2>3. StoredStands' /\ \A other \in PlanIds : PlanKept(other)
    <3>1. /\ row.version = plans[id].version + 1 /\ row.status = Way[row.version]
          /\ Event(id, row.status)
          /\ plans[id].version > 0 => row.steps = plans[id].steps
      BY <1>2, <2>1
    <3>2. StoredStands
      BY <1>1
    <3> QED
      BY <2>1, <2>2, <3>1, <3>2, StepFurther
  <2>4. plans'[id] = row
    BY <1>1, <2>2 DEF StoredStands
  <2>5. ClientsStand'
    BY <1>1, <1>2, <2>1, <2>3, <2>4, TellsRight
  <2> QED
    BY <2>3, <2>5 DEF PlannerInv
<1>3. CASE /\ UNCHANGED <<plans, planEvents>>
           /\ \E told : Tell(c, intent, "create", id, told, <<>>)
  <2>1. StoredStands' /\ \A other \in PlanIds : PlanKept(other)
    BY <1>1, <1>3, NothingMoves
  <2>2. PICK told : Tell(c, intent, "create", id, told, <<>>)
    BY <1>3
  <2>3. ClientsStand'
    <3> DEFINE none == <<>>
    <3>1. Tell(c, intent, "create", id, told, none) /\ none = <<>>
      BY <2>2
    <3> HIDE DEF none
    <3> QED
      BY <1>1, <2>1, <3>1, TellsRight
  <2> QED
    BY <2>1, <2>3 DEF PlannerInv
<1>4. CASE /\ UNCHANGED <<plans, planEvents>> /\ plans[id] # NoPlan
           /\ SameIntent(plans[id], intent)
           /\ Tell(c, intent, "create", id, "replayed", plans[id].steps)
  <2>1. StoredStands' /\ \A other \in PlanIds : PlanKept(other)
    BY <1>1, <1>4, NothingMoves
  <2>2. plans[id].steps = Steps(intent)
    BY <1>4 DEF SameIntent
  <2>3. plans[id].version > 0 /\ plans' = plans
    BY <1>1, <1>4 DEF StoredStands, PlanRows
  <2>4. ClientsStand'
    BY <1>1, <1>4, <2>1, <2>2, <2>3, TellsRight
  <2> QED
    BY <2>1, <2>4 DEF PlannerInv
<1> QED
  BY <1>2, <1>3, <1>4 DEF CreatePlan

LEMMA ValidateStands ==
  ASSUME PlannerInv, NEW c \in Clients, NEW id \in PlanIds, ValidatePlan(c, id)
  PROVE  PlannerInv'
<1>1. StoredStands /\ ClientsStand /\ MayAsk(c)
  BY DEF PlannerInv, ValidatePlan
<1>2. CASE /\ UNCHANGED <<plans, planEvents>>
           /\ Tell(c, "none", "validate", id, "rejected", <<>>)
  <2>1. StoredStands' /\ \A other \in PlanIds : PlanKept(other)
    BY <1>1, <1>2, NothingMoves
  <2>2. ClientsStand'
    <3> DEFINE none == <<>>
    <3>1. Tell(c, "none", "validate", id, "rejected", none) /\ none = <<>>
      BY <1>2
    <3> HIDE DEF none
    <3> QED
      BY <1>1, <2>1, <3>1, TellsRight
  <2> QED
    BY <2>1, <2>2 DEF PlannerInv
<1>3. CASE /\ plans[id].status = "draft" /\ MoveTo(id, "validated")
           /\ Tell(c, "none", "validate", id, "validated", plans[id].steps)
  <2>1. /\ StoredStands' /\ \A other \in PlanIds : PlanKept(other)
        /\ plans[id].version > 0
    BY <1>1, <1>3, MovesOn
  <2>2. plans'[id].version > 0 /\ plans[id].steps = plans'[id].steps
    BY <2>1 DEF PlanKept
  <2>3. ClientsStand'
    BY <1>1, <1>3, <2>1, <2>2, TellsRight
  <2> QED
    BY <2>1, <2>3 DEF PlannerInv
<1>4. CASE /\ UNCHANGED <<plans, planEvents>> /\ ~Refused(id)
           /\ Tell(c, "none", "validate", id, "replayed", plans[id].steps)
  <2>1. StoredStands' /\ \A other \in PlanIds : PlanKept(other)
    BY <1>1, <1>4, NothingMoves
  <2>2. plans[id].version > 0 /\ plans' = plans
    BY <1>1, <1>4 DEF StoredStands, PlanRows, Refused
  <2>3. ClientsStand'
    BY <1>1, <1>4, <2>1, <2>2, TellsRight
  <2> QED
    BY <2>1, <2>3 DEF PlannerInv
<1> QED
  BY <1>2, <1>3, <1>4 DEF ValidatePlan

LEMMA PrepareStands ==
  ASSUME PlannerInv, NEW c \in Clients, NEW id \in PlanIds, PreparePlan(c, id)
  PROVE  PlannerInv'
<1>1. StoredStands /\ ClientsStand /\ MayAsk(c)
  BY DEF PlannerInv, PreparePlan
<1>2. CASE /\ UNCHANGED <<plans, planEvents>>
           /\ Tell(c, "none", "prepare", id, "rejected", <<>>)
  <2>1. StoredStands' /\ \A other \in PlanIds : PlanKept(other)
    BY <1>1, <1>2, NothingMoves
  <2>2. ClientsStand'
    <3> DEFINE none == <<>>
    <3>1. Tell(c, "none", "prepare", id, "rejected", none) /\ none = <<>>
      BY <1>2
    <3> HIDE DEF none
    <3> QED
      BY <1>1, <2>1, <3>1, TellsRight
  <2> QED
    BY <2>1, <2>2 DEF PlannerInv
<1>3. CASE /\ plans[id].status = "validated" /\ MoveTo(id, "prepared")
           /\ Tell(c, "none", "prepare", id, "prepared", plans[id].steps)
  <2>1. /\ StoredStands' /\ \A other \in PlanIds : PlanKept(other)
        /\ plans[id].version > 0 /\ plans'[id].status = "prepared"
    BY <1>1, <1>3, MovesOn
  <2>2. plans'[id].version > 0 /\ plans[id].steps = plans'[id].steps
    BY <2>1 DEF PlanKept
  <2>3. ClientsStand'
    BY <1>1, <1>3, <2>1, <2>2, TellsRight
  <2> QED
    BY <2>1, <2>3 DEF PlannerInv
<1>4. CASE /\ UNCHANGED <<plans, planEvents>> /\ ~Refused(id)
           /\ plans[id].status = "prepared"
           /\ Tell(c, "none", "prepare", id, "replayed", plans[id].steps)
  <2>1. StoredStands' /\ \A other \in PlanIds : PlanKept(other)
    BY <1>1, <1>4, NothingMoves
  <2>2. plans[id].version > 0 /\ plans' = plans
    BY <1>1, <1>4 DEF StoredStands, PlanRows, Refused
  <2>3. ClientsStand'
    BY <1>1, <1>4, <2>1, <2>2, TellsRight
  <2> QED
    BY <2>1, <2>3 DEF PlannerInv
<1> QED
  BY <1>2, <1>3, <1>4 DEF PreparePlan

LEMMA PlannerSteps == PlannerInv /\ [PlannerNext]_plannerVars => PlannerInv'
<1> SUFFICES ASSUME PlannerInv, [PlannerNext]_plannerVars PROVE PlannerInv'
  OBVIOUS
<1>1. CASE UNCHANGED <<plans, planEvents, clients>>
  BY <1>1 DEF PlannerInv, StoredStands, EventsOf, ClientsStand, ToldStands
<1>2. CASE RegisterReference
  BY <1>1, <1>2 DEF RegisterReference
<1>3. CASE UNCHANGED plannerVars
  BY <1>1, <1>3 DEF plannerVars
<1>4. ASSUME NEW c \in Clients, NEW id \in PlanIds,
             \/ ValidatePlan(c, id) \/ PreparePlan(c, id)
             \/ \E intent \in Intents : CreatePlan(c, id, intent)
      PROVE  PlannerInv'
  BY <1>4, ValidateStands, PrepareStands, CreateStands
<1> QED
  BY <1>2, <1>3, <1>4 DEF PlannerNext

\* What the run checks follows.
LEMMA PlansTold ==
  PlannerInv => PlannerTypeOK /\ PlansHonourIntent /\ PlanHistoryTold
<1> SUFFICES ASSUME PlannerInv PROVE PlannerTypeOK /\ PlansHonourIntent /\ PlanHistoryTold
  OBVIOUS
<1>1. StoredStands /\ ClientsStand
  BY DEF PlannerInv
<1>2. PlannerTypeOK
  <2>1. ASSUME NEW id \in PlanIds
        PROVE  /\ plans[id].status \in PlanStatuses /\ plans[id].version \in 0 .. 3
               /\ \A i \in DOMAIN plans[id].steps : plans[id].steps[i].key \in StepKeys
    <3>1. /\ plans[id].status \in PlanStatuses /\ plans[id].version \in 0 .. 3
          /\ plans[id].steps \in Ways
      BY <1>1 DEF StoredStands, PlanRows
    <3>2. \A steps \in Ways : \A i \in DOMAIN steps : steps[i].key \in StepKeys
      <4> SUFFICES ASSUME NEW steps \in Ways, NEW i \in DOMAIN steps
                   PROVE  steps[i].key \in StepKeys
        OBVIOUS
      <4>1. CASE steps = <<>>
        BY <4>1
      <4>2. CASE \E intent \in IntentType : steps = Steps(intent)
        BY <4>2, StepsHonour
      <4> QED
        BY <4>1, <4>2 DEF Ways
    <3> QED
      BY <3>1, <3>2
  <2>2. \A i \in DOMAIN planEvents : planEvents[i] \in [plan : PlanIds, status : PlanStatuses]
    <3>1. planEvents \in Seq(PlanEvents)
      BY <1>1 DEF StoredStands
    <3>2. \A i \in DOMAIN planEvents : planEvents[i] \in PlanEvents
      BY <3>1
    <3> QED
      BY <3>2 DEF PlanEvents
  <2> QED
    BY <1>1, <2>1, <2>2 DEF PlannerTypeOK, ClientsStand
<1>3. PlansHonourIntent
  <2>1. ASSUME NEW c \in Clients, clients[c].answer.to = "create",
               clients[c].answer.stages # <<>>
        PROVE  Honours(clients[c].answer.stages, clients[c].intent)
    <3>1. /\ clients[c].intent \in IntentType
          /\ clients[c].answer.stages = Steps(clients[c].intent)
      BY <1>1, <2>1, PlannerAssumption DEF ClientsStand, ToldStands
    <3> QED
      BY <3>1, StepsHonour
  <2> QED
    BY <2>1 DEF PlansHonourIntent
<1>4. PlanHistoryTold
  <2>1. ASSUME NEW id \in PlanIds
        PROVE  /\ [i \in DOMAIN EventsOf(id) |-> EventsOf(id)[i].status]
                    = SubSeq(<<"draft", "validated", "prepared">>, 1, plans[id].version)
               /\ plans[id].version > 0
                    => EventsOf(id)[Len(EventsOf(id))].status = plans[id].status
    <3> DEFINE its == EventsOf(id)
               v == plans[id].version
               told == [i \in DOMAIN its |-> its[i].status]
               due == SubSeq(Way, 1, v)
    <3>1. /\ its \in Seq(PlanEvents) /\ Len(its) = v /\ v \in 0..3
          /\ \A i \in 1..Len(its) : its[i].status = Way[i]
          /\ v > 0 => plans[id].status = Way[v]
      BY <1>1 DEF StoredStands, PlanRows
    <3>2. /\ Way \in Seq(PlanStatuses) /\ Len(Way) = 3
      BY DEF Way, PlanStatuses
    <3> HIDE DEF its, v
    <3>3. DOMAIN its = 1..v
      BY <3>1
    <3>4. told = [i \in 1..v |-> Way[i]]
      BY <3>1, <3>3
    <3>5. due = [i \in 1..v |-> Way[i]]
      BY <3>1, <3>2
    <3>6. v > 0 => its[Len(its)].status = plans[id].status
      BY <3>1
    <3> QED
      BY <3>4, <3>5, <3>6 DEF its, v, Way
  <2>2. ASSUME NEW id \in PlanIds, NEW c \in Clients,
               clients[c].answer.plan = id, clients[c].answer.stages # <<>>
        PROVE  /\ clients[c].answer.stages = plans[id].steps
               /\ clients[c].answer.to = "prepare" => plans[id].status = "prepared"
    BY <1>1, <2>2 DEF ClientsStand, ToldStands
  <2> QED
    BY <2>1, <2>2 DEF PlanHistoryTold, EventsOf
<1> QED
  BY <1>2, <1>3, <1>4

LEMMA PlannerScenes == Spec => [](scene = "planner" => PlannerInv)
<1> DEFINE Inv == scene = "planner" => PlannerInv
<1>1. Init => Inv
  BY SceneStarts, PlannerStarts
<1>2. Inv /\ [Next]_servicesVars => Inv'
  <2> SUFFICES ASSUME Inv, [Next]_servicesVars, scene' = "planner" PROVE PlannerInv'
    OBVIOUS
  <2>1. scene = "planner" /\ [PlannerNext]_plannerVars
    BY SceneSteps
  <2> QED
    BY <2>1, PlannerSteps
<1> QED
  BY <1>1, <1>2, PTL DEF Spec

\* Whoever is answered with a plan has the stages its intent asks for: nothing changes
\* before the approval that was wanted, and what changes is verified and reviewed as
\* wanted; a plan's events are its way to where it stands, each step once, and stages
\* are handed out only of a prepared plan: for any intents, plans and clients, however
\* they repeat and race.
THEOREM ServicesPlans == Spec => []PlansStand
<1>1. (scene = "planner" => PlannerInv) => PlansStand
  BY PlansTold DEF PlansStand
<1> QED
  BY <1>1, PlannerScenes, PTL

(***************************************************************************)
(* The verification                                                        *)
(***************************************************************************)

Checks == {"scope", "artifact", "patch", "dirty", "head", "command", "stability"}

WorkType ==
  [at : Stages, plan : VerificationPlans, readOnly : BOOLEAN, did : Nat,
   dirty : BOOLEAN, headKnown : BOOLEAN, moved : BOOLEAN,
   outcome : Outcomes \cup {"none"}, claims : SUBSET Files,
   observed : SUBSET Files, patch : Patches, cut : BOOLEAN, headChanged : BOOLEAN,
   captured : SUBSET Files, sighted : BOOLEAN, failed : SUBSET Checks,
   hash : Patches, hashed : BOOLEAN, left : Nat,
   verdict : Verdicts, advice : Advice]


\* What the steps of the three kinds leave alone.
SameTask(q) == /\ q.plan = work.plan /\ q.readOnly = work.readOnly
               /\ q.dirty = work.dirty /\ q.outcome = work.outcome
SameEvidence(q) == /\ q.observed = work.observed /\ q.patch = work.patch
                   /\ q.captured = work.captured /\ q.cut = work.cut
SameFindings(q) == /\ q.failed = work.failed /\ q.hash = work.hash
                   /\ q.hashed = work.hashed /\ q.left = work.left
Unsaid(q) == q.verdict = work.verdict /\ q.advice = work.advice

\* The task before its end: an edit, a commit.
LEMMA WorkGoesOn ==
  ASSUME work \in WorkType, NEW n \in Nat
  PROVE  /\ LET q == [work EXCEPT !.did = n]
            IN  /\ q \in WorkType /\ SameTask(q) /\ SameEvidence(q)
                /\ SameFindings(q) /\ Unsaid(q)
                /\ q.at = work.at /\ q.sighted = work.sighted /\ q.moved = work.moved
         /\ LET q == [work EXCEPT !.did = n, !.moved = TRUE]
            IN  /\ q \in WorkType /\ SameTask(q) /\ SameEvidence(q)
                /\ SameFindings(q) /\ Unsaid(q)
                /\ q.at = work.at /\ q.sighted = work.sighted /\ q.moved = TRUE
<1>1. LET q == [work EXCEPT !.did = n]
      IN  /\ q \in WorkType /\ SameTask(q) /\ SameEvidence(q)
          /\ SameFindings(q) /\ Unsaid(q)
          /\ q.at = work.at /\ q.sighted = work.sighted /\ q.moved = work.moved
  BY Zenon DEF WorkType, SameTask, SameEvidence, SameFindings, Unsaid
<1>2. LET q == [work EXCEPT !.did = n, !.moved = TRUE]
      IN  /\ q \in WorkType /\ SameTask(q) /\ SameEvidence(q)
          /\ SameFindings(q) /\ Unsaid(q)
          /\ q.at = work.at /\ q.sighted = work.sighted /\ q.moved = TRUE
  BY Zenon DEF WorkType, SameTask, SameEvidence, SameFindings, Unsaid
<1> QED
  BY <1>1, <1>2, Zenon

\* Its end.
LEMMA WorkEnds ==
  ASSUME work \in WorkType, NEW at \in Stages,
         NEW outcome \in Outcomes, NEW claims \in SUBSET Files,
         work' = [work EXCEPT !.outcome = outcome, !.claims = claims, !.at = at]
  PROVE  /\ work' \in WorkType /\ SameFindings(work') /\ Unsaid(work')
         /\ work'.at = at /\ work'.sighted = work.sighted /\ work'.moved = work.moved
         /\ work'.plan = work.plan /\ work'.readOnly = work.readOnly
         /\ work'.dirty = work.dirty
<1> DEFINE q == [work EXCEPT !.outcome = outcome, !.claims = claims, !.at = at]
<1>1. /\ q \in WorkType /\ SameFindings(q) /\ Unsaid(q)
      /\ q.at = at /\ q.sighted = work.sighted /\ q.moved = work.moved
      /\ q.plan = work.plan /\ q.readOnly = work.readOnly
      /\ q.dirty = work.dirty
  BY Zenon DEF WorkType, SameFindings, Unsaid
<1>2. work' = q
  OBVIOUS
<1> HIDE DEF q
<1> QED
  BY <1>1, <1>2

\* What is found of the workspace, when Git answers.
LEMMA WorkObserved ==
  ASSUME work \in WorkType, NEW at \in Stages, NEW o \in SUBSET Files,
         work' = [work EXCEPT !.at = at, !.observed = o]
  PROVE  /\ work' \in WorkType /\ SameTask(work') /\ SameFindings(work') /\ Unsaid(work')
         /\ work'.at = at /\ work'.observed = o /\ work'.patch = work.patch
         /\ work'.sighted = work.sighted /\ work'.moved = work.moved
<1> DEFINE q == [work EXCEPT !.at = at, !.observed = o]
<1>1. /\ q \in WorkType /\ SameTask(q) /\ SameFindings(q) /\ Unsaid(q)
      /\ q.at = at /\ q.observed = o /\ q.patch = work.patch
      /\ q.sighted = work.sighted /\ q.moved = work.moved
  BY Zenon DEF WorkType, SameTask, SameEvidence, SameFindings, Unsaid
<1>2. work' = q
  OBVIOUS
<1> HIDE DEF q
<1> QED
  BY <1>1, <1>2

LEMMA WorkPatched ==
  ASSUME work \in WorkType, NEW at \in Stages, NEW p \in Patches,
         work' = [work EXCEPT !.at = at, !.patch = p]
  PROVE  /\ work' \in WorkType /\ SameTask(work') /\ SameFindings(work') /\ Unsaid(work')
         /\ work'.at = at /\ work'.observed = work.observed /\ work'.patch = p
         /\ work'.sighted = work.sighted /\ work'.moved = work.moved
<1> DEFINE q == [work EXCEPT !.at = at, !.patch = p]
<1>1. /\ q \in WorkType /\ SameTask(q) /\ SameFindings(q) /\ Unsaid(q)
      /\ q.at = at /\ q.observed = work.observed /\ q.patch = p
      /\ q.sighted = work.sighted /\ q.moved = work.moved
  BY Zenon DEF WorkType, SameTask, SameEvidence, SameFindings, Unsaid
<1>2. work' = q
  OBVIOUS
<1> HIDE DEF q
<1> QED
  BY <1>1, <1>2

LEMMA WorkHeaded ==
  ASSUME work \in WorkType, NEW at \in Stages, NEW b \in BOOLEAN,
         work' = [work EXCEPT !.at = at, !.headChanged = b]
  PROVE  /\ work' \in WorkType /\ SameTask(work') /\ SameFindings(work') /\ Unsaid(work')
         /\ work'.at = at /\ SameEvidence(work')
         /\ work'.sighted = work.sighted /\ work'.moved = work.moved
<1> DEFINE q == [work EXCEPT !.at = at, !.headChanged = b]
<1>1. /\ q \in WorkType /\ SameTask(q) /\ SameFindings(q) /\ Unsaid(q)
      /\ q.at = at /\ SameEvidence(q)
      /\ q.sighted = work.sighted /\ q.moved = work.moved
  BY Zenon DEF WorkType, SameTask, SameEvidence, SameFindings, Unsaid
<1>2. work' = q
  OBVIOUS
<1> HIDE DEF q
<1> QED
  BY <1>1, <1>2

\* The patch and the files are in the store.
Stores(at, o, p, b) ==
  work' = [work EXCEPT !.at = at, !.captured = o, !.patch = p, !.cut = b]

LEMMA WorkCaptured ==
  ASSUME work \in WorkType, NEW at \in Stages, NEW o \in SUBSET Files,
         NEW p \in Patches, NEW b \in BOOLEAN, Stores(at, o, p, b)
  PROVE  /\ work' \in WorkType /\ SameTask(work') /\ SameFindings(work') /\ Unsaid(work')
         /\ work'.at = at /\ work'.observed = work.observed /\ work'.patch = p
         /\ work'.cut = b
         /\ work'.sighted = work.sighted /\ work'.moved = work.moved
<1> DEFINE q == [work EXCEPT !.at = at, !.captured = o, !.patch = p, !.cut = b]
<1>1. /\ q \in WorkType /\ SameTask(q) /\ SameFindings(q) /\ Unsaid(q)
      /\ q.at = at /\ q.observed = work.observed /\ q.patch = p /\ q.cut = b
      /\ q.sighted = work.sighted /\ q.moved = work.moved
  BY Zenon DEF WorkType, SameTask, SameEvidence, SameFindings, Unsaid
<1>2. work' = q
  BY DEF Stores
<1> HIDE DEF q
<1> QED
  BY <1>1, <1>2

LEMMA NoPatchIsAPatch == NoPatch \in Patches
<1>1. NoPatch \in [{} -> 0 .. MaxText]
  BY DEF NoPatch
<1>2. {} \in SUBSET Files
  OBVIOUS
<1> QED
  BY <1>1, <1>2 DEF Patches

\* Whichever question Git leaves unanswered, the task is no longer sighted.
LEMMA WorkUnsighted ==
  ASSUME work \in WorkType, NEW at \in Stages,
         work' = [work EXCEPT !.at = at, !.sighted = FALSE]
  PROVE  /\ work' \in WorkType /\ SameTask(work') /\ SameFindings(work') /\ Unsaid(work')
         /\ SameEvidence(work')
         /\ work'.at = at /\ ~work'.sighted /\ work'.moved = work.moved
<1> DEFINE q == [work EXCEPT !.at = at, !.sighted = FALSE]
<1>1. /\ q \in WorkType /\ SameTask(q) /\ SameFindings(q) /\ Unsaid(q)
      /\ SameEvidence(q)
      /\ q.at = at /\ ~q.sighted /\ q.moved = work.moved
  BY Zenon DEF WorkType, SameTask, SameEvidence, SameFindings, Unsaid
<1>2. work' = q
  OBVIOUS
<1> HIDE DEF q
<1> QED
  BY <1>1, <1>2

LEMMA WorkPatchUnsighted ==
  ASSUME work \in WorkType, NEW at \in Stages, NEW p \in Patches,
         work' = [work EXCEPT !.at = at, !.sighted = FALSE, !.patch = p]
  PROVE  /\ work' \in WorkType /\ SameTask(work') /\ SameFindings(work') /\ Unsaid(work')
         /\ work'.at = at /\ ~work'.sighted /\ work'.moved = work.moved
<1> DEFINE q == [work EXCEPT !.at = at, !.sighted = FALSE, !.patch = p]
<1>1. /\ q \in WorkType /\ SameTask(q) /\ SameFindings(q) /\ Unsaid(q)
      /\ q.at = at /\ ~q.sighted /\ q.moved = work.moved
  BY Zenon DEF WorkType, SameTask, SameEvidence, SameFindings, Unsaid
<1>2. work' = q
  OBVIOUS
<1> HIDE DEF q
<1> QED
  BY <1>1, <1>2

LEMMA WorkBlind ==
  ASSUME work \in WorkType, NEW at \in Stages,
         work' = [work EXCEPT !.at = at, !.observed = {}, !.patch = NoPatch,
                      !.sighted = FALSE]
  PROVE  /\ work' \in WorkType /\ SameTask(work') /\ SameFindings(work') /\ Unsaid(work')
         /\ work'.at = at /\ ~work'.sighted /\ work'.moved = work.moved
<1> DEFINE q == [work EXCEPT !.at = at, !.observed = {}, !.patch = NoPatch,
                      !.sighted = FALSE]
<1>1. {} \in SUBSET Files /\ NoPatch \in Patches
  BY NoPatchIsAPatch
<1>2. /\ q \in WorkType /\ SameTask(q) /\ SameFindings(q) /\ Unsaid(q)
      /\ q.at = at /\ ~q.sighted /\ q.moved = work.moved
  BY <1>1, Zenon DEF WorkType, SameTask, SameEvidence, SameFindings, Unsaid
<1>3. work' = q
  OBVIOUS
<1> HIDE DEF q
<1> QED
  BY <1>2, <1>3

LEMMA WorkDropped ==
  ASSUME work \in WorkType, NEW at \in Stages,
         work' = [work EXCEPT !.at = at, !.observed = {}, !.patch = NoPatch,
                      !.headChanged = FALSE, !.sighted = FALSE]
  PROVE  /\ work' \in WorkType /\ SameTask(work') /\ SameFindings(work') /\ Unsaid(work')
         /\ work'.at = at /\ ~work'.sighted /\ work'.moved = work.moved
<1> DEFINE q == [work EXCEPT !.at = at, !.observed = {}, !.patch = NoPatch,
                      !.headChanged = FALSE, !.sighted = FALSE]
<1>1. {} \in SUBSET Files /\ NoPatch \in Patches
  BY NoPatchIsAPatch
<1>2. /\ q \in WorkType /\ SameTask(q) /\ SameFindings(q) /\ Unsaid(q)
      /\ q.at = at /\ ~q.sighted /\ q.moved = work.moved
  BY <1>1, Zenon DEF WorkType, SameTask, SameEvidence, SameFindings, Unsaid
<1>3. work' = q
  OBVIOUS
<1> HIDE DEF q
<1> QED
  BY <1>2, <1>3

\* The checks, the commands and the verdict.
LEMMA WorkFailed ==
  ASSUME work \in WorkType, NEW at \in Stages, NEW f \in SUBSET Checks,
         work' = [work EXCEPT !.at = at, !.failed = f]
  PROVE  /\ work' \in WorkType /\ SameTask(work') /\ SameEvidence(work') /\ Unsaid(work')
         /\ work'.at = at /\ work'.failed = f /\ work'.hash = work.hash
         /\ work'.hashed = work.hashed /\ work'.left = work.left
         /\ work'.sighted = work.sighted /\ work'.moved = work.moved
<1> DEFINE q == [work EXCEPT !.at = at, !.failed = f]
<1>1. /\ q \in WorkType /\ SameTask(q) /\ SameEvidence(q) /\ Unsaid(q)
      /\ q.at = at /\ q.failed = f /\ q.hash = work.hash
      /\ q.hashed = work.hashed /\ q.left = work.left
      /\ q.sighted = work.sighted /\ q.moved = work.moved
  BY Zenon DEF WorkType, SameTask, SameEvidence, SameFindings, Unsaid
<1>2. work' = q
  OBVIOUS
<1> HIDE DEF q
<1> QED
  BY <1>1, <1>2

LEMMA WorkHashed ==
  ASSUME work \in WorkType, NEW at \in Stages, NEW p \in Patches,
         work' = [work EXCEPT !.at = at, !.hash = p, !.hashed = TRUE]
  PROVE  /\ work' \in WorkType /\ SameTask(work') /\ SameEvidence(work') /\ Unsaid(work')
         /\ work'.at = at /\ work'.failed = work.failed /\ work'.hash = p
         /\ work'.hashed /\ work'.left = work.left
         /\ work'.sighted = work.sighted /\ work'.moved = work.moved
<1> DEFINE q == [work EXCEPT !.at = at, !.hash = p, !.hashed = TRUE]
<1>1. /\ q \in WorkType /\ SameTask(q) /\ SameEvidence(q) /\ Unsaid(q)
      /\ q.at = at /\ q.failed = work.failed /\ q.hash = p
      /\ q.hashed /\ q.left = work.left
      /\ q.sighted = work.sighted /\ q.moved = work.moved
  BY Zenon DEF WorkType, SameTask, SameEvidence, SameFindings, Unsaid
<1>2. work' = q
  OBVIOUS
<1> HIDE DEF q
<1> QED
  BY <1>1, <1>2

LEMMA WorkCommanded ==
  ASSUME work \in WorkType, NEW n \in Nat, NEW f \in SUBSET Checks,
         work' = [work EXCEPT !.left = n, !.failed = f]
  PROVE  /\ work' \in WorkType /\ SameTask(work') /\ SameEvidence(work') /\ Unsaid(work')
         /\ work'.at = work.at /\ work'.failed = f /\ work'.hash = work.hash
         /\ work'.hashed = work.hashed /\ work'.left = n
         /\ work'.sighted = work.sighted /\ work'.moved = work.moved
<1> DEFINE q == [work EXCEPT !.left = n, !.failed = f]
<1>1. /\ q \in WorkType /\ SameTask(q) /\ SameEvidence(q) /\ Unsaid(q)
      /\ q.at = work.at /\ q.failed = f /\ q.hash = work.hash
      /\ q.hashed = work.hashed /\ q.left = n
      /\ q.sighted = work.sighted /\ q.moved = work.moved
  BY Zenon DEF WorkType, SameTask, SameEvidence, SameFindings, Unsaid
<1>2. work' = q
  OBVIOUS
<1> HIDE DEF q
<1> QED
  BY <1>1, <1>2

LEMMA WorkSaid ==
  ASSUME work \in WorkType, NEW at \in Stages, NEW v \in Verdicts, NEW a \in Advice,
         work' = [work EXCEPT !.at = at, !.verdict = v, !.advice = a]
  PROVE  /\ work' \in WorkType /\ SameTask(work') /\ SameEvidence(work') /\ SameFindings(work')
         /\ work'.at = at /\ work'.verdict = v /\ work'.advice = a
         /\ work'.sighted = work.sighted /\ work'.moved = work.moved
<1> DEFINE q == [work EXCEPT !.at = at, !.verdict = v, !.advice = a]
<1>1. /\ q \in WorkType /\ SameTask(q) /\ SameEvidence(q) /\ SameFindings(q)
      /\ q.at = at /\ q.verdict = v /\ q.advice = a
      /\ q.sighted = work.sighted /\ q.moved = work.moved
  BY Zenon DEF WorkType, SameTask, SameEvidence, SameFindings, Unsaid
<1>2. work' = q
  OBVIOUS
<1> HIDE DEF q
<1> QED
  BY <1>1, <1>2

(***************************************************************************)
(* The invariant of the verification                                       *)
(***************************************************************************)

WorkTypeOK == /\ tree \in Trees /\ committed \in Trees /\ origin \in Trees
              /\ work \in WorkType
              /\ work.left <= work.plan.commands

\* A clean workspace whose commit did not move is compared with what it held.
BaselineStands ==
  work.sighted /\ ~work.dirty /\ ~work.moved => origin = committed

\* The patch names observed files only and says what they hold; an observed file
\* it lacks is new, or, once the patch is in the store, was cut from it.
PatchHolds == \A f \in DOMAIN work.patch : f \in work.observed /\ work.patch[f] = tree[f]
PatchWhole ==
  \A f \in work.observed : f \notin DOMAIN work.patch => committed[f] = Absent
PatchLacks ==
  \A f \in work.observed : f \notin DOMAIN work.patch => work.cut \/ committed[f] = Absent
AllObserved == work.observed = Differing(committed, tree)

\* Until the commands run nobody touches the files any more.
EvidenceStands ==
  work.sighted /\ ~work.readOnly =>
    /\ work.at = "diff" => AllObserved
    /\ work.at \in {"head", "files"} => AllObserved /\ PatchHolds /\ PatchWhole
    /\ work.at \in {"checks", "before"} => AllObserved /\ PatchHolds /\ PatchLacks

\* The commands do, but then a state was taken before, and is compared.
HashAgrees ==
  /\ work.hashed /\ DOMAIN work.hash = work.observed
  /\ \A f \in DOMAIN work.patch : f \in work.observed /\ work.hash[f] = work.patch[f]
StabilityStands ==
  work.sighted /\ ~work.readOnly =>
    /\ work.at = "commands" =>
         /\ HashAgrees /\ PatchLacks
         /\ work.plan.commands = 0 => AllObserved /\ PatchHolds
    /\ work.at \in {"verdict", "saved"} /\ ToVerify =>
         /\ PatchLacks
         /\ "stability" \notin work.failed => AllObserved /\ PatchHolds

\* What is not on the list of failures has been looked at and found in order.
ChecksStand ==
  \/ work.at \in {"before", "commands"}
  \/ work.at \in {"verdict", "saved"} /\ ToVerify
  => /\ "scope" \notin work.failed => ~ScopeFails(work.plan, work.observed)
     /\ "artifact" \notin work.failed => work.plan.expected \subseteq work.captured
     /\ "dirty" \notin work.failed => ~work.dirty

\* Nothing is said before the end, and PASSED only without a failure.
VerdictStands ==
  /\ work.at # "saved" => work.verdict = "none" /\ work.advice = "none"
  /\ work.verdict = "PASSED" => ToVerify /\ work.failed = {}

VerificationInv ==
  /\ WorkTypeOK /\ BaselineStands /\ EvidenceStands /\ StabilityStands
  /\ ChecksStand /\ VerdictStands /\ AdviceOnEvidence

LEMMA PatchIs ==
  ASSUME tree \in Trees, NEW fs \in SUBSET Files
  PROVE  [f \in fs |-> tree[f]] \in Patches
<1>1. [f \in fs |-> tree[f]] \in [fs -> 0 .. MaxText]
  BY DEF Trees
<1> QED
  BY <1>1 DEF Patches

\* What is left of a patch that is cut is a patch.
LEMMA PartOfPatch ==
  ASSUME NEW p \in Patches, NEW fs \in SUBSET DOMAIN p
  PROVE  [f \in fs |-> p[f]] \in Patches
<1>1. PICK whole \in SUBSET Files : p \in [whole -> 0 .. MaxText]
  BY DEF Patches
<1>2. fs \in SUBSET Files /\ [f \in fs |-> p[f]] \in [fs -> 0 .. MaxText]
  BY <1>1
<1> QED
  BY <1>2 DEF Patches

LEMMA GitVisibleIs ==
  ASSUME tree \in Trees
  PROVE  /\ GitVisible \in Patches /\ DOMAIN GitVisible = Differing(committed, tree)
         /\ Differing(committed, tree) \in SUBSET Files
<1>1. Differing(committed, tree) \in SUBSET Files
  BY DEF Differing
<1> QED
  BY <1>1, PatchIs DEF GitVisible

\* What was captured stands as long as the files do.
LEMMA EvidenceKept ==
  ASSUME SameEvidence(work'), UNCHANGED <<tree, committed>>
  PROVE  /\ PatchHolds' = PatchHolds /\ PatchLacks' = PatchLacks
         /\ PatchWhole' = PatchWhole /\ AllObserved' = AllObserved
<1>1. PatchHolds' = PatchHolds
  BY DEF SameEvidence, PatchHolds
<1>2. PatchLacks' = PatchLacks
  BY DEF SameEvidence, PatchLacks
<1>3. PatchWhole' = PatchWhole
  BY DEF SameEvidence, PatchWhole
<1>4. AllObserved' = AllObserved
  BY DEF SameEvidence, AllObserved, Differing
<1> QED
  BY <1>1, <1>2, <1>3, <1>4

LEMMA VerificationStarts == VerificationInit => VerificationInv
<1> SUFFICES ASSUME VerificationInit PROVE VerificationInv
  OBVIOUS
<1>1. PICK plan \in Plans, answered \in BOOLEAN, readOnly \in BOOLEAN :
        work = [at |-> "working", plan |-> plan, readOnly |-> readOnly, did |-> 0,
                dirty |-> answered /\ tree # committed, headKnown |-> answered,
                moved |-> FALSE, outcome |-> "none", claims |-> {},
                observed |-> {}, patch |-> NoPatch, cut |-> FALSE,
                headChanged |-> FALSE, captured |-> {}, sighted |-> answered,
                failed |-> {}, hash |-> NoPatch, hashed |-> FALSE, left |-> plan.commands,
                verdict |-> "none", advice |-> "none"]
  BY DEF VerificationInit
<1>2. plan \in VerificationPlans /\ plan.commands \in Nat
  BY DEF VerificationInit, VerificationPlans
<1>3. /\ 0 \in 0 .. MaxText /\ 1 \in 0 .. MaxText /\ MaxText \in 0 .. MaxText
  BY VerificationAssumption
<1>4. committed \in Trees
  BY <1>3 DEF VerificationInit, Trees, Absent
<1>5. tree \in Trees /\ origin = tree
  BY <1>3, <1>4 DEF VerificationInit, Trees
<1>6. work \in WorkType
  BY <1>1, <1>2, NoPatchIsAPatch
     DEF WorkType, Stages, Verdicts, Advice, Checks, Outcomes
<1>7. WorkTypeOK
  BY <1>1, <1>2, <1>4, <1>5, <1>6 DEF WorkTypeOK
<1>8. BaselineStands
  BY <1>1, <1>5 DEF BaselineStands
<1>9. /\ work.at = "working" /\ work.verdict = "none" /\ work.advice = "none"
  BY <1>1
<1>10. EvidenceStands /\ StabilityStands
  BY <1>9 DEF EvidenceStands, StabilityStands
<1>11. ChecksStand /\ VerdictStands /\ AdviceOnEvidence
  BY <1>9 DEF ChecksStand, VerdictStands, AdviceOnEvidence
<1> QED
  BY <1>7, <1>8, <1>10, <1>11 DEF VerificationInv

\* A step that leaves the task blind, or sees nothing new, before the checks: it
\* has nothing to keep but what is known of the plan.
LEMMA BeforeTheChecks ==
  ASSUME VerificationInv, UNCHANGED <<tree, committed, origin>>,
         work' \in WorkType, SameTask(work'), SameFindings(work'), Unsaid(work'),
         work'.moved = work.moved, work'.sighted => work.sighted,
         work.at # "saved", EvidenceStands',
         \/ work'.at \in {"diff", "head", "files", "checks"}
         \/ work'.at = "verdict" /\ ~ToVerify
  PROVE  VerificationInv'
<1>1. WorkTypeOK'
  BY DEF VerificationInv, WorkTypeOK, SameTask, SameFindings
<1>2. BaselineStands'
  BY DEF VerificationInv, BaselineStands, SameTask
<1>3. ToVerify' = ToVerify
  BY DEF ToVerify, Requested, SameTask
<1>4. StabilityStands' /\ ChecksStand'
  BY <1>3 DEF StabilityStands, ChecksStand
<1>5. work'.verdict = "none" /\ work'.advice = "none"
  BY DEF VerificationInv, VerdictStands, Unsaid
<1>6. VerdictStands' /\ AdviceOnEvidence'
  BY <1>5 DEF VerdictStands, AdviceOnEvidence
<1> QED
  BY <1>1, <1>2, <1>4, <1>6 DEF VerificationInv

\* The agent at work, and its end.
LEMMA WorkingStands ==
  ASSUME VerificationInv, AgentEdits \/ AgentCommits \/ Finish
  PROVE  VerificationInv'
<1>1. /\ work \in WorkType /\ tree \in Trees /\ committed \in Trees
      /\ origin \in Trees /\ work.at = "working"
  BY DEF VerificationInv, WorkTypeOK, AgentEdits, AgentCommits, Finish, Stage
<1>2. work.did + 1 \in Nat
  BY <1>1 DEF WorkType
<1>3. ASSUME tree' \in Trees, committed' \in Trees, UNCHANGED origin,
             work' \in WorkType, work'.plan = work.plan, work'.dirty = work.dirty,
             SameFindings(work'), Unsaid(work'), work'.sighted = work.sighted,
             ~work'.moved => ~work.moved /\ UNCHANGED committed,
             \/ work'.at \in {"working", "status"}
             \/ work'.at = "files" /\ work'.readOnly
      PROVE  VerificationInv'
  <2>1. WorkTypeOK'
    BY <1>1, <1>3 DEF VerificationInv, WorkTypeOK, SameFindings
  <2>2. BaselineStands'
    BY <1>3 DEF VerificationInv, BaselineStands
  <2>3. EvidenceStands' /\ StabilityStands'
    BY <1>3 DEF EvidenceStands, StabilityStands
  <2>4. work'.verdict = "none" /\ work'.advice = "none"
    BY <1>1, <1>3 DEF VerificationInv, VerdictStands, Unsaid
  <2>5. ChecksStand' /\ VerdictStands' /\ AdviceOnEvidence'
    BY <1>3, <2>4 DEF ChecksStand, VerdictStands, AdviceOnEvidence
  <2> QED
    BY <2>1, <2>2, <2>3, <2>5 DEF VerificationInv
<1>4. CASE AgentEdits
  <2>1. tree' \in Trees
    BY <1>1, <1>4 DEF AgentEdits, Edited, Trees
  <2>2. UNCHANGED <<committed, origin>> /\ work' = [work EXCEPT !.did = work.did + 1]
    BY <1>4 DEF AgentEdits
  <2>3. /\ work' \in WorkType /\ SameTask(work') /\ SameFindings(work')
        /\ Unsaid(work') /\ work'.at = work.at /\ work'.sighted = work.sighted
        /\ work'.moved = work.moved
    BY <1>1, <1>2, <2>2, WorkGoesOn, Zenon
  <2> QED
    BY <1>1, <1>3, <2>1, <2>2, <2>3 DEF SameTask
<1>5. CASE AgentCommits
  <2>1. /\ UNCHANGED <<tree, origin>> /\ committed' = tree
        /\ work' = [work EXCEPT !.did = work.did + 1, !.moved = TRUE]
    BY <1>5 DEF AgentCommits
  <2>2. /\ work' \in WorkType /\ SameTask(work') /\ SameFindings(work')
        /\ Unsaid(work') /\ work'.at = work.at /\ work'.sighted = work.sighted
        /\ work'.moved
    BY <1>1, <1>2, <2>1, WorkGoesOn, Zenon
  <2> QED
    BY <1>1, <1>3, <2>1, <2>2 DEF SameTask
<1>6. CASE Finish
  <2>1. PICK outcome \in Outcomes, claims \in SUBSET Files :
          work' = [work EXCEPT !.outcome = outcome,
                     !.claims = IF work.readOnly THEN {} ELSE claims,
                     !.at = IF work.readOnly THEN "files" ELSE "status"]
    BY <1>6 DEF Finish
  <2>2. PICK says \in SUBSET Files, at \in Stages :
          /\ work' = [work EXCEPT !.outcome = outcome, !.claims = says, !.at = at]
          /\ work.readOnly => at = "files"
          /\ ~work.readOnly => at = "status"
    <3>1. CASE work.readOnly
      BY <2>1, <3>1 DEF Stages
    <3>2. CASE ~work.readOnly
      BY <2>1, <3>2 DEF Stages
    <3> QED
      BY <3>1, <3>2
  <2>3. work' = [work EXCEPT !.outcome = outcome, !.claims = says, !.at = at]
    BY <2>2
  <2>4. /\ work' \in WorkType /\ SameFindings(work') /\ Unsaid(work')
        /\ work'.at = at /\ work'.sighted = work.sighted /\ work'.moved = work.moved
        /\ work'.plan = work.plan /\ work'.readOnly = work.readOnly
        /\ work'.dirty = work.dirty
    BY <1>1, <2>3, WorkEnds
  <2>5. UNCHANGED <<tree, committed, origin>>
    BY <1>6 DEF Finish
  <2> QED
    BY <1>1, <1>3, <2>2, <2>4, <2>5
<1> QED
  BY <1>4, <1>5, <1>6

\* The observation of the workspace, which may be blind at every question.
LEMMA ObservingStands ==
  ASSUME VerificationInv, ReadStatus \/ ReadDiff \/ ReadHead \/ CaptureFiles
  PROVE  VerificationInv'
<1>1. /\ work \in WorkType /\ tree \in Trees /\ work.at # "saved"
      /\ UNCHANGED <<tree, committed, origin>>
  BY DEF VerificationInv, WorkTypeOK, ReadStatus, ReadDiff, ReadHead, CaptureFiles,
         Stage
<1>2. /\ GitVisible' = GitVisible
      /\ Differing(committed, tree)' = Differing(committed, tree)
  BY <1>1 DEF GitVisible, Differing
<1>3. Differing(committed, tree) \in SUBSET Files /\ NoPatch \in Patches
      /\ DOMAIN GitVisible = Differing(committed, tree)
  BY <1>1, GitVisibleIs, NoPatchIsAPatch
<1>4. ASSUME work' \in WorkType, SameTask(work'), SameFindings(work'), Unsaid(work'),
             ~work'.sighted, work'.moved = work.moved,
             \/ work'.at \in {"diff", "head", "files", "checks"}
             \/ work'.at = "verdict" /\ ~ToVerify
      PROVE  VerificationInv'
  <2>1. EvidenceStands'
    BY <1>4 DEF EvidenceStands
  <2> QED
    BY <1>1, <1>4, <2>1, BeforeTheChecks
<1>5. CASE Blind
  <2>1. work' = [work EXCEPT !.at = "files", !.observed = {}, !.patch = NoPatch,
                             !.sighted = FALSE]
    BY <1>5 DEF Blind
  <2>2. /\ work' \in WorkType /\ SameTask(work') /\ SameFindings(work')
        /\ Unsaid(work') /\ work'.at = "files" /\ ~work'.sighted
        /\ work'.moved = work.moved
    BY <1>1, <2>1, WorkBlind DEF Stages
  <2> QED
    BY <2>2, <1>4
<1>6. CASE ReadStatus /\ ~Blind
  <2>1. CASE work' = [work EXCEPT !.at = "diff", !.observed = Differing(committed, tree)]
    <3>1. "diff" \in Stages /\ Differing(committed, tree) \in SUBSET Files
      BY <1>3 DEF Stages
    <3>2. /\ work' \in WorkType /\ SameTask(work') /\ SameFindings(work')
          /\ Unsaid(work') /\ work'.at = "diff" /\ work'.sighted = work.sighted
          /\ work'.moved = work.moved /\ work'.observed = Differing(committed, tree)
      BY <1>1, <2>1, <3>1, WorkObserved
    <3>3. EvidenceStands'
      BY <1>2, <3>2 DEF EvidenceStands, AllObserved
    <3> QED
      BY <1>1, <3>2, <3>3, BeforeTheChecks
  <2>2. CASE work' = [work EXCEPT !.at = "diff", !.sighted = FALSE]
    <3>1. /\ work' \in WorkType /\ SameTask(work') /\ SameFindings(work')
          /\ Unsaid(work') /\ work'.at = "diff" /\ ~work'.sighted
          /\ work'.moved = work.moved
      BY <1>1, <2>2, WorkUnsighted DEF Stages
    <3> QED
      BY <3>1, <1>4
  <2> QED
    BY <1>6, <2>1, <2>2 DEF ReadStatus
<1>7. CASE ReadDiff /\ ~Blind
  <2> DEFINE added == {f \in work.observed : committed[f] = Absent /\ tree[f] # Absent}
             edited == {f \in Differing(committed, tree) : committed[f] # Absent}
             Both(small) == [f \in edited \cup small |-> tree[f]]
             Untracked(small) == [f \in small |-> tree[f]]
  <2>1. PICK small \in SUBSET added :
          \/ work' = [work EXCEPT !.at = "head", !.patch = Both(small)]
          \/ work' = [work EXCEPT !.at = "head", !.sighted = FALSE,
                        !.patch = Untracked(small)]
    BY <1>7 DEF ReadDiff
  <2>2. work.at = "diff"
    BY <1>7 DEF ReadDiff, Stage
  <2>3. work.observed \in SUBSET Files
    BY <1>1 DEF WorkType
  <2>4. Both(small) \in Patches /\ Untracked(small) \in Patches
    <3>1. edited \cup small \in SUBSET Files /\ small \in SUBSET Files
      BY <1>3, <2>3
    <3> HIDE DEF edited, added
    <3> QED
      BY <1>1, <3>1, PatchIs
  <2>5. ASSUME work.observed = Differing(committed, tree)
        PROVE  /\ edited \cup small \subseteq work.observed
               /\ \A f \in work.observed :
                    f \notin edited \cup small => committed[f] = Absent
    BY <2>5
  <2> DEFINE both == Both(small)
             untracked == Untracked(small)
  <2>6. /\ DOMAIN both = edited \cup small
        /\ \A f \in edited \cup small : both[f] = tree[f]
    OBVIOUS
  <2>7. \/ work' = [work EXCEPT !.at = "head", !.patch = both]
        \/ work' = [work EXCEPT !.at = "head", !.sighted = FALSE, !.patch = untracked]
    BY <2>1
  <2>8. both \in Patches /\ untracked \in Patches
    BY <2>4
  <2> HIDE DEF both, untracked, Both, Untracked, edited, added
  <2>9. CASE work' = [work EXCEPT !.at = "head", !.patch = both]
    <3>1. "head" \in Stages
      BY DEF Stages
    <3>2. /\ work' \in WorkType /\ SameTask(work') /\ SameFindings(work')
          /\ Unsaid(work') /\ work'.at = "head" /\ work'.sighted = work.sighted
          /\ work'.moved = work.moved /\ work'.observed = work.observed
          /\ work'.patch = both
      BY <1>1, <2>8, <2>9, <3>1, WorkPatched
    <3>3. work.sighted /\ ~work.readOnly => work.observed = Differing(committed, tree)
      BY <2>2 DEF VerificationInv, EvidenceStands, AllObserved
    <3>4. ASSUME work.sighted, ~work.readOnly
          PROVE  AllObserved' /\ PatchHolds' /\ PatchWhole'
      <4>1. AllObserved'
        BY <1>2, <3>2, <3>3, <3>4 DEF AllObserved
      <4>2. PatchHolds'
        BY <1>1, <2>5, <2>6, <3>2, <3>3, <3>4 DEF PatchHolds
      <4>3. PatchWhole'
        BY <1>1, <2>5, <2>6, <3>2, <3>3, <3>4 DEF PatchWhole
      <4> QED
        BY <4>1, <4>2, <4>3
    <3>5. EvidenceStands'
      BY <3>2, <3>4 DEF EvidenceStands, SameTask
    <3> QED
      BY <1>1, <3>2, <3>5, BeforeTheChecks
  <2>10. CASE work' = [work EXCEPT !.at = "head", !.sighted = FALSE, !.patch = untracked]
    <3>1. /\ work' \in WorkType /\ SameTask(work') /\ SameFindings(work')
          /\ Unsaid(work') /\ work'.at = "head" /\ ~work'.sighted
          /\ work'.moved = work.moved
      BY <1>1, <2>8, <2>10, WorkPatchUnsighted DEF Stages
    <3> QED
      BY <3>1, <1>4
  <2> QED
    BY <2>7, <2>9, <2>10
<1>8. CASE ReadHead /\ ~Blind
  <2>1. work.at = "head"
    BY <1>8 DEF ReadHead, Stage
  <2>2. CASE work' = [work EXCEPT !.at = "files",
                        !.headChanged = work.headKnown /\ work.moved]
    <3>1. PICK b \in BOOLEAN : b = (work.headKnown /\ work.moved)
      OBVIOUS
    <3>2. work' = [work EXCEPT !.at = "files", !.headChanged = b]
      BY <2>2, <3>1
    <3>3. "files" \in Stages /\ b \in BOOLEAN
      BY <3>1 DEF Stages
    <3>4. /\ work' \in WorkType /\ SameTask(work') /\ SameFindings(work')
          /\ SameEvidence(work')
          /\ Unsaid(work') /\ work'.at = "files" /\ work'.sighted = work.sighted
          /\ work'.moved = work.moved
      BY <1>1, <3>2, <3>3, WorkHeaded
    <3>5. EvidenceStands'
      BY <1>1, <2>1, <3>4, EvidenceKept DEF VerificationInv, EvidenceStands, SameTask
    <3> QED
      BY <1>1, <3>4, <3>5, BeforeTheChecks
  <2>3. CASE work' = [work EXCEPT !.at = "files", !.sighted = FALSE]
    <3>1. /\ work' \in WorkType /\ SameTask(work') /\ SameFindings(work')
          /\ Unsaid(work') /\ work'.at = "files" /\ ~work'.sighted
          /\ work'.moved = work.moved
      BY <1>1, <2>3, WorkUnsighted DEF Stages
    <3> QED
      BY <3>1, <1>4
  <2> QED
    BY <1>8, <2>2, <2>3 DEF ReadHead
<1>9. CASE CaptureFiles
  <2> DEFINE named == work.claims \cup work.observed \cup work.plan.expected
             there == {f \in named : tree[f] # Absent}
             next == IF ToVerify THEN "checks" ELSE "verdict"
  <2>1. work.at = "files"
    BY <1>9 DEF CaptureFiles, Stage
  <2> DEFINE part(fits) == [f \in fits |-> work.patch[f]]
  <2>2. \/ \E read \in SUBSET there, fits \in SUBSET DOMAIN work.patch :
             work' = [work EXCEPT !.at = next, !.captured = read,
                        !.patch = part(fits), !.cut = fits # DOMAIN work.patch]
        \/ work' = [work EXCEPT !.at = next, !.observed = {}, !.patch = NoPatch,
                      !.headChanged = FALSE, !.sighted = FALSE]
    BY <1>9 DEF CaptureFiles
  <2>3. next \in Stages /\ (next = "checks" \/ (next = "verdict" /\ ~ToVerify))
    BY DEF Stages
  <2>4. SUBSET there \subseteq SUBSET Files
    BY <1>1 DEF WorkType, VerificationPlans
  <2> HIDE DEF next, there
  <2>5. ASSUME NEW read \in SUBSET there, NEW p \in Patches, NEW b \in BOOLEAN,
               Stores(next, read, p, b),
               NEW fits, DOMAIN p = fits, \A f \in fits : p[f] = work.patch[f],
               fits \subseteq DOMAIN work.patch, ~b => fits = DOMAIN work.patch
        PROVE  VerificationInv'
    <3>1. next \in Stages /\ read \in SUBSET Files
      BY <2>3, <2>4
    <3>5. /\ work' \in WorkType /\ SameTask(work') /\ SameFindings(work')
          /\ Unsaid(work') /\ work'.at = next /\ work'.sighted = work.sighted
          /\ work'.moved = work.moved /\ work'.observed = work.observed
          /\ work'.patch = p /\ work'.cut = b
      BY <1>1, <2>5, <3>1, WorkCaptured
    <3>6. ASSUME work.sighted, ~work.readOnly
          PROVE  AllObserved' /\ PatchHolds' /\ PatchLacks'
      <4>1. AllObserved /\ PatchHolds /\ PatchWhole
        BY <2>1, <3>6 DEF VerificationInv, EvidenceStands
      <4>2. AllObserved'
        BY <1>2, <3>5, <4>1 DEF AllObserved
      <4>3. PatchHolds'
        BY <1>1, <2>5, <3>5, <4>1 DEF PatchHolds
      <4>4. PatchLacks'
        <5>1. CASE b
          BY <3>5, <5>1 DEF PatchLacks
        <5>2. CASE ~b
          BY <1>1, <2>5, <3>5, <4>1, <5>2 DEF PatchWhole, PatchLacks
        <5> QED
          BY <5>1, <5>2
      <4> QED
        BY <4>2, <4>3, <4>4
    <3>7. EvidenceStands'
      BY <2>3, <3>5, <3>6 DEF EvidenceStands, SameTask
    <3> QED
      BY <1>1, <2>3, <3>5, <3>7, BeforeTheChecks
  <2>6. CASE work' = [work EXCEPT !.at = next, !.observed = {}, !.patch = NoPatch,
                        !.headChanged = FALSE, !.sighted = FALSE]
    <3>1. /\ work' \in WorkType /\ SameTask(work') /\ SameFindings(work')
          /\ Unsaid(work') /\ work'.at = next /\ ~work'.sighted
          /\ work'.moved = work.moved
      BY <1>1, <2>3, <2>6, WorkDropped
    <3> QED
      BY <2>3, <3>1, <1>4
  <2>7. ASSUME NEW read \in SUBSET there, NEW fits \in SUBSET DOMAIN work.patch,
               work' = [work EXCEPT !.at = next, !.captured = read,
                          !.patch = part(fits), !.cut = fits # DOMAIN work.patch]
        PROVE  VerificationInv'
    <3>1. PICK p \in Patches : p = part(fits)
      BY <1>1, PartOfPatch DEF WorkType
    <3>2. PICK b \in BOOLEAN : b = (fits # DOMAIN work.patch)
      OBVIOUS
    <3>3. DOMAIN p = fits /\ \A f \in fits : p[f] = work.patch[f]
      BY <3>1
    <3>4. Stores(next, read, p, b)
      BY <2>7, <3>1, <3>2 DEF Stores
    <3> QED
      BY <2>5, <3>2, <3>3, <3>4
  <2> QED
    BY <2>2, <2>6, <2>7
<1> QED
  BY <1>5, <1>6, <1>7, <1>8, <1>9

LEMMA CheckStands ==
  ASSUME VerificationInv, Check
  PROVE  VerificationInv'
<1> DEFINE plan == work.plan
           fails == {c \in {"scope", "artifact", "patch", "dirty", "head"} :
             \/ c = "scope" /\ ScopeFails(plan, work.observed)
             \/ c = "artifact" /\ ~(plan.expected \subseteq work.captured)
             \/ c = "patch" /\ plan.needsPatch /\ work.patch = NoPatch
                            /\ ~work.cut /\ ~work.headChanged
             \/ c = "dirty" /\ work.dirty
             \/ c = "head" /\ plan.needsPatch /\ work.headChanged}
<1>1. /\ work \in WorkType /\ work.at = "checks"
      /\ UNCHANGED <<tree, committed, origin>>
      /\ work' = [work EXCEPT !.at = "before", !.failed = fails]
  BY DEF VerificationInv, WorkTypeOK, Check, Stage
<1>2. fails \in SUBSET Checks
  BY DEF Checks
<1>3. /\ "scope" \notin fails => ~ScopeFails(plan, work.observed)
      /\ "artifact" \notin fails => plan.expected \subseteq work.captured
      /\ "dirty" \notin fails => ~work.dirty
  OBVIOUS
<1> HIDE DEF fails
<1>4. /\ work' \in WorkType /\ SameTask(work') /\ SameEvidence(work') /\ Unsaid(work')
      /\ work'.at = "before" /\ work'.failed = fails /\ work'.left = work.left
      /\ work'.sighted = work.sighted /\ work'.moved = work.moved
  BY <1>1, <1>2, WorkFailed DEF Stages
<1>5. /\ PatchHolds' = PatchHolds /\ PatchLacks' = PatchLacks
      /\ AllObserved' = AllObserved
  BY <1>1, <1>4, EvidenceKept
<1>6. WorkTypeOK' /\ BaselineStands'
  BY <1>1, <1>4 DEF VerificationInv, WorkTypeOK, BaselineStands, SameTask
<1>7. EvidenceStands' /\ StabilityStands'
  BY <1>1, <1>4, <1>5 DEF VerificationInv, EvidenceStands, StabilityStands, SameTask
<1>8. ChecksStand'
  BY <1>3, <1>4 DEF ChecksStand, SameTask, SameEvidence, ScopeFails
<1>9. work'.verdict = "none" /\ work'.advice = "none"
  BY <1>1, <1>4 DEF VerificationInv, VerdictStands, Unsaid
<1>10. VerdictStands' /\ AdviceOnEvidence'
  BY <1>9 DEF VerdictStands, AdviceOnEvidence
<1> QED
  BY <1>6, <1>7, <1>8, <1>10 DEF VerificationInv

LEMMA HashBeforeStands ==
  ASSUME VerificationInv, HashBefore
  PROVE  VerificationInv'
<1>1. /\ work \in WorkType /\ tree \in Trees /\ work.at = "before"
      /\ UNCHANGED <<tree, committed, origin>>
  BY DEF VerificationInv, WorkTypeOK, HashBefore, Stage
<1>2. GitVisible' = GitVisible /\ GitVisible \in Patches
  BY <1>1, GitVisibleIs DEF GitVisible, Differing
<1>3. /\ work' \in WorkType /\ SameTask(work') /\ SameEvidence(work') /\ Unsaid(work')
      /\ work'.at = "commands" /\ work'.failed = work.failed
      /\ work'.left = work.left /\ work'.moved = work.moved
      /\ \/ /\ work'.sighted = work.sighted
            /\ work'.hash = GitVisible /\ work'.hashed
         \/ ~work'.sighted
  <2>1. CASE work' = [work EXCEPT !.at = "commands", !.hash = GitVisible,
                                  !.hashed = TRUE]
    BY <1>1, <1>2, <2>1, WorkHashed DEF Stages
  <2>2. CASE work' = [work EXCEPT !.at = "commands", !.sighted = FALSE]
    BY <1>1, <2>2, WorkUnsighted DEF Stages, SameFindings
  <2> QED
    BY <2>1, <2>2 DEF HashBefore
<1>4. WorkTypeOK' /\ BaselineStands'
  BY <1>1, <1>3 DEF VerificationInv, WorkTypeOK, BaselineStands, SameTask
<1>5. EvidenceStands'
  BY <1>3 DEF EvidenceStands
<1>6. StabilityStands'
  <2> SUFFICES ASSUME work'.sighted, ~work'.readOnly
               PROVE  HashAgrees' /\ PatchLacks' /\ AllObserved' /\ PatchHolds'
    BY <1>3 DEF StabilityStands
  <2>1. work.sighted /\ ~work.readOnly /\ work'.hash = GitVisible /\ work'.hashed
    BY <1>3 DEF SameTask
  <2>2. AllObserved /\ PatchHolds /\ PatchLacks
    BY <1>1, <2>1 DEF VerificationInv, EvidenceStands
  <2>3. AllObserved' /\ PatchHolds' /\ PatchLacks'
    BY <1>1, <1>3, <2>2, EvidenceKept
  <2>4. DOMAIN GitVisible = work.observed
    BY <1>1, <2>2, GitVisibleIs DEF AllObserved
  <2>5. \A f \in work.observed : GitVisible[f] = tree[f]
    BY <2>2 DEF AllObserved, GitVisible
  <2>6. \A f \in DOMAIN work.patch : f \in work.observed /\ GitVisible[f] = work.patch[f]
    BY <2>2, <2>5 DEF PatchHolds
  <2>7. HashAgrees'
    BY <1>3, <2>1, <2>4, <2>6 DEF HashAgrees, SameEvidence
  <2> QED
    BY <2>3, <2>7
<1>7. ChecksStand'
  BY <1>1, <1>3 DEF VerificationInv, ChecksStand, SameTask, SameEvidence, ScopeFails
<1>8. work'.verdict = "none" /\ work'.advice = "none"
  BY <1>1, <1>3 DEF VerificationInv, VerdictStands, Unsaid
<1>9. VerdictStands' /\ AdviceOnEvidence'
  BY <1>8 DEF VerdictStands, AdviceOnEvidence
<1> QED
  BY <1>4, <1>5, <1>6, <1>7, <1>9 DEF VerificationInv

\* A command may change the files, but not what was captured of them.
LEMMA RunCommandStands ==
  ASSUME VerificationInv, RunCommand
  PROVE  VerificationInv'
<1>1. /\ work \in WorkType /\ tree \in Trees /\ work.at = "commands" /\ work.left > 0
      /\ UNCHANGED <<committed, origin>> /\ work.left <= work.plan.commands
  BY DEF VerificationInv, WorkTypeOK, RunCommand, Stage
<1>2. work.left \in Nat /\ work.failed \in SUBSET Checks /\ work.plan.commands \in Nat
  BY <1>1 DEF WorkType, VerificationPlans
<1>3. tree' \in Trees
  BY <1>1 DEF RunCommand, Edited, Trees
<1>4. PICK fails \in {{}, {"command"}} :
        work' = [work EXCEPT !.left = work.left - 1, !.failed = work.failed \cup fails]
  BY DEF RunCommand
<1>5. /\ work.left - 1 \in Nat /\ work.left - 1 <= work.plan.commands
      /\ work.plan.commands # 0
  BY <1>1, <1>2
<1>6. work.failed \cup fails \in SUBSET Checks
  BY <1>2, <1>4 DEF Checks
<1>7. /\ work' \in WorkType /\ SameTask(work') /\ SameEvidence(work') /\ Unsaid(work')
      /\ work'.at = "commands" /\ work'.failed = work.failed \cup fails
      /\ work'.hash = work.hash /\ work'.hashed = work.hashed
      /\ work'.left = work.left - 1
      /\ work'.sighted = work.sighted /\ work'.moved = work.moved
  BY <1>1, <1>4, <1>5, <1>6, WorkCommanded
<1>8. WorkTypeOK' /\ BaselineStands'
  BY <1>1, <1>3, <1>5, <1>7
     DEF VerificationInv, WorkTypeOK, BaselineStands, SameTask
<1>9. EvidenceStands'
  BY <1>7 DEF EvidenceStands
<1>10. StabilityStands'
  <2>1. work.sighted /\ ~work.readOnly => HashAgrees /\ PatchLacks
    BY <1>1 DEF VerificationInv, StabilityStands
  <2>2. HashAgrees' = HashAgrees
    BY <1>7 DEF HashAgrees, SameEvidence
  <2>3. PatchLacks' = PatchLacks
    BY <1>1, <1>7 DEF PatchLacks, SameEvidence
  <2> QED
    BY <1>5, <1>7, <2>1, <2>2, <2>3 DEF StabilityStands, SameTask
<1>11. ChecksStand'
  BY <1>1, <1>7 DEF VerificationInv, ChecksStand, SameTask, SameEvidence, ScopeFails
<1>12. work'.verdict = "none" /\ work'.advice = "none"
  BY <1>1, <1>7 DEF VerificationInv, VerdictStands, Unsaid
<1>13. VerdictStands' /\ AdviceOnEvidence'
  BY <1>12 DEF VerdictStands, AdviceOnEvidence
<1> QED
  BY <1>8, <1>9, <1>10, <1>11, <1>13 DEF VerificationInv

LEMMA HashAfterStands ==
  ASSUME VerificationInv, HashAfter
  PROVE  VerificationInv'
<1> DEFINE fails == IF /\ work.hashed /\ work.plan.commands > 0
                       /\ work.hash # GitVisible
                    THEN work.failed \cup {"stability"} ELSE work.failed
<1>1. /\ work \in WorkType /\ tree \in Trees /\ work.at = "commands"
      /\ UNCHANGED <<tree, committed, origin>>
  BY DEF VerificationInv, WorkTypeOK, HashAfter, Stage
<1>2. GitVisible' = GitVisible
  BY <1>1 DEF GitVisible, Differing
<1>3. /\ work.failed \in SUBSET Checks /\ work.plan.commands \in Nat
      /\ fails \in SUBSET Checks
  BY <1>1 DEF WorkType, VerificationPlans, Checks
<1>4. /\ \A c \in Checks : c # "stability" => (c \in fails <=> c \in work.failed)
      /\ "stability" \notin fails /\ work.hashed /\ work.plan.commands # 0 =>
           work.hash = GitVisible
  BY <1>3
<1> HIDE DEF fails
<1>5. /\ work' \in WorkType /\ SameTask(work') /\ SameEvidence(work') /\ Unsaid(work')
      /\ work'.at = "verdict" /\ work'.left = work.left
      /\ work'.moved = work.moved
      /\ \/ work'.sighted = work.sighted /\ work'.failed = fails
         \/ ~work'.sighted /\ work'.failed = work.failed
  <2>1. CASE work' = [work EXCEPT !.at = "verdict", !.failed = fails]
    BY <1>1, <1>3, <2>1, WorkFailed DEF Stages
  <2>2. CASE work' = [work EXCEPT !.at = "verdict", !.sighted = FALSE]
    BY <1>1, <2>2, WorkUnsighted DEF Stages, SameFindings
  <2> QED
    BY <2>1, <2>2 DEF HashAfter, fails
<1>6. WorkTypeOK' /\ BaselineStands'
  BY <1>1, <1>5 DEF VerificationInv, WorkTypeOK, BaselineStands, SameTask
<1>7. EvidenceStands'
  BY <1>5 DEF EvidenceStands
<1>8. StabilityStands'
  <2> SUFFICES ASSUME work'.sighted, ~work'.readOnly
               PROVE  /\ PatchLacks'
                      /\ "stability" \notin work'.failed => AllObserved' /\ PatchHolds'
    BY <1>5 DEF StabilityStands
  <2>1. work.sighted /\ ~work.readOnly /\ work'.failed = fails
    BY <1>5 DEF SameTask
  <2>2. /\ HashAgrees /\ PatchLacks
        /\ work.plan.commands = 0 => AllObserved /\ PatchHolds
    BY <1>1, <2>1 DEF VerificationInv, StabilityStands
  <2>3. /\ PatchHolds' = PatchHolds /\ PatchLacks' = PatchLacks
        /\ AllObserved' = AllObserved
    BY <1>1, <1>5, EvidenceKept
  <2>4. ASSUME "stability" \notin fails, work.plan.commands # 0
        PROVE  AllObserved /\ PatchHolds
    <3>1. work.hash = GitVisible
      BY <1>4, <2>2, <2>4 DEF HashAgrees
    <3>2. work.observed = Differing(committed, tree)
      BY <1>1, <2>2, <3>1, GitVisibleIs DEF HashAgrees
    <3>3. \A f \in work.observed : work.hash[f] = tree[f]
      BY <3>1, <3>2 DEF GitVisible
    <3>4. \A f \in DOMAIN work.patch : f \in work.observed /\ work.patch[f] = tree[f]
      BY <2>2, <3>3 DEF HashAgrees
    <3> QED
      BY <3>2, <3>4 DEF AllObserved, PatchHolds
  <2> QED
    BY <2>1, <2>2, <2>3, <2>4
<1>9. ChecksStand'
  <2>1. /\ "scope" \notin work.failed => ~ScopeFails(work.plan, work.observed)
        /\ "artifact" \notin work.failed => work.plan.expected \subseteq work.captured
        /\ "dirty" \notin work.failed => ~work.dirty
    BY <1>1 DEF VerificationInv, ChecksStand
  <2>2. \A c \in {"scope", "artifact", "dirty"} :
          c \in work'.failed <=> c \in work.failed
    BY <1>4, <1>5 DEF Checks
  <2> QED
    BY <1>5, <2>1, <2>2 DEF ChecksStand, SameTask, SameEvidence, ScopeFails
<1>10. work'.verdict = "none" /\ work'.advice = "none"
  BY <1>1, <1>5 DEF VerificationInv, VerdictStands, Unsaid
<1>11. VerdictStands' /\ AdviceOnEvidence'
  BY <1>10 DEF VerdictStands, AdviceOnEvidence
<1> QED
  BY <1>6, <1>7, <1>8, <1>9, <1>11 DEF VerificationInv

\* The verdict and the advice are given together, and never changed.
LEMMA SaveResultStands ==
  ASSUME VerificationInv, SaveResult
  PROVE  VerificationInv'
<1>1. /\ work \in WorkType /\ work.at = "verdict"
      /\ UNCHANGED <<tree, committed, origin>>
  BY DEF VerificationInv, WorkTypeOK, SaveResult, Stage
<1>2. PICK verdict \in {VerdictOf} \cup (IF ToVerify /\ work.outcome # "completed"
                                          THEN {"NEEDS_REVIEW"} ELSE {}) :
        work' = [work EXCEPT !.at = "saved", !.verdict = verdict,
                             !.advice = Assess(verdict)]
  BY DEF SaveResult
<1>3. verdict \in Verdicts
  BY <1>2 DEF VerdictOf, Verdicts
<1>4. Assess(verdict) \in Advice
  BY DEF Assess, Advice
<1>5. /\ work' \in WorkType /\ SameTask(work') /\ SameEvidence(work')
      /\ SameFindings(work')
      /\ work'.at = "saved" /\ work'.verdict = verdict
      /\ work'.advice = Assess(verdict)
      /\ work'.sighted = work.sighted /\ work'.moved = work.moved
  BY <1>1, <1>2, <1>3, <1>4, WorkSaid DEF Stages
<1>6. /\ ToVerify' = ToVerify /\ PatchHolds' = PatchHolds
      /\ PatchLacks' = PatchLacks /\ AllObserved' = AllObserved
  <2>1. ToVerify' = ToVerify
    BY <1>5 DEF ToVerify, Requested, SameTask
  <2> QED
    BY <1>1, <1>5, <2>1, EvidenceKept
<1>7. WorkTypeOK' /\ BaselineStands'
  BY <1>1, <1>5 DEF VerificationInv, WorkTypeOK, BaselineStands, SameTask, SameFindings
<1>8. EvidenceStands' /\ StabilityStands'
  BY <1>1, <1>5, <1>6 DEF VerificationInv, EvidenceStands, StabilityStands,
     SameTask, SameFindings
<1>9. ChecksStand'
  BY <1>1, <1>5, <1>6 DEF VerificationInv, ChecksStand, SameTask, SameEvidence,
     SameFindings, ScopeFails
<1>10. verdict = "PASSED" => ToVerify /\ work.failed = {}
  BY <1>2 DEF VerdictOf
<1>11. VerdictStands'
  BY <1>5, <1>6, <1>10 DEF VerdictStands, SameFindings
<1>12. /\ Assess(verdict) = "accept" =>
             work.outcome = "completed" /\ verdict = "PASSED"
       /\ Assess(verdict) = "review_for_acceptance" => Substantive(work)
  <2>1. CASE verdict = "PASSED"
    BY <2>1 DEF Assess
  <2>2. CASE verdict = "FAILED"
    BY <2>2 DEF Assess
  <2>3. CASE verdict = "NEEDS_REVIEW"
    BY <2>3 DEF Assess
  <2>4. CASE verdict \notin {"PASSED", "FAILED", "NEEDS_REVIEW"}
    BY <2>4 DEF Assess
  <2> QED
    BY <2>1, <2>2, <2>3, <2>4
<1>13. AdviceOnEvidence'
  BY <1>5, <1>12 DEF AdviceOnEvidence, Substantive, SameTask, SameEvidence
<1> QED
  BY <1>7, <1>8, <1>9, <1>11, <1>13 DEF VerificationInv

LEMMA VerificationSteps ==
  VerificationInv /\ [VerificationNext]_verificationVars => VerificationInv'
<1> SUFFICES ASSUME VerificationInv, [VerificationNext]_verificationVars
             PROVE  VerificationInv'
  OBVIOUS
<1>1. CASE UNCHANGED verificationVars
  <2>1. UNCHANGED <<tree, committed, origin, work>>
    BY <1>1 DEF verificationVars
  <2>2. ToVerify' = ToVerify
    BY <2>1 DEF ToVerify, Requested
  <2>3. WorkTypeOK' /\ BaselineStands' /\ VerdictStands' /\ AdviceOnEvidence'
    BY <2>1, <2>2 DEF VerificationInv, WorkTypeOK, BaselineStands, VerdictStands,
       AdviceOnEvidence
  <2>4. /\ PatchHolds' = PatchHolds /\ PatchLacks' = PatchLacks
        /\ PatchWhole' = PatchWhole /\ AllObserved' = AllObserved
    BY <2>1, EvidenceKept DEF SameEvidence
  <2>5. HashAgrees' = HashAgrees
    BY <2>1 DEF HashAgrees
  <2>6. EvidenceStands' /\ StabilityStands' /\ ChecksStand'
    BY <2>1, <2>2, <2>4, <2>5 DEF VerificationInv, EvidenceStands, StabilityStands,
       ChecksStand, ScopeFails
  <2> QED
    BY <2>3, <2>6 DEF VerificationInv
<1> QED
  BY <1>1, WorkingStands, ObservingStands, CheckStands, HashBeforeStands,
     RunCommandStands, HashAfterStands, SaveResultStands DEF VerificationNext

\* What passed, with every question to Git answered and no commit made.
LEMMA PassedIsCaptured == VerificationInv => PassedMeansCaptured
<1> SUFFICES ASSUME VerificationInv, work.verdict = "PASSED", work.sighted,
                    ~work.moved, ~work.readOnly
             PROVE  /\ work.observed = Differing(committed, tree)
                    /\ \A f \in DOMAIN work.patch : work.patch[f] = tree[f]
                    /\ \A f \in work.observed \ DOMAIN work.patch :
                         work.cut \/ committed[f] = Absent
                    /\ \A f \in Differing(origin, tree) : InScope(f)
                    /\ work.plan.expected \subseteq work.captured
  BY DEF PassedMeansCaptured
<1>1. work.at = "saved" /\ ToVerify /\ work.failed = {}
  BY DEF VerificationInv, VerdictStands
<1>2. AllObserved /\ PatchHolds /\ PatchLacks
  BY <1>1 DEF VerificationInv, StabilityStands
<1>3. /\ ~ScopeFails(work.plan, work.observed) /\ ~work.dirty
      /\ work.plan.expected \subseteq work.captured
  BY <1>1 DEF VerificationInv, ChecksStand
<1>4. origin = committed
  BY <1>3 DEF VerificationInv, BaselineStands
<1>5. work.observed = Differing(origin, tree)
  BY <1>2, <1>4 DEF AllObserved
<1>6. \A f \in work.observed : InScope(f)
  BY <1>3 DEF ScopeFails, InScope
<1> QED
  BY <1>2, <1>3, <1>4, <1>5, <1>6 DEF AllObserved, PatchHolds, PatchLacks

LEMMA VerificationScenes == Spec => [](scene = "verification" => VerificationInv)
<1> DEFINE Inv == scene = "verification" => VerificationInv
<1>1. Init => Inv
  BY SceneStarts, VerificationStarts
<1>2. Inv /\ [Next]_servicesVars => Inv'
  <2> SUFFICES ASSUME Inv, [Next]_servicesVars, scene' = "verification"
               PROVE  VerificationInv'
    OBVIOUS
  <2>1. scene = "verification" /\ [VerificationNext]_verificationVars
    BY SceneSteps
  <2> QED
    BY <2>1, VerificationSteps
<1> QED
  BY <1>1, <1>2, PTL DEF Spec

\* What passed is in scope, is what the captured patch says and has the artifacts
\* it had to have, if Git answered every time and no commit was made: for any
\* plan, whatever the agent and the commands of the plan do to the files.
THEOREM ServicesVerdicts == Spec => []VerdictsStand
<1>1. (scene = "verification" => VerificationInv) => VerdictsStand
  <2>1. VerificationInv => VerificationTypeOK
    BY DEF VerificationInv, WorkTypeOK, VerificationTypeOK, WorkType
  <2> QED
    BY <2>1, PassedIsCaptured DEF VerdictsStand
<1> QED
  BY <1>1, VerificationScenes, PTL

\* Nothing is accepted without a terminal answer and a verdict, nor offered for
\* acceptance without evidence.
THEOREM ServicesAdvice == Spec => []AdviceStands
<1>1. (scene = "verification" => VerificationInv) => AdviceStands
  BY DEF VerificationInv, AdviceStands
<1> QED
  BY <1>1, VerificationScenes, PTL

(***************************************************************************)
(* The lists of the migration                                              *)
(***************************************************************************)

\* What each version adds.
LEMMA ListsAre ==
  /\ Migrations[1] = <<"tasks", "sessions", "attempts", "events", "idempotency">>
  /\ Migrations[2] = <<"tasks.terminal_reason">>
  /\ Migrations[3] = <<"sessions.owner_generation", "tasks.lost_at">>
  /\ Migrations[4] = <<"artifacts", "evidences">>
  /\ Migrations[5] = <<"task_lineage">>
  /\ Migrations[6] = <<"workflows", "workflow_stages", "workflow_approvals",
                       "workflow_events">>
  /\ Migrations[7] = <<"context_manifests", "context_entries">>
  /\ Migrations[8] = <<"tool_invocations">>
  /\ Migrations[9] = <<"knowledge_collections", "knowledge_sources",
                       "knowledge_resolutions">>
  /\ Migrations[10] = <<"planner_plans", "planner_steps", "planner_dependencies",
                        "planner_events">>
  /\ Migrations[11] = <<"workflow_stages.completion_policy", "plan_executions",
                        "plan_execution_steps", "plan_execution_events",
                        "plan_results">>
  /\ Migrations[12] = <<"evidences.usage">>
  /\ Migrations[13] = <<"tasks.run_id", "run_controls">>
<1>1. <<"workflow_stages.completion_policy">> \o ExecutionTables
        = <<"workflow_stages.completion_policy", "plan_executions",
            "plan_execution_steps", "plan_execution_events", "plan_results">>
  <2> DEFINE first == <<"workflow_stages.completion_policy">>
             rest == <<"plan_executions", "plan_execution_steps",
                       "plan_execution_events", "plan_results">>
             names == {"workflow_stages.completion_policy", "plan_executions",
                       "plan_execution_steps", "plan_execution_events",
                       "plan_results"}
  <2>1. first \in Seq(names) /\ rest \in Seq(names)
    OBVIOUS
  <2>2. Len(first) = 1 /\ Len(rest) = 4
    OBVIOUS
  <2>3. /\ first[1] = "workflow_stages.completion_policy"
        /\ rest[1] = "plan_executions" /\ rest[2] = "plan_execution_steps"
        /\ rest[3] = "plan_execution_events" /\ rest[4] = "plan_results"
    OBVIOUS
  <2>4. ExecutionTables = rest
    BY DEF ExecutionTables
  <2> DEFINE all == <<"workflow_stages.completion_policy", "plan_executions",
                      "plan_execution_steps", "plan_execution_events",
                      "plan_results">>
  <2>5. all \in Seq(names) /\ Len(all) = 5
    OBVIOUS
  <2>6. /\ all[1] = first[1] /\ all[2] = rest[1] /\ all[3] = rest[2]
        /\ all[4] = rest[3] /\ all[5] = rest[4]
    BY <2>3
  <2> HIDE DEF first, rest, names, all
  <2>7. first \o rest = all
    <3>1. /\ first \o rest \in Seq(names)
          /\ Len(first \o rest) = Len(first) + Len(rest)
          /\ \A i \in 1 .. Len(first) + Len(rest) :
               (first \o rest)[i] = IF i <= Len(first) THEN first[i]
                                    ELSE rest[i - Len(first)]
      BY <2>1, ConcatProperties, Zenon
    <3>2. /\ Len(first \o rest) = 5
          /\ \A i \in 1 .. 5 :
               (first \o rest)[i] = IF i <= 1 THEN first[i] ELSE rest[i - 1]
      BY <2>2, <3>1
    <3>3. \A i \in 1 .. 5 : (first \o rest)[i] = all[i]
      BY <2>6, <3>2
    <3>4. /\ Len(first \o rest) = Len(all)
          /\ \A i \in 1 .. Len(first \o rest) : (first \o rest)[i] = all[i]
      BY <2>5, <3>2, <3>3
    <3> QED
      BY <2>5, <3>1, <3>4, SeqEqual, Zenon
  <2> QED
    BY <2>4, <2>7 DEF first, all
<1> QED
  BY <1>1 DEF Migrations, FirstTables, TaskColumns, LeaseColumns, EvidenceTables,
     LineageTables, WorkflowTables, ContextTables, ToolTables, KnowledgeTables,
     PlannerTables

\* The tables each table points at.
LEMMA ParentsAre ==
  /\ Parents("tasks") = {} /\ Parents("sessions") = {"tasks"}
  /\ Parents("attempts") = {"tasks"} /\ Parents("events") = {"tasks"}
  /\ Parents("idempotency") = {"tasks"} /\ Parents("tasks.terminal_reason") = {}
  /\ Parents("sessions.owner_generation") = {} /\ Parents("tasks.lost_at") = {}
  /\ Parents("artifacts") = {"attempts"}
  /\ Parents("evidences") = {"attempts", "artifacts"}
  /\ Parents("task_lineage") = {"tasks"} /\ Parents("workflows") = {}
  /\ Parents("workflow_stages") = {"workflows", "tasks"}
  /\ Parents("workflow_approvals") = {"workflows", "workflow_stages"}
  /\ Parents("workflow_events") = {"workflows", "workflow_stages"}
  /\ Parents("context_manifests") = {}
  /\ Parents("context_entries") = {"context_manifests"}
  /\ Parents("tool_invocations") = {"tasks", "context_manifests"}
  /\ Parents("knowledge_collections") = {"context_manifests"}
  /\ Parents("knowledge_sources") = {"knowledge_collections", "context_entries"}
  /\ Parents("knowledge_resolutions") = {"knowledge_collections", "tasks"}
  /\ Parents("planner_plans") = {"knowledge_collections", "context_manifests"}
  /\ Parents("planner_steps") = {"planner_plans"}
  /\ Parents("planner_dependencies") = {"planner_steps"}
  /\ Parents("planner_events") = {"planner_plans"}
  /\ Parents("workflow_stages.completion_policy") = {}
  /\ Parents("plan_executions") = {"planner_plans", "workflows"}
  /\ Parents("plan_execution_steps")
       = {"plan_executions", "planner_steps", "workflow_stages",
          "knowledge_collections"}
  /\ Parents("plan_execution_events") = {"plan_executions", "planner_steps"}
  /\ Parents("plan_results") = {"plan_executions"}
  /\ Parents("evidences.usage") = {} /\ Parents("tasks.run_id") = {}
  /\ Parents("run_controls") = {}
BY DEF Parents

LEMMA UpToGrows ==
  /\ UpTo(0) = {}
  /\ \A v \in 1 .. 13 : UpTo(v) = UpTo(v - 1) \cup Objects(v)
  /\ \A v, w \in 0 .. 13 : v <= w => UpTo(v) \subseteq UpTo(w)
  /\ \A v \in 0 .. 13 : UpTo(v) \subseteq AllObjects
<1>1. \A v, w \in 0 .. 13 : v <= w => 1 .. v \subseteq 1 .. w
  OBVIOUS
<1>2. \A v, w \in 0 .. 13 : v <= w => UpTo(v) \subseteq UpTo(w)
  BY <1>1 DEF UpTo
<1>3. \A v \in 1 .. 13 : 1 .. v = (1 .. (v - 1)) \cup {v}
  OBVIOUS
<1>4. \A v \in 1 .. 13 : UpTo(v) = UpTo(v - 1) \cup Objects(v)
  BY <1>3 DEF UpTo
<1>5. 1 .. 0 = {}
  OBVIOUS
<1>6. UpTo(0) = {}
  BY <1>5 DEF UpTo
<1> QED
  BY <1>2, <1>4, <1>6 DEF AllObjects

\* Where the tables that others point at come from.
LEMMA TablesAreIn ==
  ASSUME NEW v \in 0 .. 13
  PROVE  /\ v >= 1 => "tasks" \in UpTo(v) /\ "attempts" \in UpTo(v)
         /\ v >= 6 => "workflows" \in UpTo(v) /\ "workflow_stages" \in UpTo(v)
         /\ v >= 7 => "context_manifests" \in UpTo(v) /\ "context_entries" \in UpTo(v)
         /\ v >= 9 => "knowledge_collections" \in UpTo(v)
         /\ v >= 10 => "planner_plans" \in UpTo(v) /\ "planner_steps" \in UpTo(v)
         /\ v >= 11 => "workflow_stages.completion_policy" \in UpTo(v)
<1>1. /\ "tasks" \in Objects(1) /\ "attempts" \in Objects(1)
      /\ "workflows" \in Objects(6) /\ "workflow_stages" \in Objects(6)
      /\ "context_manifests" \in Objects(7) /\ "context_entries" \in Objects(7)
      /\ "knowledge_collections" \in Objects(9)
      /\ "planner_plans" \in Objects(10) /\ "planner_steps" \in Objects(10)
      /\ "workflow_stages.completion_policy" \in Objects(11)
  <2>1. /\ Migrations[1][1] = "tasks" /\ Migrations[1][3] = "attempts"
        /\ 1 \in DOMAIN Migrations[1] /\ 3 \in DOMAIN Migrations[1]
    BY ListsAre
  <2>2. /\ Migrations[6][1] = "workflows" /\ Migrations[6][2] = "workflow_stages"
        /\ 1 \in DOMAIN Migrations[6] /\ 2 \in DOMAIN Migrations[6]
    BY ListsAre
  <2>3. /\ Migrations[7][1] = "context_manifests" /\ Migrations[7][2] = "context_entries"
        /\ 1 \in DOMAIN Migrations[7] /\ 2 \in DOMAIN Migrations[7]
    BY ListsAre
  <2>4. /\ Migrations[9][1] = "knowledge_collections" /\ 1 \in DOMAIN Migrations[9]
    BY ListsAre
  <2>5. /\ Migrations[10][1] = "planner_plans" /\ Migrations[10][2] = "planner_steps"
        /\ 1 \in DOMAIN Migrations[10] /\ 2 \in DOMAIN Migrations[10]
    BY ListsAre
  <2>6. /\ Migrations[11][1] = "workflow_stages.completion_policy"
        /\ 1 \in DOMAIN Migrations[11]
    BY ListsAre
  <2>7. \A w \in 1 .. 13 : \A i \in DOMAIN Migrations[w] : Migrations[w][i] \in Objects(w)
    BY DEF Objects
  <2> QED
    BY <2>1, <2>2, <2>3, <2>4, <2>5, <2>6, <2>7
<1>2. \A w \in 1 .. 13 : w <= v => Objects(w) \subseteq UpTo(v)
  BY UpToGrows
<1> QED
  BY <1>1, <1>2

\* Every table comes after those it points at: in an earlier version, or further
\* up in the same list.
LEMMA ListsInOrder ==
  ASSUME NEW v \in 1 .. 13, NEW i \in DOMAIN Migrations[v]
  PROVE  \A t \in Parents(Migrations[v][i]) :
           t \in UpTo(v - 1) \/ \E j \in 1 .. (i - 1) : t = Migrations[v][j]
<1> DEFINE before == UpTo(v - 1)
<1>1. v - 1 \in 0 .. 13
  OBVIOUS
<1>2. /\ v >= 2 => "tasks" \in before /\ "attempts" \in before
      /\ v >= 7 => "workflows" \in before /\ "workflow_stages" \in before
      /\ v >= 8 => "context_manifests" \in before /\ "context_entries" \in before
      /\ v >= 10 => "knowledge_collections" \in before
      /\ v >= 11 => "planner_plans" \in before /\ "planner_steps" \in before
  BY <1>1, TablesAreIn
<1> HIDE DEF before
<1>3. CASE v = 1
  <2>1. Migrations[v] = <<"tasks", "sessions", "attempts", "events", "idempotency">>
    BY <1>3, ListsAre
  <2> QED
    BY <2>1, ParentsAre DEF before
<1>4. CASE v \in {2, 3, 12, 13}
  <2>1. Parents(Migrations[v][i]) = {}
    BY <1>4, ListsAre, ParentsAre
  <2> QED
    BY <2>1
<1>5. CASE v = 4
  <2>1. Migrations[v] = <<"artifacts", "evidences">>
    BY <1>5, ListsAre
  <2> QED
    BY <2>1, <1>2, <1>5, ParentsAre DEF before
<1>6. CASE v = 5
  <2>1. Migrations[v] = <<"task_lineage">>
    BY <1>6, ListsAre
  <2> QED
    BY <2>1, <1>2, <1>6, ParentsAre DEF before
<1>7. CASE v = 6
  <2>1. Migrations[v] = <<"workflows", "workflow_stages", "workflow_approvals",
                          "workflow_events">>
    BY <1>7, ListsAre
  <2> QED
    BY <2>1, <1>2, <1>7, ParentsAre DEF before
<1>8. CASE v = 7
  <2>1. Migrations[v] = <<"context_manifests", "context_entries">>
    BY <1>8, ListsAre
  <2> QED
    BY <2>1, ParentsAre DEF before
<1>9. CASE v = 8
  <2>1. Migrations[v] = <<"tool_invocations">>
    BY <1>9, ListsAre
  <2> QED
    BY <2>1, <1>2, <1>9, ParentsAre DEF before
<1>10. CASE v = 9
  <2>1. Migrations[v] = <<"knowledge_collections", "knowledge_sources",
                          "knowledge_resolutions">>
    BY <1>10, ListsAre
  <2> QED
    BY <2>1, <1>2, <1>10, ParentsAre DEF before
<1>11. CASE v = 10
  <2>1. Migrations[v] = <<"planner_plans", "planner_steps", "planner_dependencies",
                          "planner_events">>
    BY <1>11, ListsAre
  <2> QED
    BY <2>1, <1>2, <1>11, ParentsAre DEF before
<1>12. CASE v = 11
  <2>1. Migrations[v] = <<"workflow_stages.completion_policy", "plan_executions",
                          "plan_execution_steps", "plan_execution_events",
                          "plan_results">>
    BY <1>12, ListsAre
  <2> QED
    BY <2>1, <1>2, <1>12, ParentsAre DEF before
<1> QED
  BY <1>3, <1>4, <1>5, <1>6, <1>7, <1>8, <1>9, <1>10, <1>11, <1>12

\* What a list as a whole adds points at nothing that is not there.
LEMMA ListsAreClosed ==
  ASSUME NEW v \in 1 .. 13
  PROVE  \A t \in Objects(v) : Parents(t) \subseteq UpTo(v)
<1>1. ASSUME NEW i \in DOMAIN Migrations[v]
      PROVE  \A j \in 1 .. (i - 1) : Migrations[v][j] \in Objects(v)
  <2>1. DOMAIN Migrations[v] = 1 .. Len(Migrations[v]) /\ Len(Migrations[v]) \in Nat
    BY ListsAre
  <2>2. \A j \in 1 .. (i - 1) : j \in DOMAIN Migrations[v]
    BY <2>1
  <2> QED
    BY <2>2 DEF Objects
<1>2. UpTo(v) = UpTo(v - 1) \cup Objects(v)
  BY UpToGrows
<1>3. ASSUME NEW i \in DOMAIN Migrations[v]
      PROVE  Parents(Migrations[v][i]) \subseteq UpTo(v)
  BY <1>1, <1>2, <1>3, ListsInOrder
<1> QED
  BY <1>3 DEF Objects

LEMMA UpToIsClosed ==
  ASSUME NEW v \in 0 .. 13
  PROVE  \A t \in UpTo(v) : Parents(t) \subseteq UpTo(v)
<1>1. ASSUME NEW w \in 1 .. v, NEW t \in Objects(w)
      PROVE  Parents(t) \subseteq UpTo(v)
  BY <1>1, ListsAreClosed, UpToGrows
<1> QED
  BY <1>1 DEF UpTo

(***************************************************************************)
(* The invariant of the migration                                          *)
(***************************************************************************)

\* However far an opener has come, the schema has what is behind it: no opener
\* takes anything out of it, whatever version another one writes.
OpenerSound(o) ==
  /\ o.at = "listed" =>
       /\ o.list \in 1 .. 10 /\ o.next \in 1 .. (Len(Migrations[o.list]) + 1)
       /\ UpTo(o.list - 1) \subseteq schema
       /\ \A i \in 1 .. (o.next - 1) : Migrations[o.list][i] \in schema
  /\ o.at = "rebuild" =>
       /\ o.list \in 11 .. 13 /\ UpTo(o.list - 1) \subseteq schema
       /\ o.known >= o.list => UpTo(o.list) \subseteq schema
  /\ o.at = "reread" => o.list \in 11 .. 13 /\ UpTo(o.list) \subseteq schema
  /\ o.at = "open" => AllObjects \subseteq schema

\* A policy of a plan's stage is kept in the column that is for it.
PolicyHasColumn ==
  stored.policy = "plan" => "workflow_stages.completion_policy" \in schema

SchemaClosed == \A t \in schema : Parents(t) \subseteq schema

MigrationInv == /\ MigrationTypeOK /\ UpTo(version) \subseteq schema
                /\ SchemaClosed /\ PolicyHasColumn
                /\ \A p \in Openers : OpenerSound(opener[p])

LEMMA MigrationStarts == MigrationInit => MigrationInv
<1> SUFFICES ASSUME MigrationInit PROVE MigrationInv
  OBVIOUS
<1>1. version \in 0 .. 13 /\ schema = UpTo(version) /\ schema \subseteq AllObjects
  BY MigrationAssumption, UpToGrows DEF MigrationInit
<1>2. opener \in [Openers -> OpenerType]
  BY MigrationAssumption DEF MigrationInit, OpenerType
<1>3. stored \in [policy : {"none", "legacy", "plan"},
                  attempt : {"none", "null", "latest", "named"}]
  BY DEF MigrationInit
<1>4. SchemaClosed
  BY <1>1, UpToIsClosed DEF SchemaClosed
<1>5. PolicyHasColumn
  BY <1>1, TablesAreIn DEF MigrationInit, PolicyHasColumn
<1>6. \A p \in Openers : opener[p].at = "closed"
  BY DEF MigrationInit
<1> QED
  BY <1>1, <1>2, <1>3, <1>4, <1>5, <1>6 DEF MigrationInv, MigrationTypeOK, OpenerSound

\* A step of one opener: the schema grows or stays.
LEMMA OpenerStands ==
  ASSUME MigrationInv, NEW p \in Openers,
         version' \in 0 .. 13, schema \subseteq schema', schema' \subseteq AllObjects,
         UpTo(version') \subseteq schema', SchemaClosed', PolicyHasColumn',
         stored' \in [policy : {"none", "legacy", "plan"},
                      attempt : {"none", "null", "latest", "named"}],
         opener' \in [Openers -> OpenerType],
         \A x \in Openers \ {p} : opener'[x] = opener[x],
         OpenerSound(opener[p])'
  PROVE  MigrationInv'
<1>1. ASSUME NEW x \in Openers, x # p
      PROVE  OpenerSound(opener[x])'
  <2>1. OpenerSound(opener[x]) /\ opener'[x] = opener[x]
    BY <1>1 DEF MigrationInv
  <2> QED
    BY <2>1 DEF OpenerSound
<1>2. MigrationTypeOK'
  BY DEF MigrationTypeOK
<1> QED
  BY <1>1, <1>2 DEF MigrationInv

LEMMA OpenerFacts ==
  ASSUME MigrationInv, NEW p \in Openers
  PROVE  /\ opener \in [Openers -> OpenerType] /\ opener[p] \in OpenerType
         /\ version \in 0 .. 13 /\ schema \subseteq AllObjects
         /\ UpTo(version) \subseteq schema
         /\ stored \in [policy : {"none", "legacy", "plan"},
                        attempt : {"none", "null", "latest", "named"}]
         /\ opener[p].list \in 0 .. 13 /\ opener[p].next \in Nat
         /\ opener[p].known \in 0 .. 13 /\ opener[p].opens \in 0 .. MaxOpens
         /\ OpenerSound(opener[p])
<1>1. opener \in [Openers -> OpenerType] /\ opener[p] \in OpenerType
  BY DEF MigrationInv, MigrationTypeOK
<1> QED
  BY <1>1 DEF MigrationInv, MigrationTypeOK, OpenerType

\* The updates of an opener.
LEMMA OpenerTurns ==
  ASSUME NEW o \in OpenerType,
         NEW at \in {"closed", "listed", "rebuild", "reread", "open", "failed"}
  PROVE  LET q == [o EXCEPT !.at = at]
         IN  q \in OpenerType /\ q.at = at /\ q.list = o.list
  BY Zenon DEF OpenerType

LEMMA OpenerNext ==
  ASSUME NEW o \in OpenerType, NEW n \in Nat
  PROVE  LET q == [o EXCEPT !.next = n]
         IN  q \in OpenerType /\ q.at = o.at /\ q.list = o.list /\ q.next = n
  BY Zenon DEF OpenerType

\* Counting up to a length.
LEMMA Counting ==
  ASSUME NEW len \in Nat, NEW n \in 1 .. (len + 1)
  PROVE  /\ n <= len => /\ n \in 1 .. len /\ n \in Nat
                        /\ n + 1 \in 1 .. (len + 1) /\ n + 1 \in Nat
                        /\ (n + 1) - 1 = n
                        /\ \A i \in 1 .. n : i \in 1 .. (n - 1) \/ i = n
                        /\ \A i \in 1 .. (n - 1) : i \in 1 .. len
         /\ n > len => n - 1 = len
  OBVIOUS

LEMMA ListLength ==
  ASSUME NEW v \in 1 .. 13
  PROVE  /\ Len(Migrations[v]) \in Nat
         /\ DOMAIN Migrations[v] = 1 .. Len(Migrations[v])
         /\ 1 \in 1 .. (Len(Migrations[v]) + 1)
<1>1. Len(Migrations[v]) \in Nat /\ DOMAIN Migrations[v] = 1 .. Len(Migrations[v])
  BY ListsAre
<1> DEFINE len == Len(Migrations[v])
<1>2. len \in Nat
  BY <1>1
<1> HIDE DEF len
<1>3. 1 \in 1 .. (len + 1)
  BY <1>2
<1> QED
  BY <1>1, <1>3 DEF len

\* A list that has been run from its first statement to its last has added all
\* of its version.
LEMMA ListIsIn ==
  ASSUME NEW v \in 1 .. 13, UpTo(v - 1) \subseteq schema,
         \A i \in 1 .. Len(Migrations[v]) : Migrations[v][i] \in schema
  PROVE  UpTo(v) \subseteq schema
<1>1. Objects(v) \subseteq schema
  BY ListLength DEF Objects
<1> QED
  BY <1>1, UpToGrows

\* What is known of an opener in the middle of a list.
LEMMA ListedFacts ==
  ASSUME MigrationInv, NEW p \in Openers, opener[p].at = "listed"
  PROVE  /\ opener[p].list \in 1 .. 10
         /\ opener[p].next \in 1 .. (Len(Migrations[opener[p].list]) + 1)
         /\ UpTo(opener[p].list - 1) \subseteq schema
         /\ \A i \in 1 .. (opener[p].next - 1) :
              Migrations[opener[p].list][i] \in schema
<1>1. OpenerSound(opener[p])
  BY OpenerFacts
<1> QED
  BY <1>1, Zenon DEF OpenerSound

LEMMA ListedStands ==
  ASSUME NEW o, o.at = "listed", o.list \in 1 .. 10,
         o.next \in 1 .. (Len(Migrations[o.list]) + 1),
         UpTo(o.list - 1) \subseteq schema,
         \A i \in 1 .. (o.next - 1) : Migrations[o.list][i] \in schema
  PROVE  OpenerSound(o)
<1>1. o.at # "rebuild" /\ o.at # "reread" /\ o.at # "open"
  OBVIOUS
<1> QED
  BY <1>1, Zenon DEF OpenerSound

LEMMA RebuildStands ==
  ASSUME NEW o, o.at = "rebuild", o.list \in 11 .. 13,
         UpTo(o.list - 1) \subseteq schema,
         o.known >= o.list => UpTo(o.list) \subseteq schema
  PROVE  OpenerSound(o)
<1>1. o.at # "listed" /\ o.at # "reread" /\ o.at # "open"
  OBVIOUS
<1> QED
  BY <1>1, Zenon DEF OpenerSound

LEMMA OpenStands ==
  ASSUME MigrationInv, NEW p \in Openers, Open(p)
  PROVE  MigrationInv'
<1> DEFINE q == [at |-> IF version < 10 THEN "listed" ELSE "rebuild",
                 list |-> IF version < 10 THEN version + 1 ELSE 11,
                 next |-> 1, known |-> version, opens |-> opener[p].opens + 1]
<1>1. /\ opener' = [opener EXCEPT ![p] = q] /\ opener[p].opens < MaxOpens
      /\ UNCHANGED <<version, schema, stored>>
  BY DEF Open
<1>2. q \in OpenerType
  <2>1. opener[p].opens + 1 \in 0 .. MaxOpens /\ version \in 0 .. 13
    BY <1>1, OpenerFacts, MigrationAssumption
  <2> QED
    BY <2>1 DEF OpenerType
<1>3. OpenerSound(q)
  <2>1. CASE version < 10
    <3>1. q.at = "listed" /\ q.list = version + 1 /\ q.next = 1
      BY <2>1
    <3>2. version + 1 \in 1 .. 10 /\ (version + 1) - 1 = version
      BY <2>1, OpenerFacts
    <3> HIDE DEF q
    <3>3. q.list \in 1 .. 10 /\ UpTo(q.list - 1) \subseteq schema
      BY <3>1, <3>2, OpenerFacts
    <3>a. q.list \in 1 .. 13
      BY <3>3
    <3>4. q.next \in 1 .. (Len(Migrations[q.list]) + 1)
      BY <3>1, <3>a, ListLength, Zenon
    <3>5. \A i \in 1 .. (q.next - 1) : Migrations[q.list][i] \in schema
      BY <3>1
    <3> QED
      BY <3>1, <3>3, <3>4, <3>5, ListedStands
  <2>2. CASE ~(version < 10)
    <3>1. q.at = "rebuild" /\ q.list = 11 /\ q.known = version
      BY <2>2
    <3>2. version \in 10 .. 13
      BY <2>2, OpenerFacts
    <3> HIDE DEF q
    <3>3. /\ UpTo(10) \subseteq schema
          /\ version >= 11 => UpTo(11) \subseteq schema
      BY <3>2, UpToGrows, OpenerFacts
    <3> QED
      BY <3>1, <3>3, RebuildStands
  <2> QED
    BY <2>1, <2>2
<1> HIDE DEF q
<1>4. /\ opener' \in [Openers -> OpenerType] /\ opener'[p] = q
      /\ \A x \in Openers \ {p} : opener'[x] = opener[x]
  BY <1>1, <1>2, OpenerFacts
<1>5. OpenerSound(opener[p])'
  BY <1>1, <1>3, <1>4 DEF OpenerSound
<1>6. SchemaClosed' /\ PolicyHasColumn'
  BY <1>1 DEF MigrationInv, SchemaClosed, PolicyHasColumn
<1> QED
  BY <1>1, <1>4, <1>5, <1>6, OpenerStands, OpenerFacts

LEMMA StatementStands ==
  ASSUME MigrationInv, NEW p \in Openers, Statement(p)
  PROVE  MigrationInv'
<1> DEFINE o == opener[p]
           new == Migrations[o.list][o.next]
           q == [o EXCEPT !.next = o.next + 1]
<1>1. /\ o.at = "listed" /\ o.next <= Len(Migrations[o.list])
      /\ schema' = schema \cup {new}
      /\ opener' = [opener EXCEPT ![p] = q]
      /\ UNCHANGED <<version, stored>>
  BY DEF Statement
<1>2. /\ o.list \in 1 .. 10 /\ o.next \in 1 .. (Len(Migrations[o.list]) + 1)
      /\ UpTo(o.list - 1) \subseteq schema
      /\ \A i \in 1 .. (o.next - 1) : Migrations[o.list][i] \in schema
  BY <1>1, ListedFacts
<1> DEFINE len == Len(Migrations[o.list])
<1>a. o.list \in 1 .. 13
  BY <1>2
<1>b. len \in Nat /\ DOMAIN Migrations[o.list] = 1 .. len
  BY <1>a, ListLength, Zenon
<1>c. o.next \in 1 .. (len + 1) /\ o.next <= len
  BY <1>1, <1>2, Zenon
<1> HIDE DEF len
<1>3. /\ o.next \in 1 .. len /\ o.next \in Nat
      /\ o.next + 1 \in 1 .. (len + 1) /\ o.next + 1 \in Nat
      /\ (o.next + 1) - 1 = o.next
      /\ \A i \in 1 .. o.next : i \in 1 .. (o.next - 1) \/ i = o.next
  BY <1>b, <1>c, Counting
<1>d. o.next \in DOMAIN Migrations[o.list]
  BY <1>3, <1>b, Zenon
<1>4. q \in OpenerType /\ q.at = "listed" /\ q.list = o.list /\ q.next = o.next + 1
  <2>1. o \in OpenerType /\ o.next + 1 \in Nat
    BY <1>3, OpenerFacts
  <2> QED
    BY <1>1, <2>1, OpenerNext, Zenon
<1> HIDE DEF q
<1>5. /\ opener' \in [Openers -> OpenerType] /\ opener'[p] = q
      /\ \A x \in Openers \ {p} : opener'[x] = opener[x]
  BY <1>1, <1>4, OpenerFacts
<1>6. new \in AllObjects
  <2>1. new \in Objects(o.list)
    BY <1>d, Zenon DEF Objects
  <2>2. Objects(o.list) \subseteq AllObjects
    BY <1>a, UpToGrows DEF AllObjects
  <2> QED
    BY <2>1, <2>2
<1>7. \A t \in Parents(new) : t \in schema
  <2>1. \A t \in Parents(new) :
          t \in UpTo(o.list - 1) \/ \E j \in 1 .. (o.next - 1) : t = Migrations[o.list][j]
    BY <1>a, <1>d, ListsInOrder, Zenon
  <2> QED
    BY <1>2, <2>1, Zenon
<1> HIDE DEF new
<1>8. SchemaClosed'
  BY <1>1, <1>7 DEF MigrationInv, SchemaClosed
<1>9. PolicyHasColumn'
  BY <1>1 DEF MigrationInv, PolicyHasColumn
<1>10. OpenerSound(opener[p])'
  <2>1. \A i \in 1 .. o.next : Migrations[o.list][i] \in schema'
    <3>1. ASSUME NEW i \in 1 .. (o.next - 1)
          PROVE  Migrations[o.list][i] \in schema'
      BY <1>1, <1>2
    <3>2. Migrations[o.list][o.next] \in schema'
      BY <1>1 DEF new
    <3> QED
      BY <1>3, <3>1, <3>2, Zenon
  <2>2. \A i \in 1 .. (q.next - 1) : Migrations[q.list][i] \in schema'
    BY <1>3, <1>4, <2>1, Zenon
  <2>3. q.next \in 1 .. (Len(Migrations[q.list]) + 1)
    BY <1>3, <1>4, Zenon DEF len
  <2>4. UpTo(q.list - 1) \subseteq schema'
    BY <1>1, <1>2, <1>4
  <2>5. q.at = "listed" /\ q.list \in 1 .. 10
    BY <1>2, <1>4
  <2>6. opener'[p].at = "listed" /\ opener'[p] = q
    BY <1>5, <2>5
  <2>7. /\ opener'[p].at # "rebuild" /\ opener'[p].at # "reread"
        /\ opener'[p].at # "open"
    BY <2>6
  <2> QED
    BY <2>2, <2>3, <2>4, <2>5, <2>6, <2>7, Zenon DEF OpenerSound
<1> QED
  BY <1>1, <1>5, <1>6, <1>8, <1>9, <1>10, OpenerStands, OpenerFacts

\* What writing the version of a list, with all of it in the schema, leads to.
LEMMA ListDone ==
  ASSUME MigrationInv, NEW p \in Openers, opener[p].list \in 1 .. 10, NextList(p),
         version' = opener[p].list, UpTo(opener[p].list) \subseteq schema',
         schema \subseteq schema', schema' \subseteq AllObjects, SchemaClosed',
         stored' \in [policy : {"none", "legacy", "plan"},
                      attempt : {"none", "null", "latest", "named"}],
         stored'.policy = stored.policy
  PROVE  MigrationInv'
<1> DEFINE o == opener[p]
           at == IF o.list = 10 THEN "rebuild" ELSE "listed"
           q == [o EXCEPT !.at = at, !.list = o.list + 1, !.next = 1, !.known = o.list]
<1>1. opener' = [opener EXCEPT ![p] = q]
  BY DEF NextList
<1>2. at \in {"listed", "rebuild"} /\ o.list + 1 \in 0 .. 13 /\ o.list \in 0 .. 13
  OBVIOUS
<1>3. /\ at = "rebuild" => o.list = 10
      /\ at = "listed" => o.list # 10
  OBVIOUS
<1> HIDE DEF at
<1>4. /\ q \in OpenerType /\ q.at = at /\ q.list = o.list + 1 /\ q.next = 1
      /\ q.known = o.list
  <2>1. o \in OpenerType /\ 1 \in Nat
    BY OpenerFacts
  <2> QED
    BY <1>2, <2>1, Zenon DEF OpenerType
<1> HIDE DEF q
<1>5. /\ opener' \in [Openers -> OpenerType] /\ opener'[p] = q
      /\ \A x \in Openers \ {p} : opener'[x] = opener[x]
  BY <1>1, <1>4, OpenerFacts
<1>6. PolicyHasColumn'
  BY DEF MigrationInv, PolicyHasColumn
<1>7. OpenerSound(opener[p])'
  <2>1. (o.list + 1) - 1 = o.list
    OBVIOUS
  <2>2. CASE at = "rebuild"
    BY <1>3, <1>4, <1>5, <2>1, <2>2 DEF OpenerSound
  <2>3. CASE at = "listed"
    <3>1. o.list + 1 \in 1 .. 10 /\ o.list + 1 \in 1 .. 13
      BY <1>3, <2>3
    <3>2. 1 \in 1 .. (Len(Migrations[o.list + 1]) + 1)
      BY <3>1, ListLength, Zenon
    <3>3. \A i \in 1 .. (q.next - 1) : FALSE
      BY <1>4
    <3>4. /\ opener'[p].at = "listed" /\ opener'[p].at # "rebuild"
          /\ opener'[p].at # "reread" /\ opener'[p].at # "open"
      BY <1>4, <1>5, <2>3
    <3> QED
      BY <1>4, <1>5, <2>1, <3>1, <3>2, <3>3, <3>4, Zenon DEF OpenerSound
  <2> QED
    BY <1>2, <2>2, <2>3
<1>8. version' \in 0 .. 13 /\ UpTo(version') \subseteq schema'
  BY <1>2
<1> QED
  BY <1>5, <1>6, <1>7, <1>8, OpenerStands

LEMMA PublishStands ==
  ASSUME MigrationInv, NEW p \in Openers, Publish(p)
  PROVE  MigrationInv'
<1> DEFINE o == opener[p]
<1>1. /\ o.at = "listed" /\ o.next > Len(Migrations[o.list])
      /\ version' = o.list /\ NextList(p) /\ UNCHANGED <<schema, stored>>
  BY DEF Publish
<1>2. /\ o.list \in 1 .. 10 /\ o.next \in 1 .. (Len(Migrations[o.list]) + 1)
      /\ UpTo(o.list - 1) \subseteq schema
      /\ \A i \in 1 .. (o.next - 1) : Migrations[o.list][i] \in schema
  BY <1>1, ListedFacts
<1> DEFINE len == Len(Migrations[o.list])
<1>a. o.list \in 1 .. 13
  BY <1>2
<1>b. len \in Nat
  BY <1>a, ListLength, Zenon
<1>c. o.next \in 1 .. (len + 1) /\ o.next > len
  BY <1>1, <1>2, Zenon
<1> HIDE DEF len
<1>3. o.next - 1 = len
  BY <1>b, <1>c, Counting
<1>4. \A i \in 1 .. Len(Migrations[o.list]) : Migrations[o.list][i] \in schema
  BY <1>2, <1>3, Zenon DEF len
<1>5. UpTo(o.list) \subseteq schema
  BY <1>2, <1>a, <1>4, ListIsIn, Zenon
<1>6. SchemaClosed'
  BY <1>1 DEF MigrationInv, SchemaClosed
<1> QED
  <2>1. UpTo(o.list) \subseteq schema' /\ schema \subseteq schema'
        /\ schema' \subseteq AllObjects /\ stored' = stored
        /\ stored' \in [policy : {"none", "legacy", "plan"},
                        attempt : {"none", "null", "latest", "named"}]
    BY <1>1, <1>5, OpenerFacts
  <2>2. stored'.policy = stored.policy
    BY <2>1
  <2> QED
    BY <1>1, <1>2, <1>6, <2>1, <2>2, ListDone, Zenon

\* Adding a whole version to a schema that has those before it.
LEMMA VersionAdded ==
  ASSUME MigrationInv, NEW v \in 1 .. 13, UpTo(v - 1) \subseteq schema,
         schema' = schema \cup Objects(v)
  PROVE  /\ UpTo(v) \subseteq schema' /\ SchemaClosed'
         /\ schema \subseteq schema' /\ schema' \subseteq AllObjects
<1>1. UpTo(v) \subseteq schema' /\ Objects(v) \subseteq AllObjects
  BY UpToGrows
<1>2. SchemaClosed'
  BY <1>1, ListsAreClosed DEF MigrationInv, SchemaClosed
<1> QED
  BY <1>1, <1>2 DEF MigrationInv, MigrationTypeOK

LEMMA BackfillStands ==
  ASSUME MigrationInv, NEW p \in Openers, Backfill(p)
  PROVE  MigrationInv'
<1> DEFINE attempt == IF stored.attempt = "null" THEN "latest" ELSE stored.attempt
<1>1. /\ opener[p].at = "listed" /\ opener[p].list = 4
      /\ stored' = [stored EXCEPT !.attempt = attempt]
      /\ schema' = schema \cup Objects(4) /\ version' = 4 /\ NextList(p)
  BY OpenerFacts DEF Backfill
<1>2. attempt \in {"none", "null", "latest", "named"}
  BY OpenerFacts
<1> HIDE DEF attempt
<1>3. /\ stored' \in [policy : {"none", "legacy", "plan"},
                      attempt : {"none", "null", "latest", "named"}]
      /\ stored'.policy = stored.policy
  BY <1>1, <1>2, OpenerFacts
<1>4. UpTo(4 - 1) \subseteq schema
  BY <1>1, ListedFacts
<1>5. /\ UpTo(4) \subseteq schema' /\ SchemaClosed'
      /\ schema \subseteq schema' /\ schema' \subseteq AllObjects
  BY <1>1, <1>4, VersionAdded
<1> QED
  BY <1>1, <1>3, <1>5, ListDone

\* The migrations that rebuild tables: each ends in a reread with its version in.
LEMMA RebuildDone ==
  ASSUME MigrationInv, NEW p \in Openers, opener[p].list \in 11 .. 13, Done(p),
         version' \in 0 .. 13, UpTo(version') \subseteq schema',
         UpTo(opener[p].list) \subseteq schema',
         schema \subseteq schema', schema' \subseteq AllObjects, SchemaClosed',
         stored' \in [policy : {"none", "legacy", "plan"},
                      attempt : {"none", "null", "latest", "named"}],
         PolicyHasColumn'
  PROVE  MigrationInv'
<1> DEFINE o == opener[p]
           q == [o EXCEPT !.at = "reread"]
<1>1. opener' = [opener EXCEPT ![p] = q]
  BY DEF Done
<1>2. o \in OpenerType
  BY OpenerFacts
<1>3. q \in OpenerType /\ q.at = "reread" /\ q.list = o.list
  BY <1>2, OpenerTurns, Zenon
<1> HIDE DEF q
<1>4. /\ opener' \in [Openers -> OpenerType] /\ opener'[p] = q
      /\ \A x \in Openers \ {p} : opener'[x] = opener[x]
  BY <1>1, <1>3, OpenerFacts
<1>5. /\ opener'[p].at = "reread" /\ opener'[p].at # "listed"
      /\ opener'[p].at # "rebuild" /\ opener'[p].at # "open"
      /\ opener'[p].list = o.list
  BY <1>3, <1>4
<1>6. OpenerSound(opener[p])'
  BY <1>5, Zenon DEF OpenerSound
<1> QED
  BY <1>4, <1>6, OpenerStands, Zenon

LEMMA RebuildFacts ==
  ASSUME MigrationInv, NEW p \in Openers, opener[p].at = "rebuild"
  PROVE  /\ opener[p].list \in 11 .. 13
         /\ UpTo(opener[p].list - 1) \subseteq schema
         /\ opener[p].known >= opener[p].list => UpTo(opener[p].list) \subseteq schema
<1>1. OpenerSound(opener[p])
  BY OpenerFacts
<1> QED
  BY <1>1, Zenon DEF OpenerSound

LEMMA V11Stands ==
  ASSUME MigrationInv, NEW p \in Openers, V11(p)
  PROVE  MigrationInv'
<1> DEFINE policy == IF \/ stored.policy = "none"
                        \/ "workflow_stages.completion_policy" \in schema
                     THEN stored.policy ELSE "legacy"
<1>1. /\ opener[p].at = "rebuild" /\ opener[p].list = 11
      /\ stored' = [stored EXCEPT !.policy = policy]
      /\ schema' = schema \cup Objects(11) /\ version' = 11 /\ Done(p)
  BY DEF V11, Due
<1>2. policy \in {"none", "legacy", "plan"} /\ (policy = "plan" => stored.policy = "plan")
  BY OpenerFacts
<1> HIDE DEF policy
<1>3. /\ stored' \in [policy : {"none", "legacy", "plan"},
                      attempt : {"none", "null", "latest", "named"}]
      /\ stored'.policy = "plan" => stored.policy = "plan"
  BY <1>1, <1>2, OpenerFacts
<1>4. UpTo(11 - 1) \subseteq schema
  BY <1>1, RebuildFacts
<1>5. /\ UpTo(11) \subseteq schema' /\ SchemaClosed'
      /\ schema \subseteq schema' /\ schema' \subseteq AllObjects
  BY <1>1, <1>4, VersionAdded
<1>6. PolicyHasColumn'
  BY <1>3, <1>5 DEF MigrationInv, PolicyHasColumn
<1> QED
  BY <1>1, <1>3, <1>5, <1>6, RebuildDone

LEMMA V12Stands ==
  ASSUME MigrationInv, NEW p \in Openers, V12(p)
  PROVE  MigrationInv'
<1>1. /\ opener[p].at = "rebuild" /\ opener[p].list = 12 /\ stored' = stored
      /\ schema' = schema \cup Objects(12) /\ version' = 12 /\ Done(p)
  BY DEF V12, Due
<1>2. UpTo(12 - 1) \subseteq schema
  BY <1>1, RebuildFacts
<1>3. /\ UpTo(12) \subseteq schema' /\ SchemaClosed'
      /\ schema \subseteq schema' /\ schema' \subseteq AllObjects
  BY <1>1, <1>2, VersionAdded
<1>4. PolicyHasColumn'
  BY <1>1, <1>3 DEF MigrationInv, PolicyHasColumn
<1>5. stored' \in [policy : {"none", "legacy", "plan"},
                   attempt : {"none", "null", "latest", "named"}]
  BY <1>1, OpenerFacts
<1> QED
  BY <1>1, <1>3, <1>4, <1>5, RebuildDone

LEMMA V13Stands ==
  ASSUME MigrationInv, NEW p \in Openers, V13(p)
  PROVE  MigrationInv'
<1>1. /\ opener[p].at = "rebuild" /\ opener[p].list = 13 /\ stored' = stored
      /\ schema' = schema \cup Objects(13) /\ version' = 13 /\ Done(p)
  BY DEF V13, Due
<1>2. UpTo(13 - 1) \subseteq schema
  BY <1>1, RebuildFacts
<1>3. /\ UpTo(13) \subseteq schema' /\ SchemaClosed'
      /\ schema \subseteq schema' /\ schema' \subseteq AllObjects
  BY <1>1, <1>2, VersionAdded
<1>4. PolicyHasColumn'
  BY <1>1, <1>3 DEF MigrationInv, PolicyHasColumn
<1>5. stored' \in [policy : {"none", "legacy", "plan"},
                   attempt : {"none", "null", "latest", "named"}]
  BY <1>1, OpenerFacts
<1> QED
  BY <1>1, <1>3, <1>4, <1>5, RebuildDone

LEMMA SkipStands ==
  ASSUME MigrationInv, NEW p \in Openers, Skip(p)
  PROVE  MigrationInv'
<1>1. /\ opener[p].at = "rebuild" /\ opener[p].known >= opener[p].list /\ Done(p)
      /\ UNCHANGED <<version, schema, stored>>
  BY DEF Skip
<1>2. opener[p].list \in 11 .. 13 /\ UpTo(opener[p].list) \subseteq schema
  BY <1>1, RebuildFacts
<1>3. SchemaClosed' /\ PolicyHasColumn'
  BY <1>1 DEF MigrationInv, SchemaClosed, PolicyHasColumn
<1>4. /\ version' \in 0 .. 13 /\ UpTo(version') \subseteq schema'
      /\ schema' \subseteq AllObjects
      /\ stored' \in [policy : {"none", "legacy", "plan"},
                      attempt : {"none", "null", "latest", "named"}]
  BY <1>1, OpenerFacts
<1> QED
  BY <1>1, <1>2, <1>3, <1>4, RebuildDone

LEMMA RereadStands ==
  ASSUME MigrationInv, NEW p \in Openers, Reread(p)
  PROVE  MigrationInv'
<1> DEFINE o == opener[p]
<1>1. /\ o.at = "reread" /\ UNCHANGED <<version, schema, stored>>
  BY DEF Reread
<1>2. o \in OpenerType /\ version \in 0 .. 13 /\ UpTo(version) \subseteq schema
  BY OpenerFacts
<1>3. o.list \in 11 .. 13 /\ UpTo(o.list) \subseteq schema
  <2>1. OpenerSound(o)
    BY OpenerFacts
  <2> QED
    BY <1>1, <2>1, Zenon DEF OpenerSound
<1>4. SchemaClosed' /\ PolicyHasColumn'
  BY <1>1 DEF MigrationInv, SchemaClosed, PolicyHasColumn
<1>5. ASSUME NEW q \in OpenerType, opener' = [opener EXCEPT ![p] = q], OpenerSound(q)
      PROVE  MigrationInv'
  <2>1. /\ opener' \in [Openers -> OpenerType] /\ opener'[p] = q
        /\ \A x \in Openers \ {p} : opener'[x] = opener[x]
    BY <1>5, OpenerFacts
  <2>2. OpenerSound(opener[p])'
    BY <1>1, <1>5, <2>1 DEF OpenerSound
  <2> QED
    BY <1>1, <1>4, <2>1, <2>2, OpenerStands, OpenerFacts
<1>6. CASE o.list = 13
  <2> DEFINE q == [o EXCEPT !.at = "open"]
  <2>1. opener' = [opener EXCEPT ![p] = q]
    BY <1>6 DEF Reread
  <2>2. q \in OpenerType /\ q.at = "open"
    BY <1>2, OpenerTurns, Zenon
  <2> HIDE DEF q
  <2>3. AllObjects \subseteq schema
    BY <1>3, <1>6 DEF AllObjects
  <2>4. q.at # "listed" /\ q.at # "rebuild" /\ q.at # "reread"
    BY <2>2
  <2>5. OpenerSound(q)
    BY <2>3, <2>4, Zenon DEF OpenerSound
  <2> QED
    BY <1>5, <2>1, <2>2, <2>5
<1>7. CASE o.list # 13
  <2> DEFINE q == [o EXCEPT !.at = "rebuild", !.list = o.list + 1, !.known = version]
  <2>1. opener' = [opener EXCEPT ![p] = q]
    BY <1>7 DEF Reread
  <2>2. o.list + 1 \in 0 .. 13 /\ o.list + 1 \in 11 .. 13 /\ (o.list + 1) - 1 = o.list
    BY <1>3, <1>7
  <2>3. q \in OpenerType /\ q.at = "rebuild" /\ q.list = o.list + 1 /\ q.known = version
    BY <1>2, <2>2, Zenon DEF OpenerType
  <2> HIDE DEF q
  <2>4. version >= o.list + 1 => UpTo(o.list + 1) \subseteq schema
    <3>1. version >= o.list + 1 => UpTo(o.list + 1) \subseteq UpTo(version)
      BY <1>2, <2>2, UpToGrows
    <3> QED
      BY <1>2, <3>1
  <2>5. /\ q.list \in 11 .. 13 /\ UpTo(q.list - 1) \subseteq schema
        /\ q.known >= q.list => UpTo(q.list) \subseteq schema
    BY <1>3, <2>2, <2>3, <2>4
  <2>6. OpenerSound(q)
    BY <2>3, <2>5, RebuildStands
  <2> QED
    BY <1>5, <2>1, <2>3, <2>6
<1> QED
  BY <1>6, <1>7

LEMMA FailStands ==
  ASSUME MigrationInv, NEW p \in Openers, Fail(p)
  PROVE  MigrationInv'
<1> DEFINE o == opener[p]
           q == [o EXCEPT !.at = "failed"]
<1>1. opener' = [opener EXCEPT ![p] = q] /\ UNCHANGED <<version, schema, stored>>
  BY DEF Fail, Turn
<1>2. o \in OpenerType
  BY OpenerFacts
<1>3. q \in OpenerType /\ q.at = "failed"
  BY <1>2, OpenerTurns, Zenon
<1> HIDE DEF q
<1>4. /\ opener' \in [Openers -> OpenerType] /\ opener'[p] = q
      /\ \A x \in Openers \ {p} : opener'[x] = opener[x]
  BY <1>1, <1>3, OpenerFacts
<1>5. /\ opener'[p].at # "listed" /\ opener'[p].at # "rebuild"
      /\ opener'[p].at # "reread" /\ opener'[p].at # "open"
  BY <1>3, <1>4
<1>6. OpenerSound(opener[p])'
  BY <1>5, Zenon DEF OpenerSound
<1>7. SchemaClosed' /\ PolicyHasColumn'
  BY <1>1 DEF MigrationInv, SchemaClosed, PolicyHasColumn
<1> QED
  BY <1>1, <1>4, <1>6, <1>7, OpenerStands, OpenerFacts

LEMMA UseStands ==
  ASSUME MigrationInv, NEW p \in Openers, Use(p)
  PROVE  MigrationInv'
<1>1. opener[p].at = "open" /\ UNCHANGED <<version, schema, opener>>
  BY DEF Use
<1>2. "workflow_stages.completion_policy" \in schema
  <2>1. OpenerSound(opener[p])
    BY OpenerFacts
  <2>2. AllObjects \subseteq schema
    BY <1>1, <2>1, Zenon DEF OpenerSound
  <2>3. "workflow_stages.completion_policy" \in AllObjects
    BY TablesAreIn DEF AllObjects
  <2> QED
    BY <2>2, <2>3
<1>3. stored' \in [policy : {"none", "legacy", "plan"},
                   attempt : {"none", "null", "latest", "named"}]
  <2> DEFINE policy == IF stored.policy = "none" THEN "plan" ELSE stored.policy
             attempt == IF stored.attempt = "none" THEN "named" ELSE stored.attempt
  <2>1. /\ policy \in {"none", "legacy", "plan"}
        /\ attempt \in {"none", "null", "latest", "named"}
    BY OpenerFacts
  <2>2. stored' = [policy |-> policy, attempt |-> attempt]
    BY DEF Use
  <2> QED
    BY <2>1, <2>2
<1>4. SchemaClosed' /\ PolicyHasColumn'
  BY <1>1, <1>2 DEF MigrationInv, SchemaClosed, PolicyHasColumn
<1>5. OpenerSound(opener[p])'
  <2>1. OpenerSound(opener[p])
    BY OpenerFacts
  <2> QED
    BY <1>1, <2>1 DEF OpenerSound
<1> QED
  BY <1>1, <1>3, <1>4, <1>5, OpenerStands, OpenerFacts

LEMMA MigrationSteps ==
  MigrationInv /\ [MigrationNext]_migrationVars => MigrationInv'
<1> SUFFICES ASSUME MigrationInv, [MigrationNext]_migrationVars PROVE MigrationInv'
  OBVIOUS
<1>1. CASE MigrationNext
  BY <1>1, OpenStands, StatementStands, PublishStands, BackfillStands, V11Stands,
     V12Stands, V13Stands, SkipStands, RereadStands, FailStands, UseStands, Zenon
     DEF MigrationNext
<1>2. CASE UNCHANGED migrationVars
  BY <1>2 DEF migrationVars, MigrationInv, MigrationTypeOK, SchemaClosed,
     PolicyHasColumn, OpenerSound
<1> QED
  BY <1>1, <1>2

\* What has been written since stays, whichever version an opener is at.
LEMMA MigrationKeeps ==
  MigrationInv /\ [MigrationNext]_migrationVars => RowsKept
<1> SUFFICES ASSUME MigrationInv, [MigrationNext]_migrationVars PROVE RowsKept
  OBVIOUS
<1>1. stored \in [policy : {"none", "legacy", "plan"},
                  attempt : {"none", "null", "latest", "named"}]
  BY DEF MigrationInv, MigrationTypeOK
<1>2. ASSUME stored' = stored PROVE RowsKept
  BY <1>2 DEF RowsKept
<1>3. ASSUME NEW p \in Openers, Backfill(p) PROVE RowsKept
  BY <1>1, <1>3 DEF Backfill, RowsKept
<1>4. ASSUME NEW p \in Openers, V11(p) PROVE RowsKept
  BY <1>1, <1>4 DEF V11, RowsKept, MigrationInv, PolicyHasColumn
<1>5. ASSUME NEW p \in Openers, Use(p) PROVE RowsKept
  BY <1>1, <1>5 DEF Use, RowsKept
<1>6. ASSUME NEW p \in Openers,
             \/ Open(p) \/ Statement(p) \/ Publish(p) \/ V12(p) \/ V13(p) \/ Skip(p)
             \/ Reread(p) \/ Fail(p)
      PROVE  stored' = stored
  BY <1>6 DEF Open, Statement, Publish, V12, V13, Skip, Reread, Fail
<1>7. CASE MigrationNext
  BY <1>2, <1>3, <1>4, <1>5, <1>6, <1>7, Zenon DEF MigrationNext
<1>8. CASE UNCHANGED migrationVars
  BY <1>2, <1>8 DEF migrationVars
<1> QED
  BY <1>7, <1>8

LEMMA MigrationScenes == Spec => [](scene = "migration" => MigrationInv)
<1> DEFINE Inv == scene = "migration" => MigrationInv
<1>1. Init => Inv
  BY SceneStarts, MigrationStarts
<1>2. Inv /\ [Next]_servicesVars => Inv'
  <2> SUFFICES ASSUME Inv, [Next]_servicesVars, scene' = "migration"
               PROVE  MigrationInv'
    OBVIOUS
  <2>1. scene = "migration" /\ [MigrationNext]_migrationVars
    BY SceneSteps
  <2> QED
    BY <2>1, MigrationSteps
<1> QED
  BY <1>1, <1>2, PTL DEF Spec

\* The version a database says it is of is never ahead of its tables, a process
\* that has it open finds all of them, and no table is there before the ones it
\* points at: for any number of openers, each dying or starting again anywhere.
THEOREM ServicesSchema == Spec => []SchemaStands
<1>1. MigrationInv => SchemaComplete
  <2> SUFFICES ASSUME MigrationInv PROVE SchemaComplete
    OBVIOUS
  <2>1. /\ UpTo(version) \subseteq schema /\ schema \subseteq AllObjects
        /\ \A t \in schema : Parents(t) \subseteq schema
    BY DEF MigrationInv, MigrationTypeOK, SchemaClosed
  <2>2. ASSUME NEW p \in Openers, opener[p].at = "open"
        PROVE  schema = AllObjects
    <3>1. OpenerSound(opener[p])
      BY OpenerFacts
    <3>2. AllObjects \subseteq schema
      BY <2>2, <3>1, Zenon DEF OpenerSound
    <3> QED
      BY <2>1, <3>2
  <2> QED
    BY <2>1, <2>2, Zenon DEF SchemaComplete
<1>2. (scene = "migration" => MigrationInv) => SchemaStands
  BY <1>1 DEF SchemaStands, MigrationInv
<1> QED
  BY <1>2, MigrationScenes, PTL

\* No step of an upgrade loses a row that was written since.
THEOREM ServicesRows == Spec => RowsStand
<1> DEFINE Kept == scene = "migration" => RowsKept
<1>1. (scene = "migration" => MigrationInv) /\ [Next]_servicesVars
        => [Kept]_migrationVars
  <2> SUFFICES ASSUME scene = "migration" => MigrationInv, [Next]_servicesVars,
                      scene = "migration"
               PROVE  RowsKept
    OBVIOUS
  <2>1. [MigrationNext]_migrationVars
    BY SceneSteps
  <2> QED
    BY <2>1, MigrationKeeps
<1> QED
  BY <1>1, MigrationScenes, PTL DEF Spec, RowsStand

(***************************************************************************)
(* The usage                                                               *)
(***************************************************************************)

\* What is told of a request, and of none.
Ids == {u.id : u \in Updates} \cup {Anonymous}
Usages == UNION {[fields -> Nat] : fields \in SUBSET UsageFields}
Samples == [id : Ids, usage : Usages]

\* A usage has the numbers of its fields.
LEMMA UsageIs ==
  ASSUME NEW usage
  PROVE  usage \in Usages <=> /\ DOMAIN usage \subseteq UsageFields
                              /\ usage = [f \in DOMAIN usage |-> usage[f]]
                              /\ \A f \in DOMAIN usage : usage[f] \in Nat
<1>1. ASSUME usage \in Usages
      PROVE  /\ DOMAIN usage \subseteq UsageFields
             /\ usage = [f \in DOMAIN usage |-> usage[f]]
             /\ \A f \in DOMAIN usage : usage[f] \in Nat
  BY <1>1 DEF Usages
<1>2. ASSUME DOMAIN usage \subseteq UsageFields,
             usage = [f \in DOMAIN usage |-> usage[f]],
             \A f \in DOMAIN usage : usage[f] \in Nat
      PROVE  usage \in Usages
  <2>1. usage \in [DOMAIN usage -> Nat]
    BY <1>2
  <2> QED
    BY <1>2, <2>1 DEF Usages
<1> QED
  BY <1>1, <1>2

LEMMA UpdateIs ==
  ASSUME NEW u \in Updates
  PROVE  u \in Samples /\ u.id \in Ids /\ u.usage \in Usages
<1>1. /\ DOMAIN u.usage \subseteq UsageFields
      /\ u \in [id : STRING, usage : [DOMAIN u.usage -> Nat]]
  BY UsageAssumptions
<1>2. u.usage \in Usages
  <2>1. u.usage \in [DOMAIN u.usage -> Nat]
    BY <1>1
  <2> QED
    BY <1>1, <2>1 DEF Usages
<1>3. u = [id |-> u.id, usage |-> u.usage] /\ u.id \in Ids
  BY <1>1 DEF Ids
<1> QED
  BY <1>2, <1>3 DEF Samples

\* One usage over another.
LEMMA Merged ==
  ASSUME NEW a \in Usages, NEW b \in Usages
  PROVE  /\ Over(a, b) \in Usages /\ DOMAIN Over(a, b) = DOMAIN a \cup DOMAIN b
         /\ \A f \in DOMAIN Over(a, b) :
              Over(a, b)[f] = IF f \in DOMAIN a THEN a[f] ELSE b[f]
<1>1. /\ DOMAIN Over(a, b) = DOMAIN a \cup DOMAIN b
      /\ Over(a, b) = [f \in DOMAIN Over(a, b) |-> Over(a, b)[f]]
      /\ \A f \in DOMAIN Over(a, b) :
           Over(a, b)[f] = IF f \in DOMAIN a THEN a[f] ELSE b[f]
  BY DEF Over
<1>2. /\ DOMAIN a \subseteq UsageFields /\ DOMAIN b \subseteq UsageFields
      /\ \A f \in DOMAIN a : a[f] \in Nat
      /\ \A f \in DOMAIN b : b[f] \in Nat
  BY UsageIs
<1>3. /\ DOMAIN Over(a, b) \subseteq UsageFields
      /\ \A f \in DOMAIN Over(a, b) : Over(a, b)[f] \in Nat
  BY <1>1, <1>2
<1>4. Over(a, b) \in Usages
  BY <1>1, <1>3, UsageIs
<1> QED
  BY <1>1, <1>4

\* Samples that say what T tells of their requests.
TrueIn(T) == {s \in Samples : \A f \in DOMAIN s.usage : s.usage[f] \in T[s.id][f]}

\* A sample made of two true ones of its request is true.
LEMMA MergedTrue ==
  ASSUME NEW T, NEW s \in TrueIn(T), NEW r \in TrueIn(T), s.id = r.id
  PROVE  /\ Sample(s.id, Over(s.usage, r.usage)) \in TrueIn(T)
         /\ Sample(s.id, Over(s.usage, r.usage)).id = s.id
         /\ DOMAIN Sample(s.id, Over(s.usage, r.usage)).usage
              = DOMAIN s.usage \cup DOMAIN r.usage
<1> DEFINE a == s.usage
           b == r.usage
           usage == Over(a, b)
           new == Sample(s.id, usage)
<1>1. a \in Usages /\ b \in Usages /\ s.id \in Ids
  BY DEF TrueIn, Samples
<1>2. /\ \A f \in DOMAIN a : a[f] \in T[s.id][f]
      /\ \A f \in DOMAIN b : b[f] \in T[s.id][f]
  BY DEF TrueIn
<1> HIDE DEF a, b
<1>3. /\ usage \in Usages /\ DOMAIN usage = DOMAIN a \cup DOMAIN b
      /\ \A f \in DOMAIN usage : usage[f] = IF f \in DOMAIN a THEN a[f] ELSE b[f]
  BY <1>1, Merged
<1> HIDE DEF usage
<1>4. new.id = s.id /\ new.usage = usage /\ new \in Samples
  BY <1>1, <1>3 DEF Sample, Samples
<1> HIDE DEF new
<1>5. new \in TrueIn(T)
  BY <1>2, <1>3, <1>4 DEF TrueIn
<1> QED
  BY <1>3, <1>4, <1>5 DEF new, usage, a, b

\* Where a request is found.
LEMMA KnownIs ==
  ASSUME NEW S, NEW ss \in Seq(S), NEW id
  PROVE  \/ Known(ss, id) = 0 /\ \A i \in 1..Len(ss) : ss[i].id # id
         \/ Known(ss, id) \in 1..Len(ss) /\ ss[Known(ss, id)].id = id
<1> DEFINE at == {i \in DOMAIN ss : ss[i].id = id}
<1>1. DOMAIN ss = 1..Len(ss) /\ Len(ss) \in Nat
  BY LenProperties
<1>2. CASE at = {}
  BY <1>1, <1>2 DEF Known
<1>3. CASE at # {}
  <2>1. at \subseteq Nat
    BY <1>1
  <2> HIDE DEF at
  <2>2. PICK m \in at : \A i \in at : m <= i
    BY <1>3, <2>1, Smallest
  <2>3. Min(at) \in at
    BY <2>2 DEF Min
  <2>4. Known(ss, id) = Min(at)
    BY <1>3 DEF Known, at
  <2> QED
    BY <1>1, <2>3, <2>4 DEF at
<1> QED
  BY <1>2, <1>3

\* Something is said of field f of request id.
Covers(ss, id, f) == \E i \in DOMAIN ss : ss[i].id = id /\ f \in DOMAIN ss[i].usage

\* A sample is replaced by one of its request that has its fields, or one is added.
LEMMA Replaced ==
  ASSUME NEW S, NEW ss \in Seq(S), NEW i \in 1..Len(ss), NEW new \in S,
         new.id = ss[i].id, DOMAIN ss[i].usage \subseteq DOMAIN new.usage
  PROVE  /\ [ss EXCEPT ![i] = new] \in Seq(S)
         /\ \A id, f : Covers(ss, id, f) => Covers([ss EXCEPT ![i] = new], id, f)
         /\ \A f \in DOMAIN new.usage : Covers([ss EXCEPT ![i] = new], new.id, f)
<1> DEFINE tt == [ss EXCEPT ![i] = new]
<1>1. /\ tt \in Seq(S) /\ DOMAIN tt = DOMAIN ss /\ i \in DOMAIN ss /\ tt[i] = new
      /\ \A j \in DOMAIN ss : j # i => tt[j] = ss[j]
  BY ExceptSeq
<1> HIDE DEF tt
<1>2. ASSUME NEW id, NEW f, Covers(ss, id, f) PROVE Covers(tt, id, f)
  BY <1>1, <1>2 DEF Covers
<1>3. \A f \in DOMAIN new.usage : Covers(tt, new.id, f)
  BY <1>1 DEF Covers
<1> QED
  BY <1>1, <1>2, <1>3 DEF tt

LEMMA Added ==
  ASSUME NEW S, NEW ss \in Seq(S), NEW new \in S
  PROVE  /\ Append(ss, new) \in Seq(S)
         /\ \A id, f : Covers(ss, id, f) => Covers(Append(ss, new), id, f)
         /\ \A f \in DOMAIN new.usage : Covers(Append(ss, new), new.id, f)
<1> DEFINE tt == Append(ss, new)
<1>1. /\ tt \in Seq(S) /\ Len(tt) = Len(ss) + 1 /\ tt[Len(ss) + 1] = new
      /\ \A j \in 1..Len(ss) : tt[j] = ss[j]
      /\ Len(ss) \in Nat /\ DOMAIN ss = 1..Len(ss) /\ DOMAIN tt = 1..Len(tt)
  BY AppendProperties, LenProperties
<1> HIDE DEF tt
<1>2. ASSUME NEW id, NEW f, Covers(ss, id, f) PROVE Covers(tt, id, f)
  BY <1>1, <1>2 DEF Covers
<1>3. \A f \in DOMAIN new.usage : Covers(tt, new.id, f)
  BY <1>1 DEF Covers
<1> QED
  BY <1>1, <1>2, <1>3 DEF tt

\* What a client hears is kept, and its samples stay true.
LEMMA Hearing ==
  ASSUME NEW T, NEW ss \in Seq(TrueIn(T)), NEW u \in Updates, u \in TrueIn(T), NEW r
  PROVE  /\ Heard(ss, r, u) \in Seq(TrueIn(T))
         /\ \A id \in Ids \ {Anonymous} : \A f :
              Covers(ss, id, f) => Covers(Heard(ss, r, u), id, f)
         /\ u.id # Anonymous =>
              \A f \in DOMAIN u.usage : Covers(Heard(ss, r, u), u.id, f)
<1> DEFINE i == Known(ss, u.id)
           new == Sample(u.id, Over(u.usage, ss[i].usage))
<1>1. /\ i \in {0} \cup (1..Len(ss))
      /\ i # 0 => ss[i].id = u.id
  BY KnownIs
<1> HIDE DEF i
<1>2. CASE u.id # Anonymous /\ i # 0
  <2>1. i \in 1..Len(ss) /\ ss[i] \in TrueIn(T) /\ ss[i].id = u.id
    BY <1>1, <1>2, ElementOfSeq
  <2>2. /\ new \in TrueIn(T) /\ new.id = u.id
        /\ DOMAIN new.usage = DOMAIN u.usage \cup DOMAIN ss[i].usage
    <3> DEFINE s == ss[i]
    <3>1. s \in TrueIn(T) /\ s.id = u.id
      BY <2>1
    <3> HIDE DEF s
    <3>2. /\ Sample(u.id, Over(u.usage, s.usage)) \in TrueIn(T)
          /\ Sample(u.id, Over(u.usage, s.usage)).id = u.id
          /\ DOMAIN Sample(u.id, Over(u.usage, s.usage)).usage
               = DOMAIN u.usage \cup DOMAIN s.usage
      BY <3>1, MergedTrue
    <3> QED
      BY <3>2 DEF s
  <2>3. Heard(ss, r, u) = [ss EXCEPT ![i] = new]
    BY <1>2 DEF Heard, i
  <2> HIDE DEF new
  <2>4. /\ [ss EXCEPT ![i] = new] \in Seq(TrueIn(T))
        /\ \A id, f : Covers(ss, id, f) => Covers([ss EXCEPT ![i] = new], id, f)
        /\ \A f \in DOMAIN new.usage : Covers([ss EXCEPT ![i] = new], new.id, f)
    BY <2>1, <2>2, Replaced
  <2>5. DOMAIN u.usage \subseteq DOMAIN new.usage
    BY <2>2
  <2> DEFINE tt == Heard(ss, r, u)
  <2>6. /\ tt \in Seq(TrueIn(T))
        /\ \A id, f : Covers(ss, id, f) => Covers(tt, id, f)
        /\ \A f \in DOMAIN new.usage : Covers(tt, new.id, f)
    BY <2>3, <2>4
  <2> HIDE DEF tt
  <2>7. \A f \in DOMAIN u.usage : Covers(tt, u.id, f)
    BY <2>2, <2>5, <2>6
  <2>8. tt \in Seq(TrueIn(T)) /\ \A id \in Ids \ {Anonymous} : \A f :
          Covers(ss, id, f) => Covers(tt, id, f)
    BY <2>6, Zenon
  <2> QED
    BY <2>7, <2>8, Zenon DEF tt
<1>3. CASE u.id = Anonymous /\ i # 0 /\ r = "codebuddy"
  <2>1. i \in 1..Len(ss) /\ ss[i].id = Anonymous
    BY <1>1, <1>3
  <2>2. Heard(ss, r, u) = [ss EXCEPT ![i] = u]
    BY <1>3 DEF Heard, i
  <2>3. /\ [ss EXCEPT ![i] = u] \in Seq(TrueIn(T))
        /\ DOMAIN [ss EXCEPT ![i] = u] = DOMAIN ss
        /\ \A j \in DOMAIN ss : j # i => [ss EXCEPT ![i] = u][j] = ss[j]
    BY <2>1, ExceptSeq
  <2>4. ASSUME NEW id \in Ids \ {Anonymous}, NEW f, Covers(ss, id, f)
        PROVE  Covers([ss EXCEPT ![i] = u], id, f)
    BY <2>1, <2>3, <2>4 DEF Covers
  <2> QED
    BY <1>3, <2>2, <2>3, <2>4
<1>4. CASE u.id = Anonymous /\ r # "codebuddy" /\ u \in Range(ss)
  <2>1. Heard(ss, r, u) = ss
    BY <1>4 DEF Heard, i
  <2> QED
    BY <1>4, <2>1
<1>5. CASE /\ ~(u.id # Anonymous /\ i # 0)
           /\ ~(u.id = Anonymous /\ i # 0 /\ r = "codebuddy")
           /\ ~(u.id = Anonymous /\ r # "codebuddy" /\ u \in Range(ss))
  <2>1. Heard(ss, r, u) = Append(ss, u)
    BY <1>5 DEF Heard, i
  <2>2. /\ Append(ss, u) \in Seq(TrueIn(T))
        /\ \A id, f : Covers(ss, id, f) => Covers(Append(ss, u), id, f)
        /\ \A f \in DOMAIN u.usage : Covers(Append(ss, u), u.id, f)
    BY Added
  <2> QED
    BY <2>1, <2>2
<1> QED
  BY <1>2, <1>3, <1>4, <1>5

\* Facts of a turn that say what T tells: deltas of their request, or a snapshot.
Froms == {"acp", "sdk_assistant", "sdk_result"}
FactType ==
  [from : Froms, scope : {"turn", "session"}, accounting : {"delta", "snapshot"},
   id : Ids, usage : Usages]
TrueFact(T, x) ==
  x.scope = "turn" =>
    /\ x.accounting = (IF x.id = Anonymous THEN "snapshot" ELSE "delta")
    /\ \A f \in Additive \cap DOMAIN x.usage : x.usage[f] \in T[x.id][f]
FactsIn(T) == {x \in FactType : TrueFact(T, x)}

\* A fact that gives a number for f of request id, and rows that do.
Gives(x, id, f) ==
  x.scope = "turn" /\ x.accounting = "delta" /\ x.id = id /\ f \in DOMAIN x.usage
Tells(rows, id, f) == \E x \in Range(rows) : Gives(x, id, f)

LEMMA FactIs ==
  ASSUME NEW T, NEW s \in TrueIn(T), NEW from \in Froms, NEW r
  PROVE  /\ Fact(r, from, s) \in FactsIn(T)
         /\ s.id # Anonymous =>
              \A f \in Additive \cap DOMAIN s.usage : Gives(Fact(r, from, s), s.id, f)
<1> DEFINE usage == IF r = "qoder" THEN s.usage
                    ELSE Restrict(s.usage, Additive \cap DOMAIN s.usage)
           accounting == IF s.id = Anonymous THEN "snapshot" ELSE "delta"
           x == Fact(r, from, s)
<1>1. s.id \in Ids /\ s.usage \in Usages
  BY DEF TrueIn, Samples
<1>2. /\ Additive \cap DOMAIN usage = Additive \cap DOMAIN s.usage
      /\ DOMAIN usage \subseteq DOMAIN s.usage
      /\ \A f \in DOMAIN usage : usage[f] = s.usage[f]
  BY DEF Restrict
<1>3. usage \in Usages
  <2>1. CASE r = "qoder"
    BY <1>1, <2>1
  <2>2. CASE r # "qoder"
    <3>1. usage = [f \in DOMAIN usage |-> usage[f]]
      BY <2>2 DEF Restrict
    <3>2. /\ DOMAIN s.usage \subseteq UsageFields
          /\ \A f \in DOMAIN s.usage : s.usage[f] \in Nat
      BY <1>1, UsageIs
    <3> HIDE DEF usage
    <3> QED
      BY <1>2, <3>1, <3>2, UsageIs
  <2> QED
    BY <2>1, <2>2
<1>4. x = [from |-> from, scope |-> "turn", accounting |-> accounting,
           id |-> s.id, usage |-> usage]
  BY DEF Fact, FactOf
<1>5. \A f \in DOMAIN s.usage : s.usage[f] \in T[s.id][f]
  BY DEF TrueIn
<1> HIDE DEF usage, x
<1>6. x \in FactType
  <2>1. accounting \in {"delta", "snapshot"} /\ "turn" \in {"turn", "session"}
    OBVIOUS
  <2> HIDE DEF accounting
  <2> QED
    BY <1>1, <1>3, <1>4, <2>1, Zenon DEF FactType
<1>7. /\ x.scope = "turn" /\ x.accounting = accounting /\ x.id = s.id /\ x.usage = usage
  BY <1>4
<1>8. TrueFact(T, x)
  BY <1>2, <1>5, <1>7 DEF TrueFact
<1>9. s.id # Anonymous => \A f \in Additive \cap DOMAIN s.usage : Gives(x, s.id, f)
  BY <1>2, <1>7 DEF Gives
<1> QED
  BY <1>6, <1>8, <1>9 DEF FactsIn, x

\* The facts of true samples are true and tell what they say of requests.
LEMMA FactsAre ==
  ASSUME NEW T, NEW ss \in Seq(TrueIn(T)), NEW from \in Froms, NEW r
  PROVE  /\ Facts(r, from, ss) \in Seq(FactsIn(T))
         /\ \A id \in Ids \ {Anonymous} : \A f \in Additive :
              Covers(ss, id, f) => Tells(Facts(r, from, ss), id, f)
<1> DEFINE tt == Facts(r, from, ss)
<1>1. /\ DOMAIN ss = 1..Len(ss) /\ Len(ss) \in Nat
      /\ \A i \in 1..Len(ss) : ss[i] \in TrueIn(T)
  BY LenProperties, ElementOfSeq
<1>2. tt = [i \in 1..Len(ss) |-> Fact(r, from, ss[i])]
  BY <1>1 DEF Facts
<1>3. DOMAIN tt = DOMAIN ss /\ \A i \in DOMAIN ss : tt[i] = Fact(r, from, ss[i])
  BY <1>1, <1>2
<1>4. ASSUME NEW i \in 1..Len(ss)
      PROVE  /\ Fact(r, from, ss[i]) \in FactsIn(T)
             /\ ss[i].id # Anonymous =>
                  \A f \in Additive \cap DOMAIN ss[i].usage :
                    Gives(Fact(r, from, ss[i]), ss[i].id, f)
  <2> DEFINE s == ss[i]
  <2>1. s \in TrueIn(T)
    BY <1>1
  <2> HIDE DEF s
  <2>2. /\ Fact(r, from, s) \in FactsIn(T)
        /\ s.id # Anonymous =>
             \A f \in Additive \cap DOMAIN s.usage : Gives(Fact(r, from, s), s.id, f)
    BY <2>1, FactIs
  <2> QED
    BY <2>2 DEF s
<1>5. tt \in Seq(FactsIn(T))
  <2>1. \A i \in 1..Len(ss) : Fact(r, from, ss[i]) \in FactsIn(T)
    BY <1>4
  <2>2. tt \in [1..Len(ss) -> FactsIn(T)]
    BY <1>2, <2>1
  <2> HIDE DEF tt
  <2> QED
    BY <1>1, <2>2, SeqDef
<1> HIDE DEF tt
<1>6. ASSUME NEW id \in Ids \ {Anonymous}, NEW f \in Additive, Covers(ss, id, f)
      PROVE  Tells(tt, id, f)
  <2>1. PICK i \in DOMAIN ss : ss[i].id = id /\ f \in DOMAIN ss[i].usage
    BY <1>6 DEF Covers
  <2>2. Gives(Fact(r, from, ss[i]), id, f)
    BY <1>1, <1>4, <2>1
  <2> QED
    BY <1>3, <2>1, <2>2 DEF Tells, Range
<1> QED
  BY <1>5, <1>6 DEF tt

\* What the reader of a finished session has gathered.
Gatherings(T) == [identified : Seq(TrueIn(T)), anonymous : Seq(TrueIn(T))]

LEMMA GatherIs ==
  ASSUME NEW T, NEW so \in Gatherings(T), NEW u \in Updates, u \in TrueIn(T)
  PROVE  Gather(so, u) \in Gatherings(T)
<1> DEFINE ss == so.identified
           aa == so.anonymous
           i == Known(ss, u.id)
<1>1. ss \in Seq(TrueIn(T)) /\ aa \in Seq(TrueIn(T))
  BY DEF Gatherings
<1>2. /\ i \in {0} \cup (1..Len(ss))
      /\ i # 0 => ss[i].id = u.id
  <2> HIDE DEF ss
  <2> QED
    BY <1>1, KnownIs
<1>3. CASE u.id = Anonymous
  <2>1. Gather(so, u) = [identified |-> ss, anonymous |-> Append(aa, u)]
    BY <1>3 DEF Gather
  <2> HIDE DEF ss, aa
  <2>2. Append(aa, u) \in Seq(TrueIn(T))
    BY <1>1, AppendProperties
  <2> QED
    BY <1>1, <2>1, <2>2 DEF Gatherings
<1>4. CASE u.id # Anonymous /\ i = 0
  <2>1. Gather(so, u) = [identified |-> Append(ss, u), anonymous |-> aa]
    BY <1>4 DEF Gather
  <2> HIDE DEF ss, aa
  <2>2. Append(ss, u) \in Seq(TrueIn(T))
    BY <1>1, AppendProperties
  <2> QED
    BY <1>1, <2>1, <2>2 DEF Gatherings
<1>5. CASE u.id # Anonymous /\ i # 0
  <2> DEFINE s == ss[i]
             new == Sample(u.id, Over(s.usage, u.usage))
  <2>1. Gather(so, u) = [identified |-> [ss EXCEPT ![i] = new], anonymous |-> aa]
    BY <1>5 DEF Gather
  <2>2. i \in 1..Len(ss) /\ s \in TrueIn(T) /\ s.id = u.id
    <3> HIDE DEF ss, i
    <3> QED
      BY <1>1, <1>2, <1>5, ElementOfSeq
  <2> HIDE DEF s
  <2>3. new \in TrueIn(T)
    <3>1. Sample(s.id, Over(s.usage, u.usage)) \in TrueIn(T)
      BY <2>2, MergedTrue
    <3> QED
      BY <2>2, <3>1
  <2> HIDE DEF new, ss, aa, i
  <2>4. [ss EXCEPT ![i] = new] \in Seq(TrueIn(T))
    BY <1>1, <2>2, <2>3, ExceptSeq
  <2> QED
    BY <1>1, <2>1, <2>4 DEF Gatherings
<1> QED
  BY <1>3, <1>4, <1>5

LEMMA GatheredIs ==
  ASSUME NEW T, NEW ms \in Seq(Updates), \A i \in 1..Len(ms) : ms[i] \in TrueIn(T)
  PROVE  Gathered(ms) \in Gatherings(T)
<1> DEFINE n == Len(ms)
           D == Gatherings(T)
           base == [identified |-> << >>, anonymous |-> << >>]
           G == [i \in 1..n |-> [d \in D |-> Gather(d, ms[i])]]
           Is(h) == h = [i \in 0 .. Len(ms) |-> IF i = 0 THEN base
                                                ELSE Gather(h[i - 1], ms[i])]
           h == CHOOSE f : Is(f)
<1>1. n \in Nat /\ \A i \in 1..n : ms[i] \in Updates
  BY LenProperties, ElementOfSeq
<1>2. base \in D
  <2>1. << >> \in Seq(TrueIn(T))
    BY EmptySeq
  <2> QED
    BY <2>1 DEF Gatherings
<1>3. ASSUME NEW i \in 1..n, NEW d \in D
      PROVE  Gather(d, ms[i]) \in D /\ G[i][d] = Gather(d, ms[i])
  <2>1. Gather(d, ms[i]) \in D
    <3> DEFINE u == ms[i]
    <3>1. u \in Updates /\ u \in TrueIn(T)
      BY <1>1
    <3> HIDE DEF u
    <3>2. Gather(d, u) \in Gatherings(T)
      BY <3>1, GatherIs
    <3> QED
      BY <3>2 DEF u
  <2>2. G[i][d] = Gather(d, ms[i])
    OBVIOUS
  <2> QED
    BY <2>1, <2>2
<1>4. G \in [1..n -> [D -> D]]
  <2>1. \A i \in 1..n : [d \in D |-> Gather(d, ms[i])] \in [D -> D]
    BY <1>3
  <2> HIDE DEF D
  <2> QED
    BY <2>1
<1>5. PICK f : Unwinds(f, n, D, base, G)
  <2> HIDE DEF n, D, base, G
  <2> QED
    BY <1>1, <1>2, <1>4, Recursion
<1>6. Is(h)
  <2> DEFINE t == [i \in 0 .. n |-> IF i = 0 THEN base ELSE Gather(f[i - 1], ms[i])]
  <2>1. ASSUME NEW i \in 0..n PROVE f[i] = t[i]
    <3>1. CASE i = 0
      BY <1>5, <3>1 DEF Unwinds
    <3>2. CASE i # 0
      <4>1. i \in 1..n /\ i - 1 \in 0..n
        BY <1>1, <3>2
      <4>2. f[i - 1] \in D /\ f[i] = G[i][f[i - 1]]
        BY <1>5, <4>1 DEF Unwinds
      <4>3. f[i] = Gather(f[i - 1], ms[i])
        <5> HIDE DEF G, D, n
        <5> QED
          BY <1>3, <4>1, <4>2
      <4> QED
        BY <3>2, <4>3
    <3> QED
      BY <3>1, <3>2
  <2>2. f = [i \in 0..n |-> f[i]] /\ t = [i \in 0..n |-> t[i]]
    BY <1>5 DEF Unwinds
  <2> HIDE DEF t
  <2>3. f = t
    BY <2>1, <2>2
  <2>4. Is(f)
    BY <2>3 DEF t
  <2> QED
    BY <2>4
<1>7. Gathered(ms) = h[n]
  BY DEF Gathered
<1> HIDE DEF h
<1>8. h[0] = base /\ h = [i \in 0..n |-> h[i]]
  BY <1>1, <1>6
<1>9. \A i \in 1..n : h[i] = Gather(h[i - 1], ms[i])
  BY <1>1, <1>6
<1>10. Unwinds(h, n, D, base, G)
  <2>1. ASSUME NEW i \in 1..n, h[i - 1] \in D PROVE h[i] = G[i][h[i - 1]]
    <3> HIDE DEF G, D, n
    <3> QED
      BY <1>3, <1>9, <2>1
  <2> HIDE DEF G, D, n, base
  <2> QED
    BY <1>1, <1>2, <1>4, <1>8, <2>1, Unwound
<1>11. h[n] \in D
  <2> HIDE DEF G, D, n, base
  <2> QED
    BY <1>1, <1>10 DEF Unwinds
<1> QED
  BY <1>7, <1>11

\* The facts the reader makes of it.
LEMMA TotalsAre ==
  ASSUME NEW T, NEW ms \in Seq(Updates)
  PROVE  Totals(ms) \in Seq(FactsIn(T))
<1> DEFINE at == {i \in DOMAIN ms : "session" \in DOMAIN ms[i].usage}
           m == Max(at)
           usage == [session |-> ms[m].usage["session"]]
           x == FactOf("sdk_result", "session", "snapshot", Anonymous, usage)
<1>1. Len(ms) \in Nat /\ DOMAIN ms = 1..Len(ms) /\ \A i \in 1..Len(ms) : ms[i] \in Updates
  BY LenProperties, ElementOfSeq
<1>2. CASE at = {}
  BY <1>2, EmptySeq DEF Totals
<1>3. CASE at # {}
  <2>1. Totals(ms) = <<x>>
    BY <1>3 DEF Totals
  <2>2. m \in at
    <3>1. at \subseteq 0..Len(ms)
      BY <1>1
    <3> HIDE DEF at
    <3>2. PICK g \in at : \A l \in at : l <= g
      BY <1>1, <1>3, <3>1, Greatest
    <3> QED
      BY <3>2 DEF Max
  <2>3. usage \in Usages
    <3>1. ms[m] \in Updates /\ "session" \in DOMAIN ms[m].usage
      BY <1>1, <2>2
    <3> HIDE DEF m
    <3>2. ms[m].usage["session"] \in Nat
      <4>1. ms[m].usage \in Usages
        BY <3>1, UpdateIs
      <4> QED
        BY <3>1, <4>1, UsageIs
    <3>3. /\ DOMAIN usage = {"session"} /\ usage = [f \in DOMAIN usage |-> usage[f]]
          /\ usage["session"] = ms[m].usage["session"]
      OBVIOUS
    <3> HIDE DEF usage
    <3> QED
      BY <3>2, <3>3, UsageIs DEF UsageFields
  <2> HIDE DEF usage
  <2>4. /\ x = [from |-> "sdk_result", scope |-> "session", accounting |-> "snapshot",
               id |-> Anonymous, usage |-> usage]
        /\ x.scope = "session" /\ Anonymous \in Ids
    BY DEF FactOf, Ids
  <2>5. x \in FactsIn(T)
    <3>1. x \in FactType
      BY <2>3, <2>4 DEF FactType, Froms
    <3>2. TrueFact(T, x)
      BY <2>4 DEF TrueFact
    <3> QED
      BY <3>1, <3>2 DEF FactsIn
  <2> HIDE DEF x
  <2> QED
    BY <2>1, <2>5
<1> QED
  BY <1>2, <1>3

LEMMA CollectedAre ==
  ASSUME NEW T, NEW ms \in Seq(Updates), \A i \in 1..Len(ms) : ms[i] \in TrueIn(T)
  PROVE  Collected(ms) \in Seq(FactsIn(T))
<1> DEFINE so == Gathered(ms)
           a == Facts("sdk", "sdk_assistant", so.identified)
           b == Facts("sdk", "sdk_assistant", so.anonymous)
           c == Totals(ms)
<1>1. so \in Gatherings(T)
  BY GatheredIs
<1>2. so.identified \in Seq(TrueIn(T)) /\ so.anonymous \in Seq(TrueIn(T))
  <2> HIDE DEF so
  <2> QED
    BY <1>1 DEF Gatherings
<1>3. "sdk_assistant" \in Froms
  BY DEF Froms
<1>4. a \in Seq(FactsIn(T)) /\ b \in Seq(FactsIn(T))
  <2> HIDE DEF so
  <2> QED
    BY <1>2, <1>3, FactsAre
<1>5. c \in Seq(FactsIn(T))
  BY TotalsAre
<1>6. Collected(ms) = a \o b \o c
  BY DEF Collected
<1> HIDE DEF a, b, c
<1>7. a \o b \in Seq(FactsIn(T))
  BY <1>4, ConcatProperties
<1> QED
  BY <1>5, <1>6, <1>7, ConcatProperties

\* What was told of each field of each request.
AllTold == [id \in Ids |-> [f \in UsageFields |-> Told(id, f, Len(said))]]

\* What was told stays told, and what is said now is told.
LEMMA ToldMore ==
  ASSUME said \in Seq(Updates), NEW u \in Updates, said' = Append(said, u)
  PROVE  /\ TrueIn(AllTold) \subseteq TrueIn(AllTold)'
         /\ FactsIn(AllTold) \subseteq FactsIn(AllTold)'
         /\ u \in TrueIn(AllTold)'
<1>1. /\ said' \in Seq(Updates) /\ Len(said') = Len(said) + 1 /\ said'[Len(said) + 1] = u
      /\ \A i \in 1..Len(said) : said'[i] = said[i]
      /\ Len(said) \in Nat
  BY AppendProperties, LenProperties
<1>2. ASSUME NEW id \in Ids, NEW f \in UsageFields
      PROVE  /\ AllTold[id][f] \subseteq AllTold'[id][f]
             /\ id = u.id /\ f \in DOMAIN u.usage => u.usage[f] \in AllTold'[id][f]
  <2>1. /\ Told(id, f, Len(said)) \subseteq Told(id, f, Len(said))'
        /\ id = u.id /\ f \in DOMAIN u.usage => u.usage[f] \in Told(id, f, Len(said))'
    BY <1>1 DEF Told
  <2>2. /\ AllTold[id][f] = Told(id, f, Len(said))
        /\ AllTold'[id][f] = Told(id, f, Len(said))'
    BY DEF AllTold
  <2> QED
    BY <2>1, <2>2
<1> DEFINE T == AllTold
           TT == AllTold'
<1>3. TrueIn(T) \subseteq TrueIn(TT)
  <2> SUFFICES ASSUME NEW s \in TrueIn(T) PROVE s \in TrueIn(TT)
    OBVIOUS
  <2>1. s \in Samples /\ \A f \in DOMAIN s.usage : s.usage[f] \in T[s.id][f]
    BY DEF TrueIn
  <2>2. s.id \in Ids /\ DOMAIN s.usage \subseteq UsageFields
    BY <2>1, UsageIs DEF Samples
  <2>3. \A f \in DOMAIN s.usage : s.usage[f] \in TT[s.id][f]
    BY <1>2, <2>1, <2>2
  <2> HIDE DEF TT
  <2> QED
    BY <2>1, <2>3 DEF TrueIn
<1>4. FactsIn(T) \subseteq FactsIn(TT)
  <2> SUFFICES ASSUME NEW x \in FactsIn(T) PROVE x \in FactsIn(TT)
    OBVIOUS
  <2>1. x \in FactType /\ TrueFact(T, x)
    BY DEF FactsIn
  <2>2. x.id \in Ids /\ DOMAIN x.usage \subseteq UsageFields
    BY <2>1, UsageIs DEF FactType
  <2>3. TrueFact(TT, x)
    BY <1>2, <2>1, <2>2 DEF TrueFact
  <2> HIDE DEF TT
  <2> QED
    BY <2>1, <2>3 DEF FactsIn
<1>5. u \in TrueIn(TT)
  <2>1. u \in Samples /\ u.id \in Ids /\ DOMAIN u.usage \subseteq UsageFields
    BY UpdateIs, UsageIs
  <2>2. \A f \in DOMAIN u.usage : u.usage[f] \in TT[u.id][f]
    BY <1>2, <2>1
  <2> HIDE DEF TT
  <2> QED
    BY <2>1, <2>2 DEF TrueIn
<1>6. TrueIn(AllTold)' = TrueIn(TT) /\ FactsIn(AllTold)' = FactsIn(TT)
  BY DEF TrueIn, FactsIn, TrueFact
<1> QED
  BY <1>3, <1>4, <1>5, <1>6

LEMMA SaidIsTrue ==
  ASSUME said \in Seq(Updates)
  PROVE  \A i \in 1..Len(said) : said[i] \in TrueIn(AllTold)
<1> SUFFICES ASSUME NEW i \in 1..Len(said) PROVE said[i] \in TrueIn(AllTold)
  OBVIOUS
<1> DEFINE u == said[i]
<1>1. u \in Updates
  BY ElementOfSeq
<1>2. /\ Len(said) \in Nat
      /\ \A f \in DOMAIN u.usage : u.usage[f] \in Told(u.id, f, Len(said))
  BY LenProperties DEF Told
<1> HIDE DEF u
<1>3. u \in Samples /\ u.id \in Ids /\ DOMAIN u.usage \subseteq UsageFields
  BY <1>1, UpdateIs, UsageIs
<1>4. \A f \in DOMAIN u.usage : u.usage[f] \in AllTold[u.id][f]
  BY <1>2, <1>3 DEF AllTold
<1>5. u \in TrueIn(AllTold)
  BY <1>3, <1>4 DEF TrueIn
<1> QED
  BY <1>5 DEF u

\* The worker, its facts out of a set and what it looked at of n updates.
TellerType(S, n) ==
  [route : UsageRoutes, place : TellerPlaces, queue : Seq(S), told : 0..n]

UsageTyped ==
  /\ said \in Seq(Updates)
  /\ samples \in Seq(TrueIn(AllTold))
  /\ teller \in TellerType(FactsIn(AllTold), Len(said))
  /\ usageRows \in Seq(FactsIn(AllTold)) /\ IsInjective(usageRows)
  /\ ties \in 0..MaxTies /\ refusals \in 0..MaxRefused
  /\ teller.place = "done" => teller.queue = << >>

\* Whatever was said of a request is in the samples ...
AllHeard ==
  \A i \in 1..Len(said) : said[i].id # Anonymous =>
    \A f \in DOMAIN said[i].usage : Covers(samples, said[i].id, f)

\* ... and is written down or about to be, as far as the worker looked.
AllReported ==
  refusals = 0 =>
    \A i \in 1..teller.told : said[i].id # Anonymous =>
      \A f \in Additive \cap DOMAIN said[i].usage :
        Tells(usageRows, said[i].id, f) \/ Tells(teller.queue, said[i].id, f)

UsageInv == UsageTyped /\ AllHeard /\ AllReported

LEMMA UsageStarts == UsageInit => UsageInv
<1> SUFFICES ASSUME UsageInit PROVE UsageInv
  OBVIOUS
<1> USE DEF UsageInit
<1>1. /\ said = << >> /\ samples = << >> /\ usageRows = << >> /\ ties = 0 /\ refusals = 0
      /\ MaxTies \in Nat /\ MaxRefused \in Nat
  BY UsageAssumptions
<1>2. \A S : << >> \in Seq(S)
  BY EmptySeq
<1>3. Len(said) = 0
  BY <1>1
<1>4. PICK r \in UsageRoutes :
        teller = [route |-> r, place |-> "running", queue |-> << >>, told |-> 0]
  OBVIOUS
<1>5. /\ teller \in TellerType(FactsIn(AllTold), Len(said))
      /\ teller.place # "done" /\ teller.told = 0
  BY <1>2, <1>3, <1>4 DEF TellerType, TellerPlaces
<1>6. IsInjective(usageRows)
  BY <1>1 DEF IsInjective
<1>7. UsageTyped
  BY <1>1, <1>2, <1>5, <1>6 DEF UsageTyped
<1>8. AllHeard /\ AllReported
  BY <1>3, <1>5 DEF AllHeard, AllReported
<1> QED
  BY <1>7, <1>8 DEF UsageInv

LEMMA ReportIs ==
  ASSUME NEW S, NEW n, teller \in TellerType(S, n), NEW D, NEW m,
         NEW place \in TellerPlaces, NEW facts \in Seq(D), NEW told \in 0..m,
         Report(place, facts, told)
  PROVE  /\ teller' \in TellerType(D, m)
         /\ teller'.route = teller.route /\ teller'.place = place
         /\ teller'.queue = facts /\ teller'.told = told
<1>1. teller' = [route |-> teller.route, place |-> place, queue |-> facts, told |-> told]
      /\ teller.route \in UsageRoutes
  BY DEF Report, TellerType
<1> QED
  BY <1>1 DEF TellerType

\* As long as nothing is said, the same is true.
LEMMA ToldSame ==
  ASSUME UNCHANGED said
  PROVE  TrueIn(AllTold)' = TrueIn(AllTold) /\ FactsIn(AllTold)' = FactsIn(AllTold)
<1>1. \A id, f : Told(id, f, Len(said))' = Told(id, f, Len(said))
  BY DEF Told
<1>2. AllTold' = AllTold
  BY <1>1 DEF AllTold
<1> QED
  BY <1>2 DEF TrueIn, FactsIn, TrueFact

\* What the facts of a client's samples tell: all it was told of requests.
LEMMA AllTell ==
  ASSUME said \in Seq(Updates), samples \in Seq(TrueIn(AllTold)), AllHeard,
         NEW from \in Froms, NEW r
  PROVE  /\ Facts(r, from, samples) \in Seq(FactsIn(AllTold))
         /\ \A i \in 1..Len(said) : said[i].id # Anonymous =>
              \A f \in Additive \cap DOMAIN said[i].usage :
                Tells(Facts(r, from, samples), said[i].id, f)
<1>1. /\ Facts(r, from, samples) \in Seq(FactsIn(AllTold))
      /\ \A id \in Ids \ {Anonymous} : \A f \in Additive :
           Covers(samples, id, f) => Tells(Facts(r, from, samples), id, f)
  BY FactsAre
<1>2. ASSUME NEW i \in 1..Len(said), said[i].id # Anonymous,
             NEW f \in Additive \cap DOMAIN said[i].usage
      PROVE  Tells(Facts(r, from, samples), said[i].id, f)
  <2>1. said[i] \in Updates
    BY ElementOfSeq
  <2>2. said[i].id \in Ids \ {Anonymous}
    BY <1>2, <2>1 DEF Ids
  <2>3. Covers(samples, said[i].id, f)
    BY <1>2 DEF AllHeard
  <2> QED
    BY <1>1, <2>2, <2>3
<1> QED
  BY <1>1, <1>2

LEMMA TellerIs ==
  ASSUME UsageTyped
  PROVE  /\ teller.route \in UsageRoutes /\ teller.place \in TellerPlaces
         /\ teller.queue \in Seq(FactsIn(AllTold)) /\ teller.told \in 0..Len(said)
         /\ Len(said) \in Nat
BY LenProperties DEF UsageTyped, TellerType

LEMMA UpdateStands ==
  ASSUME UsageInv, NEW u \in Updates, Update(u)
  PROVE  UsageInv'
<1> USE DEF Update
<1>1. UsageTyped /\ AllHeard /\ AllReported
  BY DEF UsageInv
<1>2. said \in Seq(Updates) /\ samples \in Seq(TrueIn(AllTold))
  BY <1>1 DEF UsageTyped
<1>3. /\ said' \in Seq(Updates) /\ Len(said') = Len(said) + 1 /\ said'[Len(said) + 1] = u
      /\ \A i \in 1..Len(said) : said'[i] = said[i]
      /\ Len(said) \in Nat
  BY <1>2, AppendProperties, LenProperties
<1>4. /\ TrueIn(AllTold) \subseteq TrueIn(AllTold)'
      /\ FactsIn(AllTold) \subseteq FactsIn(AllTold)'
      /\ u \in TrueIn(AllTold)'
  BY <1>2, ToldMore
<1>5. /\ samples' \in Seq(TrueIn(AllTold)')
      /\ \A id \in Ids \ {Anonymous} : \A f :
           Covers(samples, id, f) => Covers(samples', id, f)
      /\ u.id # Anonymous => \A f \in DOMAIN u.usage : Covers(samples', u.id, f)
  <2> DEFINE T == AllTold'
             r == teller.route
             tt == samples'
  <2>1. TrueIn(T) = TrueIn(AllTold)'
    BY DEF TrueIn
  <2>2. samples \in Seq(TrueIn(T)) /\ u \in TrueIn(T) /\ tt = Heard(samples, r, u)
    BY <1>2, <1>4, <2>1, SeqMonotonic
  <2> HIDE DEF T, r, tt
  <2>3. /\ Heard(samples, r, u) \in Seq(TrueIn(T))
        /\ \A id \in Ids \ {Anonymous} : \A f :
             Covers(samples, id, f) => Covers(Heard(samples, r, u), id, f)
        /\ u.id # Anonymous =>
             \A f \in DOMAIN u.usage : Covers(Heard(samples, r, u), u.id, f)
    BY <2>2, Hearing
  <2> QED
    BY <2>1, <2>2, <2>3 DEF tt
<1>6. teller' \in TellerType(FactsIn(AllTold)', Len(said)')
  <2>1. teller \in TellerType(FactsIn(AllTold), Len(said))
    BY <1>1 DEF UsageTyped
  <2>2. Seq(FactsIn(AllTold)) \subseteq Seq(FactsIn(AllTold)')
    BY <1>4, SeqMonotonic
  <2>3. 0..Len(said) \subseteq 0..Len(said)'
    BY <1>3
  <2>4. teller' = teller
    OBVIOUS
  <2> QED
    BY <2>1, <2>2, <2>3, <2>4 DEF TellerType
<1>7. usageRows' \in Seq(FactsIn(AllTold)')
  BY <1>1, <1>4, SeqMonotonic DEF UsageTyped
<1>8. UsageTyped'
  BY <1>1, <1>3, <1>5, <1>6, <1>7 DEF UsageTyped
<1>9. AllHeard'
  <2> SUFFICES ASSUME NEW i \in 1..Len(said'), said'[i].id # Anonymous,
                      NEW f \in DOMAIN said'[i].usage
               PROVE  Covers(samples', said'[i].id, f)
    BY DEF AllHeard, Covers
  <2>1. CASE i \in 1..Len(said)
    <3>1. said'[i] = said[i] /\ said[i] \in Updates
      BY <1>2, <1>3, <2>1, ElementOfSeq
    <3>2. Covers(samples, said[i].id, f)
      BY <1>1, <2>1, <3>1 DEF AllHeard
    <3>3. said[i].id \in Ids \ {Anonymous}
      BY <3>1 DEF Ids
    <3> QED
      BY <1>5, <3>1, <3>2, <3>3
  <2>2. CASE i = Len(said) + 1
    BY <1>3, <1>5, <2>2
  <2> QED
    BY <1>3, <2>1, <2>2
<1>10. AllReported'
  <2> SUFFICES ASSUME refusals = 0, NEW i \in 1..teller.told, said'[i].id # Anonymous,
                      NEW f \in Additive \cap DOMAIN said'[i].usage
               PROVE  Tells(usageRows, said'[i].id, f) \/ Tells(teller.queue, said'[i].id, f)
    BY DEF AllReported, Tells
  <2>1. i \in 1..Len(said) /\ said'[i] = said[i]
    BY <1>1, <1>3, TellerIs
  <2> QED
    BY <1>1, <2>1 DEF AllReported
<1> QED
  BY <1>8, <1>9, <1>10 DEF UsageInv

\* The worker turns to what it will write down next: what it looked at now is in it,
\* or, if it looked no further, what it looked at before was written down.
LEMMA Turns ==
  ASSUME UsageInv, NEW place \in TellerPlaces, NEW facts \in Seq(FactsIn(AllTold)),
         NEW told \in 0..Len(said), Report(place, facts, told),
         UNCHANGED <<said, samples, usageRows, ties, refusals>>,
         place = "done" => facts = << >>,
         \/ told = 0
         \/ told = teller.told /\ teller.queue = << >>
         \/ \A i \in 1..Len(said) : said[i].id # Anonymous =>
              \A f \in Additive \cap DOMAIN said[i].usage : Tells(facts, said[i].id, f)
  PROVE  UsageInv'
<1>1. UsageTyped /\ AllHeard /\ AllReported
  BY DEF UsageInv
<1>2. TrueIn(AllTold)' = TrueIn(AllTold) /\ FactsIn(AllTold)' = FactsIn(AllTold)
  BY ToldSame
<1>3. /\ teller' \in TellerType(FactsIn(AllTold), Len(said))
      /\ teller'.place = place /\ teller'.queue = facts /\ teller'.told = told
  <2> DEFINE S == FactsIn(AllTold)
             n == Len(said)
  <2>1. teller \in TellerType(S, n) /\ facts \in Seq(S) /\ told \in 0..n
    BY <1>1 DEF UsageTyped
  <2> HIDE DEF S, n
  <2>2. /\ teller' \in TellerType(S, n)
        /\ teller'.place = place /\ teller'.queue = facts /\ teller'.told = told
    BY <2>1, ReportIs
  <2> QED
    BY <2>2 DEF S, n
<1>4. UsageTyped'
  BY <1>1, <1>2, <1>3 DEF UsageTyped
<1>5. AllHeard'
  BY <1>1 DEF AllHeard, Covers
<1>6. AllReported'
  <2> SUFFICES ASSUME refusals = 0, NEW i \in 1..told, said[i].id # Anonymous,
                      NEW f \in Additive \cap DOMAIN said[i].usage
               PROVE  Tells(usageRows, said[i].id, f) \/ Tells(facts, said[i].id, f)
    BY <1>3 DEF AllReported, Tells
  <2>1. Len(said) \in Nat
    BY <1>1, TellerIs
  <2>2. i \in 1..Len(said)
    BY <2>1
  <2>3. CASE told = teller.told /\ teller.queue = << >>
    <3>1. ~Tells(teller.queue, said[i].id, f)
      BY <2>3 DEF Tells, Range
    <3> QED
      BY <1>1, <2>3, <3>1 DEF AllReported
  <2> QED
    BY <2>2, <2>3
<1> QED
  BY <1>4, <1>5, <1>6 DEF UsageInv

LEMMA RunReturnsStands == UsageInv /\ RunReturns => UsageInv'
<1> SUFFICES ASSUME UsageInv, RunReturns PROVE UsageInv'
  OBVIOUS
<1>1. UsageTyped /\ AllHeard /\ AllReported
  BY DEF UsageInv
<1>2. said \in Seq(Updates) /\ samples \in Seq(TrueIn(AllTold))
  BY <1>1 DEF UsageTyped
<1>3. Len(said) \in Nat /\ "acp" \in Froms /\ "sdk_result" \in Froms /\ "reporting" \in TellerPlaces
  BY <1>2, LenProperties DEF Froms, TellerPlaces
<1> DEFINE facts == Facts(teller.route, "acp", samples)
<1>4. /\ facts \in Seq(FactsIn(AllTold))
      /\ \A i \in 1..Len(said) : said[i].id # Anonymous =>
           \A f \in Additive \cap DOMAIN said[i].usage : Tells(facts, said[i].id, f)
  BY <1>1, <1>2, <1>3, AllTell
<1>5. CASE Report("reporting", facts, Len(said)) /\ UNCHANGED said
  <2>1. UNCHANGED <<said, samples, usageRows, ties, refusals>>
    BY <1>5 DEF RunReturns
  <2>2. Len(said) \in 0..Len(said) /\ "reporting" # "done"
    BY <1>3
  <2> HIDE DEF facts
  <2> QED
    BY <1>3, <1>4, <1>5, <2>1, <2>2, Turns
<1>6. ASSUME NEW u \in Updates, u.id = Anonymous, teller.route = "sdk",
             said' = Append(said, u),
             Report("reporting", Facts("sdk", "acp", samples)
                                   \o <<Fact("sdk", "sdk_result", u)>>, Len(said) + 1)
      PROVE  UsageInv'
  <2> DEFINE x == Fact("sdk", "sdk_result", u)
             one == <<x>>
             all == facts \o one
  <2>1. /\ said' \in Seq(Updates) /\ Len(said') = Len(said) + 1
        /\ said'[Len(said) + 1] = u
        /\ \A i \in 1..Len(said) : said'[i] = said[i]
    BY <1>2, <1>3, <1>6, AppendProperties
  <2>2. /\ TrueIn(AllTold) \subseteq TrueIn(AllTold)'
        /\ FactsIn(AllTold) \subseteq FactsIn(AllTold)'
        /\ u \in TrueIn(AllTold)'
    BY <1>2, <1>6, ToldMore
  <2>3. UNCHANGED <<samples, usageRows, ties, refusals>>
    BY DEF RunReturns
  <2>4. x \in FactsIn(AllTold)'
    <3> DEFINE T == AllTold'
    <3>1. TrueIn(T) = TrueIn(AllTold)' /\ FactsIn(T) = FactsIn(AllTold)'
      BY DEF TrueIn, FactsIn, TrueFact
    <3> HIDE DEF T
    <3>2. u \in TrueIn(T)
      BY <2>2, <3>1
    <3>3. x \in FactsIn(T)
      BY <1>3, <3>2, FactIs
    <3> QED
      BY <3>1, <3>3
  <2> HIDE DEF x
  <2>5. one \in Seq(FactsIn(AllTold)')
    BY <2>4
  <2>6. facts \in Seq(FactsIn(AllTold)')
    <3> HIDE DEF facts
    <3> QED
      BY <1>4, <2>2, SeqMonotonic
  <2>7. Report("reporting", all, Len(said) + 1)
    BY <1>6 DEF x
  <2> HIDE DEF facts, one
  <2>8. /\ all \in Seq(FactsIn(AllTold)') /\ Len(all) = Len(facts) + Len(one)
        /\ Len(facts) \in Nat /\ Len(one) \in Nat
        /\ \A i \in 1..Len(facts) + Len(one) :
             all[i] = IF i <= Len(facts) THEN facts[i] ELSE one[i - Len(facts)]
    BY <2>5, <2>6, ConcatProperties, LenProperties
  <2>9. Range(facts) \subseteq Range(all)
    <3>1. /\ DOMAIN facts = 1..Len(facts) /\ DOMAIN all = 1..Len(all)
      BY <2>6, <2>8, LenProperties
    <3> HIDE DEF all
    <3>2. \A i \in DOMAIN facts : i \in DOMAIN all /\ all[i] = facts[i]
      BY <2>8, <3>1
    <3> QED
      BY <3>2 DEF Range
  <2>10. /\ teller' \in TellerType(FactsIn(AllTold)', Len(said) + 1)
         /\ teller'.place = "reporting" /\ teller'.queue = all
         /\ teller'.told = Len(said) + 1
    <3> DEFINE S == FactsIn(AllTold)
               D == FactsIn(AllTold)'
               n == Len(said)
               m == Len(said) + 1
    <3>1. teller \in TellerType(S, n) /\ all \in Seq(D) /\ m \in 0..m
          /\ Report("reporting", all, m)
      BY <1>1, <1>3, <2>7, <2>8 DEF UsageTyped
    <3> HIDE DEF S, D, n, m, all
    <3>2. /\ teller' \in TellerType(D, m) /\ teller'.place = "reporting"
          /\ teller'.queue = all /\ teller'.told = m
      BY <1>3, <3>1, ReportIs
    <3> QED
      BY <3>2 DEF D, m
  <2> HIDE DEF all
  <2>11. UsageTyped'
    <3>1. /\ samples' \in Seq(TrueIn(AllTold)')
          /\ usageRows' \in Seq(FactsIn(AllTold)')
      BY <1>1, <1>2, <2>2, <2>3, SeqMonotonic DEF UsageTyped
    <3> QED
      BY <1>1, <2>1, <2>3, <2>10, <3>1 DEF UsageTyped
  <2>12. AllHeard'
    <3> SUFFICES ASSUME NEW i \in 1..Len(said'), said'[i].id # Anonymous,
                        NEW f \in DOMAIN said'[i].usage
                 PROVE  Covers(samples', said'[i].id, f)
      BY DEF AllHeard, Covers
    <3>1. i \in 1..Len(said) /\ said'[i] = said[i]
      BY <1>3, <1>6, <2>1
    <3> QED
      BY <1>1, <2>3, <3>1 DEF AllHeard
  <2>13. AllReported'
    <3> SUFFICES ASSUME NEW i \in 1..teller'.told, said'[i].id # Anonymous,
                        NEW f \in Additive \cap DOMAIN said'[i].usage
                 PROVE  Tells(teller'.queue, said'[i].id, f)
      BY DEF AllReported, Tells
    <3>1. i \in 1..Len(said) /\ said'[i] = said[i]
      BY <1>3, <1>6, <2>1, <2>10
    <3>2. Tells(facts, said[i].id, f)
      BY <1>4, <3>1
    <3> QED
      BY <2>9, <2>10, <3>1, <3>2 DEF Tells
  <2> QED
    BY <2>11, <2>12, <2>13 DEF UsageInv
<1> QED
  BY <1>5, <1>6 DEF RunReturns

LEMMA RunFailsStands == UsageInv /\ RunFails => UsageInv'
<1> SUFFICES ASSUME UsageInv, RunFails PROVE UsageInv'
  OBVIOUS
<1>1. UsageTyped /\ AllHeard /\ AllReported
  BY DEF UsageInv
<1>2. said \in Seq(Updates) /\ samples \in Seq(TrueIn(AllTold))
  BY <1>1 DEF UsageTyped
<1>3. /\ Len(said) \in Nat /\ "acp" \in Froms
      /\ "closing" \in TellerPlaces /\ "done" \in TellerPlaces
  BY <1>2, LenProperties DEF Froms, TellerPlaces
<1>4. UNCHANGED <<said, samples, usageRows, ties, refusals>>
  BY DEF RunFails
<1>5. CASE Report("closing", Facts("qoder", "acp", samples), Len(said))
  <2> DEFINE facts == Facts("qoder", "acp", samples)
  <2>1. /\ facts \in Seq(FactsIn(AllTold))
        /\ \A i \in 1..Len(said) : said[i].id # Anonymous =>
             \A f \in Additive \cap DOMAIN said[i].usage : Tells(facts, said[i].id, f)
    BY <1>1, <1>2, <1>3, AllTell
  <2>2. Len(said) \in 0..Len(said) /\ "closing" # "done"
    BY <1>3
  <2> HIDE DEF facts
  <2> QED
    BY <1>3, <1>4, <1>5, <2>1, <2>2, Turns DEF facts
<1>6. CASE Report("done", << >>, 0)
  <2> DEFINE none == << >>
             zero == 0
  <2>1. none \in Seq(FactsIn(AllTold)) /\ zero \in 0..Len(said) /\ Report("done", none, zero)
    BY <1>3, <1>6, EmptySeq
  <2>2. none = << >> /\ zero = 0
    OBVIOUS
  <2> HIDE DEF none, zero
  <2> QED
    BY <1>3, <1>4, <2>1, <2>2, Turns
<1> QED
  BY <1>5, <1>6 DEF RunFails

LEMMA CollectSdkStands == UsageInv /\ CollectSdk => UsageInv'
<1> SUFFICES ASSUME UsageInv, CollectSdk PROVE UsageInv'
  OBVIOUS
<1>1. UsageTyped /\ said \in Seq(Updates)
  BY DEF UsageInv, UsageTyped
<1>2. PICK facts \in {<< >>, Collected(said)} : Report("collected", facts, teller.told)
  BY DEF CollectSdk
<1>3. Collected(said) \in Seq(FactsIn(AllTold))
  BY <1>1, SaidIsTrue, CollectedAre
<1>4. facts \in Seq(FactsIn(AllTold))
  BY <1>3, EmptySeq
<1>5. /\ UNCHANGED <<said, samples, usageRows, ties, refusals>>
      /\ teller.queue = << >> /\ teller.told \in 0..Len(said)
      /\ "collected" \in TellerPlaces
  BY <1>1, TellerIs DEF CollectSdk, TellerPlaces
<1> QED
  BY <1>2, <1>4, <1>5, Turns

LEMMA FinallyReportsStands == UsageInv /\ FinallyReports => UsageInv'
<1> SUFFICES ASSUME UsageInv, FinallyReports PROVE UsageInv'
  OBVIOUS
<1>1. UsageTyped /\ AllHeard /\ AllReported
  BY DEF UsageInv
<1>2. said \in Seq(Updates) /\ samples \in Seq(TrueIn(AllTold))
  BY <1>1 DEF UsageTyped
<1>3. Len(said) \in Nat /\ "acp" \in Froms /\ "closing" \in TellerPlaces
  BY <1>2, LenProperties DEF Froms, TellerPlaces
<1> DEFINE facts == Facts("qoder", "acp", samples)
<1>4. /\ facts \in Seq(FactsIn(AllTold))
      /\ \A i \in 1..Len(said) : said[i].id # Anonymous =>
           \A f \in Additive \cap DOMAIN said[i].usage : Tells(facts, said[i].id, f)
  BY <1>1, <1>2, <1>3, AllTell
<1>5. /\ UNCHANGED <<said, samples, usageRows, ties, refusals>>
      /\ Report("closing", facts, Len(said))
      /\ Len(said) \in 0..Len(said)
  BY <1>3 DEF FinallyReports
<1> HIDE DEF facts
<1> QED
  BY <1>3, <1>4, <1>5, Turns

LEMMA ClosedStands == UsageInv /\ Closed => UsageInv'
<1> SUFFICES ASSUME UsageInv, Closed PROVE UsageInv'
  OBVIOUS
<1> DEFINE none == << >>
<1>1. UsageTyped /\ none \in Seq(FactsIn(AllTold))
  BY EmptySeq DEF UsageInv
<1>2. /\ UNCHANGED <<said, samples, usageRows, ties, refusals>>
      /\ Report("done", none, teller.told) /\ teller.queue = none
      /\ teller.told \in 0..Len(said) /\ "done" \in TellerPlaces
  BY <1>1, TellerIs DEF Closed, TellerPlaces
<1>3. none = << >>
  OBVIOUS
<1> HIDE DEF none
<1> QED
  BY <1>1, <1>2, <1>3, Turns

\* One element more, at the end or before the last.
LEMMA OneMore ==
  ASSUME NEW S, NEW s \in Seq(S), NEW e \in S
  PROVE  /\ Append(s, e) \in Seq(S) /\ Range(Append(s, e)) = Range(s) \cup {e}
         /\ IsInjective(s) /\ e \notin Range(s) => IsInjective(Append(s, e))
<1> DEFINE tt == Append(s, e)
           n == Len(s)
<1>1. /\ n \in Nat /\ DOMAIN s = 1..n /\ DOMAIN tt = 1..(n + 1)
      /\ tt \in Seq(S) /\ tt[n + 1] = e
      /\ \A i \in 1..n : tt[i] = s[i]
  BY AppendProperties, LenProperties
<1> HIDE DEF tt, n
<1>2. Range(tt) = Range(s) \cup {e}
  <2>1. ASSUME NEW x \in Range(tt) PROVE x \in Range(s) \cup {e}
    <3>1. PICK i \in 1..(n + 1) : x = tt[i]
      BY <1>1 DEF Range
    <3>2. i \in 1..n \/ i = n + 1
      BY <1>1
    <3> QED
      BY <1>1, <3>1, <3>2 DEF Range
  <2>2. ASSUME NEW i \in 1..n PROVE s[i] \in Range(tt)
    <3>1. i \in 1..(n + 1)
      BY <1>1
    <3> QED
      BY <1>1, <3>1 DEF Range
  <2>3. e \in Range(tt)
    <3>1. n + 1 \in 1..(n + 1)
      BY <1>1
    <3> QED
      BY <1>1, <3>1 DEF Range
  <2> QED
    BY <1>1, <2>1, <2>2, <2>3 DEF Range
<1>3. ASSUME IsInjective(s), e \notin Range(s),
             NEW i \in DOMAIN tt, NEW j \in DOMAIN tt, tt[i] = tt[j]
      PROVE  i = j
  <2>1. \A k \in 1..n : s[k] # e
    BY <1>1, <1>3 DEF Range
  <2>2. \A k, l \in 1..n : s[k] = s[l] => k = l
    BY <1>1, <1>3 DEF IsInjective
  <2>3. (i \in 1..n \/ i = n + 1) /\ (j \in 1..n \/ j = n + 1)
    BY <1>1
  <2> QED
    BY <1>1, <1>3, <2>1, <2>2, <2>3
<1> QED
  BY <1>1, <1>2, <1>3 DEF IsInjective, tt

LEMMA OneBeforeLast ==
  ASSUME NEW S, NEW s \in Seq(S), s # << >>, NEW e \in S
  PROVE  /\ InsertAt(s, Len(s), e) \in Seq(S)
         /\ Range(InsertAt(s, Len(s), e)) = Range(s) \cup {e}
         /\ IsInjective(s) /\ e \notin Range(s) => IsInjective(InsertAt(s, Len(s), e))
<1> DEFINE tt == InsertAt(s, Len(s), e)
           n == Len(s)
           a == SubSeq(s, 1, n - 1)
           b == SubSeq(s, n, n)
           one == <<e>>
<1>1. n \in Nat /\ n # 0 /\ DOMAIN s = 1..n /\ \A i \in 1..n : s[i] \in S
  BY LenProperties, ElementOfSeq, EmptySeq
<1>2. tt = a \o one \o b
  BY DEF InsertAt
<1> HIDE DEF n
<1>3. a \in Seq(S) /\ Len(a) = n - 1 /\ \A i \in 1..(n - 1) : a[i] = s[i]
  <2> DEFINE m == n - 1
             first == 1
  <2>1. m \in Int /\ first \in Int /\ \A i \in first..m : s[i] \in S
    BY <1>1
  <2>2. /\ SubSeq(s, first, m) \in Seq(S)
        /\ Len(SubSeq(s, first, m)) = IF first <= m THEN m - first + 1 ELSE 0
        /\ \A i \in 1 .. m - first + 1 : SubSeq(s, first, m)[i] = s[first + i - 1]
    <3> HIDE DEF m, first
    <3> QED
      BY <2>1, SubSeqProperties
  <2>3. Len(a) = n - 1
    BY <1>1, <2>2
  <2>4. \A i \in 1..(n - 1) : i \in 1 .. m - first + 1 /\ first + i - 1 = i
    BY <1>1
  <2> QED
    BY <2>2, <2>3, <2>4
<1>4. b \in Seq(S) /\ Len(b) = 1 /\ b[1] = s[n]
  <2>1. /\ SubSeq(s, n, n) \in Seq(S)
        /\ Len(SubSeq(s, n, n)) = IF n <= n THEN n - n + 1 ELSE 0
        /\ \A i \in 1 .. n - n + 1 : SubSeq(s, n, n)[i] = s[n + i - 1]
    <3>1. n \in Int /\ \A i \in n..n : s[i] \in S
      BY <1>1
    <3> QED
      BY <3>1, SubSeqProperties
  <2>2. 1 \in 1 .. n - n + 1 /\ n + 1 - 1 = n /\ n - n + 1 = 1 /\ n <= n
    BY <1>1
  <2>3. SubSeq(s, n, n)[1] = s[n]
    BY <2>1, <2>2
  <2> QED
    BY <2>1, <2>2, <2>3
<1>5. one \in Seq(S) /\ Len(one) = 1 /\ one[1] = e
  OBVIOUS
<1> HIDE DEF tt, a, b, one
<1> DEFINE c == a \o one
<1>6. c \in Seq(S) /\ Len(c) = n /\ c[n] = e /\ \A i \in 1..(n - 1) : c[i] = s[i]
  <2>1. /\ c \in Seq(S) /\ Len(c) = Len(a) + Len(one)
        /\ \A i \in 1..Len(a) + Len(one) :
             c[i] = IF i <= Len(a) THEN a[i] ELSE one[i - Len(a)]
    BY <1>3, <1>5, ConcatProperties
  <2> QED
    BY <1>1, <1>3, <1>5, <2>1
<1>7. tt \in Seq(S) /\ Len(tt) = n + 1 /\ tt[n + 1] = s[n] /\ \A i \in 1..n : tt[i] = c[i]
  <2> HIDE DEF c
  <2>1. /\ c \o b \in Seq(S) /\ Len(c \o b) = Len(c) + Len(b)
        /\ \A i \in 1..Len(c) + Len(b) :
             (c \o b)[i] = IF i <= Len(c) THEN c[i] ELSE b[i - Len(c)]
    BY <1>4, <1>6, ConcatProperties
  <2>2. tt = c \o b
    BY <1>2 DEF c
  <2> QED
    BY <1>1, <1>4, <1>6, <2>1, <2>2
<1>8. /\ DOMAIN tt = 1..(n + 1) /\ tt[n] = e /\ tt[n + 1] = s[n]
      /\ \A i \in 1..(n - 1) : tt[i] = s[i]
  <2>1. DOMAIN tt = 1..(n + 1)
    BY <1>7, LenProperties
  <2>2. n \in 1..n /\ \A i \in 1..(n - 1) : i \in 1..n
    BY <1>1
  <2> QED
    BY <1>6, <1>7, <2>1, <2>2
<1>9. Range(tt) = Range(s) \cup {e}
  <2>1. ASSUME NEW x \in Range(tt) PROVE x \in Range(s) \cup {e}
    <3>1. PICK i \in 1..(n + 1) : x = tt[i]
      BY <1>8, <2>1 DEF Range
    <3>2. (i \in 1..(n - 1) /\ i \in 1..n) \/ i = n \/ i = n + 1
      BY <1>1
    <3>3. n \in 1..n
      BY <1>1
    <3> QED
      BY <1>1, <1>8, <3>1, <3>2, <3>3 DEF Range
  <2>2. ASSUME NEW i \in 1..n PROVE s[i] \in Range(tt)
    <3>1. (i \in 1..(n - 1) \/ i = n) /\ i \in 1..(n + 1) /\ n + 1 \in 1..(n + 1)
      BY <1>1
    <3> QED
      BY <1>8, <3>1 DEF Range
  <2>3. e \in Range(tt)
    <3>1. n \in 1..(n + 1)
      BY <1>1
    <3> QED
      BY <1>8, <3>1 DEF Range
  <2> QED
    BY <1>1, <2>1, <2>2, <2>3 DEF Range
<1>10. ASSUME IsInjective(s), e \notin Range(s),
              NEW i \in DOMAIN tt, NEW j \in DOMAIN tt, tt[i] = tt[j]
       PROVE  i = j
  <2>1. \A k \in 1..n : s[k] # e
    BY <1>1, <1>10 DEF Range
  <2>2. \A k, l \in 1..n : s[k] = s[l] => k = l
    BY <1>1, <1>10 DEF IsInjective
  <2>3. /\ (i \in 1..(n - 1) /\ i \in 1..n /\ i # n) \/ i = n \/ i = n + 1
        /\ (j \in 1..(n - 1) /\ j \in 1..n /\ j # n) \/ j = n \/ j = n + 1
    BY <1>1, <1>8
  <2>4. n \in 1..n
    BY <1>1
  <2> QED
    BY <1>8, <1>10, <2>1, <2>2, <2>3, <2>4
<1> QED
  BY <1>7, <1>9, <1>10 DEF IsInjective, tt, n

\* What is at the head of the queue, and what is left.
LEMMA QueueIs ==
  ASSUME NEW S, NEW q \in Seq(S), q # << >>
  PROVE  /\ Head(q) \in S /\ Tail(q) \in Seq(S)
         /\ Range(q) = {Head(q)} \cup Range(Tail(q))
<1> DEFINE t == Tail(q)
           n == Len(q)
<1>1. /\ Head(q) \in S /\ t \in Seq(S) /\ Len(t) = n - 1
      /\ \A i \in 1..Len(t) : t[i] = q[i + 1]
  BY HeadTailProperties
<1>2. n \in Nat /\ n # 0 /\ DOMAIN q = 1..n /\ DOMAIN t = 1..Len(t) /\ Head(q) = q[1]
  BY <1>1, LenProperties, EmptySeq
<1> HIDE DEF t, n
<1>3. ASSUME NEW i \in 1..n PROVE q[i] \in {Head(q)} \cup Range(t)
  <2>1. CASE i = 1
    BY <1>2, <2>1
  <2>2. CASE i # 1
    <3>1. i - 1 \in 1..Len(t) /\ (i - 1) + 1 = i
      BY <1>1, <1>2, <2>2
    <3>2. t[i - 1] = q[i]
      BY <1>1, <3>1
    <3>3. t[i - 1] \in Range(t)
      BY <1>2, <3>1 DEF Range
    <3> QED
      BY <3>2, <3>3
  <2> QED
    BY <2>1, <2>2
<1>4. ASSUME NEW i \in 1..Len(t) PROVE t[i] \in Range(q)
  <2>1. i + 1 \in 1..n
    BY <1>1, <1>2
  <2> QED
    BY <1>1, <1>2, <2>1 DEF Range
<1>5. Head(q) \in Range(q)
  <2>1. 1 \in 1..n
    BY <1>2
  <2> QED
    BY <1>2, <2>1 DEF Range
<1>6. Range(q) = {Head(q)} \cup Range(t)
  BY <1>2, <1>3, <1>4, <1>5 DEF Range
<1> QED
  BY <1>1, <1>6 DEF t

LEMMA AppendEvidenceStands == UsageInv /\ AppendEvidence => UsageInv'
<1> SUFFICES ASSUME UsageInv, AppendEvidence PROVE UsageInv'
  OBVIOUS
<1> DEFINE S == FactsIn(AllTold)
           q == teller.queue
           fact == Head(q)
<1>1. UsageTyped /\ AllHeard /\ AllReported
  BY DEF UsageInv
<1>2. /\ UNCHANGED <<said, samples, refusals>>
      /\ q # << >> /\ teller' = [teller EXCEPT !.queue = Tail(q)]
  BY DEF AppendEvidence
<1>3. /\ q \in Seq(S) /\ usageRows \in Seq(S) /\ IsInjective(usageRows)
      /\ teller \in TellerType(S, Len(said))
  BY <1>1, TellerIs DEF UsageTyped
<1>4. fact \in S /\ Tail(q) \in Seq(S) /\ Range(q) = {fact} \cup Range(Tail(q))
  <2> HIDE DEF S, q
  <2> QED
    BY <1>2, <1>3, QueueIs
<1>5. /\ usageRows' \in Seq(S) /\ IsInjective(usageRows') /\ ties' \in 0..MaxTies
      /\ Range(usageRows') = Range(usageRows) \cup {fact}
  <2>1. CASE fact \in Range(usageRows)
    <3>1. UNCHANGED <<usageRows, ties>>
      BY <2>1 DEF AppendEvidence
    <3> QED
      BY <1>1, <1>3, <2>1, <3>1 DEF UsageTyped
  <2>2. CASE fact \notin Range(usageRows) /\ usageRows' = Append(usageRows, fact)
             /\ UNCHANGED ties
    <3>1. ties' \in 0..MaxTies
      BY <1>1, <2>2 DEF UsageTyped
    <3> HIDE DEF S, fact
    <3> QED
      BY <1>3, <1>4, <2>2, <3>1, OneMore
  <2>3. CASE /\ fact \notin Range(usageRows) /\ ties < MaxTies /\ usageRows # << >>
             /\ ties' = ties + 1
             /\ usageRows' = InsertAt(usageRows, Len(usageRows), fact)
    <3>1. ties' \in 0..MaxTies
      BY <1>1, <2>3, UsageAssumptions DEF UsageTyped
    <3> HIDE DEF S, fact
    <3>2. /\ usageRows' \in Seq(S)
          /\ Range(usageRows') = Range(usageRows) \cup {fact}
          /\ IsInjective(usageRows')
      BY <1>3, <1>4, <2>3, OneBeforeLast
    <3> QED
      BY <3>1, <3>2
  <2> QED
    BY <2>1, <2>2, <2>3 DEF AppendEvidence
<1>6. /\ teller' \in TellerType(S, Len(said))
      /\ teller'.queue = Tail(q) /\ teller'.told = teller.told /\ teller'.place = teller.place
  <2> DEFINE rest == Tail(q)
  <2>1. rest \in Seq(S) /\ teller' = [teller EXCEPT !.queue = rest]
    BY <1>2, <1>4
  <2> HIDE DEF rest, S
  <2> QED
    BY <1>3, <2>1 DEF TellerType, rest
<1>7. TrueIn(AllTold)' = TrueIn(AllTold) /\ FactsIn(AllTold)' = S
  BY <1>2, ToldSame
<1>8. teller.place # "done"
  BY <1>1, <1>2 DEF UsageTyped
<1>9. UsageTyped'
  BY <1>1, <1>2, <1>5, <1>6, <1>7, <1>8 DEF UsageTyped
<1>10. AllHeard'
  BY <1>1, <1>2 DEF AllHeard, Covers
<1>11. AllReported'
  <2> SUFFICES ASSUME refusals = 0, NEW i \in 1..teller.told, said[i].id # Anonymous,
                      NEW f \in Additive \cap DOMAIN said[i].usage
               PROVE  Tells(usageRows', said[i].id, f) \/ Tells(teller'.queue, said[i].id, f)
    BY <1>2, <1>6 DEF AllReported, Tells
  <2>1. Tells(usageRows, said[i].id, f) \/ Tells(q, said[i].id, f)
    BY <1>1 DEF AllReported
  <2> HIDE DEF fact, q
  <2>2. /\ Range(usageRows') = Range(usageRows) \cup {fact}
        /\ Range(q) = {fact} \cup Range(teller'.queue)
    BY <1>4, <1>5, <1>6
  <2> QED
    BY <2>1, <2>2 DEF Tells
<1> QED
  BY <1>9, <1>10, <1>11 DEF UsageInv

LEMMA AppendRefusedStands == UsageInv /\ AppendRefused => UsageInv'
<1> SUFFICES ASSUME UsageInv, AppendRefused PROVE UsageInv'
  OBVIOUS
<1> DEFINE S == FactsIn(AllTold)
           q == teller.queue
<1>1. UsageTyped /\ AllHeard
  BY DEF UsageInv
<1>2. /\ UNCHANGED <<said, samples, usageRows, ties>> /\ refusals < MaxRefused
      /\ refusals' = refusals + 1
      /\ q # << >> /\ teller' = [teller EXCEPT !.queue = Tail(q)]
  BY DEF AppendRefused
<1>3. q \in Seq(S) /\ teller \in TellerType(S, Len(said))
  BY <1>1, TellerIs DEF UsageTyped
<1>4. Tail(q) \in Seq(S)
  <2> HIDE DEF S, q
  <2> QED
    BY <1>2, <1>3, QueueIs
<1>5. teller' \in TellerType(S, Len(said)) /\ teller'.place = teller.place
  <2> DEFINE rest == Tail(q)
  <2>1. rest \in Seq(S) /\ teller' = [teller EXCEPT !.queue = rest]
    BY <1>2, <1>4
  <2> HIDE DEF rest, S
  <2> QED
    BY <1>3, <2>1 DEF TellerType
<1>6. TrueIn(AllTold)' = TrueIn(AllTold) /\ FactsIn(AllTold)' = S
  BY <1>2, ToldSame
<1>7. refusals' \in 0..MaxRefused /\ refusals' # 0 /\ teller.place # "done"
  BY <1>1, <1>2, UsageAssumptions DEF UsageTyped
<1>8. UsageTyped'
  BY <1>1, <1>2, <1>5, <1>6, <1>7 DEF UsageTyped
<1>9. AllHeard'
  BY <1>1, <1>2 DEF AllHeard, Covers
<1>10. AllReported'
  BY <1>7 DEF AllReported
<1> QED
  BY <1>8, <1>9, <1>10 DEF UsageInv

LEMMA UsageSteps == UsageInv /\ [UsageNext]_usageVars => UsageInv'
<1> SUFFICES ASSUME UsageInv, [UsageNext]_usageVars PROVE UsageInv'
  OBVIOUS
<1>1. ASSUME NEW u \in Updates, Update(u) PROVE UsageInv'
  BY <1>1, UpdateStands
<1>2. CASE UNCHANGED usageVars
  <2>1. UNCHANGED <<said, samples, teller, usageRows, ties, refusals>>
    BY <1>2 DEF usageVars
  <2>2. TrueIn(AllTold)' = TrueIn(AllTold) /\ FactsIn(AllTold)' = FactsIn(AllTold)
    BY <2>1, ToldSame
  <2>3. UsageTyped'
    BY <2>1, <2>2 DEF UsageInv, UsageTyped
  <2>4. AllHeard' /\ AllReported'
    BY <2>1 DEF UsageInv, AllHeard, AllReported, Covers, Tells
  <2> QED
    BY <2>3, <2>4 DEF UsageInv
<1> QED
  BY <1>1, <1>2, RunReturnsStands, RunFailsStands, AppendEvidenceStands,
     AppendRefusedStands, CollectSdkStands, FinallyReportsStands, ClosedStands
     DEF UsageNext

\* The last row of a set is one of it.
LEMMA LastRow ==
  ASSUME NEW n \in Nat, NEW S, S \subseteq 1..n, S # {}
  PROVE  Max(S) \in S
<1>1. S \subseteq 0..n
  OBVIOUS
<1>2. PICK m \in S : \A l \in S : l <= m
  BY <1>1, Greatest
<1> QED
  BY <1>2 DEF Max

\* A row that gives a number for f of a request: the number was told of it.
LEMMA GivingIs ==
  ASSUME UsageTyped, NEW f \in Additive, NEW i \in Giving(f)
  PROVE  /\ i \in 1..Len(usageRows) /\ Counted(i) \in RequestIds
         /\ usageRows[i].usage[f] \in Told(Counted(i), f, Len(said))
<1>1. /\ usageRows \in Seq(FactsIn(AllTold)) /\ DOMAIN usageRows = 1..Len(usageRows)
  BY LenProperties DEF UsageTyped
<1>2. /\ i \in 1..Len(usageRows) /\ usageRows[i].scope = "turn"
      /\ usageRows[i].accounting = "delta" /\ f \in DOMAIN usageRows[i].usage
  BY <1>1 DEF Giving, RowsOf
<1> DEFINE x == usageRows[i]
<1>3. x \in FactsIn(AllTold)
  BY <1>1, <1>2, ElementOfSeq
<1>4. x.scope = "turn" /\ x.accounting = "delta" /\ f \in DOMAIN x.usage /\ Counted(i) = x.id
  BY <1>2 DEF Counted
<1> HIDE DEF x
<1>5. x.id \in Ids /\ TrueFact(AllTold, x)
  BY <1>3 DEF FactsIn, FactType
<1>6. x.id # Anonymous /\ x.usage[f] \in AllTold[x.id][f]
  BY <1>4, <1>5 DEF TrueFact
<1>7. x.usage[f] \in Told(x.id, f, Len(said))
  BY <1>5, <1>6 DEF AllTold, UsageFields
<1> QED
  BY <1>2, <1>4, <1>5, <1>6, <1>7 DEF x, RequestIds, Ids

\* What requests are owed is counted.
LEMMA OwedIsGiven ==
  ASSUME UsageTyped, AllReported, Settled, NEW f \in Additive,
         NEW id \in RequestIds, Told(id, f, teller.told) # {}
  PROVE  \E i \in Giving(f) : Counted(i) = id
<1>1. /\ refusals = 0 /\ teller.queue = << >>
      /\ DOMAIN usageRows = 1..Len(usageRows)
  BY LenProperties DEF UsageTyped, Settled
<1>2. PICK j \in 1..teller.told : said[j].id = id /\ f \in DOMAIN said[j].usage
  BY DEF Told
<1>3. id # Anonymous
  BY DEF RequestIds
<1>4. Tells(usageRows, id, f) \/ Tells(teller.queue, id, f)
  BY <1>1, <1>2, <1>3 DEF AllReported
<1>5. ~Tells(teller.queue, id, f)
  BY <1>1 DEF Tells, Range
<1>6. PICK i \in DOMAIN usageRows : Gives(usageRows[i], id, f)
  BY <1>4, <1>5 DEF Tells, Range
<1> QED
  BY <1>6 DEF Gives, Giving, RowsOf, Counted

LEMMA UsageTold == UsageInv => UsageTypeOK /\ CountedOnce
<1> SUFFICES ASSUME UsageInv PROVE UsageTypeOK /\ CountedOnce
  OBVIOUS
<1>1. UsageTyped /\ AllReported
  BY DEF UsageInv
<1>2. UsageTypeOK
  <2>1. \A i \in DOMAIN samples : samples[i].id \in RequestIds \cup {Anonymous}
    <3> SUFFICES ASSUME NEW i \in DOMAIN samples
                 PROVE  samples[i].id \in RequestIds \cup {Anonymous}
      OBVIOUS
    <3>1. samples \in Seq(TrueIn(AllTold)) /\ i \in 1..Len(samples)
      BY <1>1, LenProperties DEF UsageTyped
    <3>2. samples[i] \in TrueIn(AllTold)
      BY <3>1, ElementOfSeq
    <3>3. samples[i].id \in Ids
      BY <3>2 DEF TrueIn, Samples
    <3> QED
      BY <3>3 DEF Ids, RequestIds
  <2> QED
    BY <1>1, <2>1, TellerIs DEF UsageTypeOK, UsageTyped
<1>3. ASSUME NEW f \in Additive
      PROVE  LET all == Len(said)
                 named == {id \in RequestIds : Told(id, f, all) # {}}
                 owed == IF Settled
                           THEN {id \in RequestIds : Told(id, f, teller.told) # {}} ELSE {}
             IN \/ \E counted \in SUBSET named :
                     /\ owed \subseteq counted
                     /\ \E value \in [counted -> UNION {Told(id, f, all) : id \in counted}] :
                          /\ \A id \in counted : value[id] \in Told(id, f, all)
                          /\ Summary(f) = SumFunctionOnSet(value, counted)
                \/ owed = {} /\ Summary(f) \in Told(Anonymous, f, all)
  <2> DEFINE all == Len(said)
             named == {id \in RequestIds : Told(id, f, all) # {}}
             owed == IF Settled
                       THEN {id \in RequestIds : Told(id, f, teller.told) # {}} ELSE {}
             counted == {Counted(i) : i \in Giving(f)}
             value == Deltas(f)
             last == usageRows[Max(RowsOf("snapshot"))].usage
  <2> DEFINE Right(c, v) ==
               /\ owed \subseteq c /\ v \in [c -> UNION {Told(id, f, all) : id \in c}]
               /\ \A id \in c : v[id] \in Told(id, f, all)
               /\ Summary(f) = SumFunctionOnSet(v, c)
  <2> SUFFICES \/ \E c \in SUBSET named : \E v : Right(c, v)
               \/ owed = {} /\ Summary(f) \in Told(Anonymous, f, all)
    OBVIOUS
  <2>1. \A i \in Giving(f) :
          /\ i \in 1..Len(usageRows) /\ Counted(i) \in RequestIds
          /\ usageRows[i].usage[f] \in Told(Counted(i), f, all)
    BY <1>1, GivingIs
  <2>2. counted \in SUBSET named
    BY <2>1
  <2>3. owed \subseteq counted
    BY <1>1, OwedIsGiven
  <2>4. \A id \in counted : value[id] \in Told(id, f, all)
    <3> SUFFICES ASSUME NEW id \in counted PROVE value[id] \in Told(id, f, all)
      OBVIOUS
    <3> DEFINE S == GivingFor(id, f)
    <3>1. S \subseteq 1..Len(usageRows) /\ S # {} /\ Len(usageRows) \in Nat
      BY <1>1, <2>1, LenProperties DEF GivingFor, UsageTyped
    <3>2. Max(S) \in S
      <4> HIDE DEF S
      <4> QED
        BY <3>1, LastRow
    <3>3. Max(S) \in Giving(f) /\ Counted(Max(S)) = id
      BY <3>2 DEF GivingFor
    <3>4. value[id] = usageRows[Max(S)].usage[f]
      BY DEF Deltas
    <3> QED
      BY <2>1, <3>3, <3>4
  <2>5. value \in [counted -> UNION {Told(id, f, all) : id \in counted}] /\ DOMAIN value = counted
    <3>1. value = [id \in counted |-> value[id]]
      BY DEF Deltas
    <3> HIDE DEF value, counted
    <3> QED
      BY <2>4, <3>1
  <2>6. CASE Giving(f) # {}
    <3>1. Summary(f) = SumFunctionOnSet(value, counted)
      BY <2>5, <2>6 DEF Summary
    <3>2. Right(counted, value)
      BY <2>3, <2>4, <2>5, <3>1
    <3> HIDE DEF value, counted, owed, named, Right
    <3> QED
      BY <2>2, <3>2
  <2>7. CASE Giving(f) = {} /\ RowsOf("snapshot") # {} /\ f \in DOMAIN last
    <3> DEFINE m == Max(RowsOf("snapshot"))
               x == usageRows[m]
    <3>1. /\ usageRows \in Seq(FactsIn(AllTold)) /\ DOMAIN usageRows = 1..Len(usageRows)
          /\ Len(usageRows) \in Nat
      BY <1>1, LenProperties DEF UsageTyped
    <3>2. RowsOf("snapshot") \subseteq 1..Len(usageRows)
      BY <3>1 DEF RowsOf
    <3>3. m \in RowsOf("snapshot")
      BY <2>7, <3>1, <3>2, LastRow
    <3>4. x \in FactsIn(AllTold) /\ x.scope = "turn" /\ x.accounting = "snapshot"
      <4> HIDE DEF m
      <4> QED
        BY <3>1, <3>2, <3>3, ElementOfSeq DEF RowsOf
    <3>5. Summary(f) = x.usage[f] /\ f \in DOMAIN x.usage
      BY <2>7 DEF Summary
    <3> HIDE DEF x
    <3>6. x.id = Anonymous /\ Anonymous \in Ids /\ x.usage[f] \in AllTold[x.id][f]
      BY <3>4, <3>5 DEF FactsIn, TrueFact, Ids
    <3>7. x.usage[f] \in Told(Anonymous, f, all)
      BY <3>6 DEF AllTold, UsageFields
    <3>8. owed = {}
      BY <2>3, <2>7
    <3> HIDE DEF owed, all
    <3> QED
      BY <3>5, <3>7, <3>8
  <2>8. CASE Giving(f) = {} /\ ~(RowsOf("snapshot") # {} /\ f \in DOMAIN last)
    <3>1. Summary(f) = 0
      BY <2>8 DEF Summary
    <3>2. counted = {}
      BY <2>8
    <3>3. Summary(f) = SumFunctionOnSet(value, counted)
      <4> HIDE DEF value, counted
      <4> QED
        BY <3>1, <3>2, SumOfNone
    <3>4. Right(counted, value)
      BY <2>3, <2>4, <2>5, <3>3
    <3> HIDE DEF value, counted, owed, named, Right
    <3> QED
      BY <2>2, <3>4
  <2> QED
    BY <2>6, <2>7, <2>8
<1>4. CountedOnce
  BY <1>3 DEF CountedOnce
<1> QED
  BY <1>2, <1>4

LEMMA UsageScenes == Spec => [](scene = "usage" => UsageInv)
<1> DEFINE Inv == scene = "usage" => UsageInv
<1>1. Init => Inv
  BY SceneStarts, UsageStarts
<1>2. Inv /\ [Next]_servicesVars => Inv'
  <2> SUFFICES ASSUME Inv, [Next]_servicesVars, scene' = "usage" PROVE UsageInv'
    OBVIOUS
  <2>1. scene = "usage" /\ [UsageNext]_usageVars
    BY SceneSteps
  <2> QED
    BY <2>1, UsageSteps
<1> QED
  BY <1>1, <1>2, PTL DEF Spec

\* The summary counts each request once, with a number told of it, all requests that
\* were told if nothing was refused, and anonymous numbers only where no request has
\* any: for any updates, repeated, enriched and anonymous, on each of the three routes,
\* in whatever order the rows of one millisecond are read.
THEOREM ServicesUsage == Spec => []UsageStands
<1>1. (scene = "usage" => UsageInv) => UsageStands
  BY UsageTold DEF UsageStands
<1> QED
  BY <1>1, UsageScenes, PTL

=============================================================================
