------------------------ MODULE AgentLifecycleProofs ------------------------
(***************************************************************************)
(* Nothing reaches a state of the life of an agent unvetted, and nothing   *)
(* is active without approval, with any number of agents, pipeline runs    *)
(* and activations; and whatever policy a tenant has put in place, the     *)
(* loop of the policy engine finds the rule that takes precedence.         *)
(***************************************************************************)
EXTENDS AgentLifecycle, Integers, WellFoundedInduction, TLAPS

-----------------------------------------------------------------------------
(* The policy engine: an induction over its loop. *)

\* The naturals have no other subset with 0 that is closed under successor.
LEMMA Induction ==
    ASSUME NEW T \in SUBSET Nat, 0 \in T, \A n \in T : n + 1 \in T
    PROVE  T = Nat
<1> DEFINE less == {mn \in Nat \X Nat : mn[1] < mn[2]}
           U == Nat \ T
<1>1. IsWellFoundedOn(less, Nat)
    BY NatLessThanWellFounded DEF OpToRel
<1>2. SUFFICES ASSUME U # {} PROVE FALSE
    OBVIOUS
<1>3. PICK x \in U : \A y \in U : <<y, x>> \notin less
    BY <1>1, <1>2, WFMin
<1>4. x - 1 \in U
    OBVIOUS
<1>5. <<x - 1, x>> \in less
    BY <1>4
<1> QED
    BY <1>3, <1>4, <1>5

\* The body of the loop.
NextBest(c, input, f, i) ==
    IF i = 0 THEN 0
    ELSE IF /\ Applies(c[i], input)
            /\ f[i - 1] = 0 \/ Beats(c[i], c[f[i - 1]])
         THEN i
    ELSE f[i - 1]

\* There is a function that the equation of the loop describes.
LEMMA BestExists ==
    ASSUME NEW c, NEW input, NEW m \in Nat
    PROVE  \E f \in [0..m -> Nat] : f = [i \in 0..m |-> NextBest(c, input, f, i)]
<1> DEFINE T == {n \in Nat : \E f \in [0..n -> Nat] : \A i \in 0..n : f[i] = NextBest(c, input, f, i)}
<1>1. 0 \in T
  <2> DEFINE f == [i \in 0..0 |-> 0]
  <2>1. f \in [0..0 -> Nat] /\ \A i \in 0..0 : f[i] = NextBest(c, input, f, i)
    BY DEF NextBest
  <2> QED BY <2>1
<1>2. ASSUME NEW n \in T PROVE n + 1 \in T
  <2>1. PICK f \in [0..n -> Nat] : \A i \in 0..n : f[i] = NextBest(c, input, f, i)
    OBVIOUS
  <2> DEFINE v == NextBest(c, input, f, n + 1)
             g == [i \in 0..(n + 1) |-> IF i = n + 1 THEN v ELSE f[i]]
  <2>2. v \in Nat
    BY DEF NextBest
  <2> HIDE DEF v
  <2>3. g \in [0..(n + 1) -> Nat]
    BY <2>2
  <2>4. g[n + 1] = v /\ \A i \in 0..n : g[i] = f[i]
    OBVIOUS
  <2> HIDE DEF g
  <2>5. ASSUME NEW i \in 0..(n + 1) PROVE g[i] = NextBest(c, input, g, i)
    <3>1. NextBest(c, input, g, i) = NextBest(c, input, f, i)
      BY <2>4 DEF NextBest
    <3> QED BY <2>1, <2>4, <2>5, <3>1 DEF v
  <2> QED BY <2>3, <2>5
<1>3. T = Nat
  <2> HIDE DEF T
  <2>1. T \in SUBSET Nat
    BY DEF T
  <2> QED BY <1>1, <1>2, <2>1, Induction
<1>4. PICK f \in [0..m -> Nat] : \A i \in 0..m : f[i] = NextBest(c, input, f, i)
    BY <1>3
<1>5. f = [i \in 0..m |-> NextBest(c, input, f, i)]
    BY <1>4
<1> QED
    BY <1>5

\* So the loop does what its body says.
LEMMA BestLoop ==
    ASSUME NEW c, NEW input, Len(c) \in Nat
    PROVE  LET best == BestSoFar(c, input)
           IN  /\ best[0] = 0
               /\ \A i \in 1..Len(c) :
                    best[i] = IF /\ Applies(c[i], input)
                                 /\ best[i - 1] = 0 \/ Beats(c[i], c[best[i - 1]])
                              THEN i ELSE best[i - 1]
<1> DEFINE best == BestSoFar(c, input)
<1>1. best = CHOOSE f : f = [i \in 0..Len(c) |-> NextBest(c, input, f, i)]
    BY DEF BestSoFar, NextBest
<1>2. \E f : f = [i \in 0..Len(c) |-> NextBest(c, input, f, i)]
    BY BestExists
<1> HIDE DEF best
<1>3. best = [i \in 0..Len(c) |-> NextBest(c, input, best, i)]
    BY <1>1, <1>2
<1>4. best[0] = 0 /\ \A i \in 1..Len(c) : best[i] = NextBest(c, input, best, i) /\ i # 0
    BY <1>3 DEF NextBest
<1> QED
    BY <1>4 DEF NextBest, best

\* Its invariant at the end: the rule found applies and is preferred to every
\* other that does.
LEMMA BestRule ==
    ASSUME NEW c, NEW input, Len(c) \in Nat
    PROVE  LET b == BestOf(c, input)
           IN  /\ b \in 0..Len(c)
               /\ b = 0 => \A j \in 1..Len(c) : ~ Applies(c[j], input)
               /\ b # 0 => /\ Applies(c[b], input)
                           /\ \A j \in 1..Len(c) : Applies(c[j], input) => Preferred(c, b, j)
<1> DEFINE N == Len(c)
           best == BestSoFar(c, input)
           Good(i) == /\ best[i] \in 0..i
                      /\ best[i] = 0 => \A j \in 1..i : ~ Applies(c[j], input)
                      /\ best[i] # 0 => /\ Applies(c[best[i]], input)
                                        /\ \A j \in 1..i : Applies(c[j], input) => Preferred(c, best[i], j)
           T == {n \in Nat : n <= N => Good(n)}
<1>1. /\ best[0] = 0
      /\ \A i \in 1..N : best[i] = IF /\ Applies(c[i], input)
                                      /\ best[i - 1] = 0 \/ Beats(c[i], c[best[i - 1]])
                                   THEN i ELSE best[i - 1]
    BY BestLoop
<1>2. N \in Nat /\ \A rule : specificity(rule) \in Nat
    BY DEF specificity
<1> HIDE DEF best, N
<1>3. 0 \in T
    BY <1>1
<1>4. ASSUME NEW n \in T, n + 1 <= N PROVE Good(n + 1)
  <2>1. Good(n) /\ n \in Nat /\ n + 1 \in 1..N
    BY <1>2, <1>4
  <2> DEFINE old == best[n]
             new == best[n + 1]
  <2>2. new = IF /\ Applies(c[n + 1], input)
                 /\ old = 0 \/ Beats(c[n + 1], c[old])
              THEN n + 1 ELSE old
    BY <1>1, <2>1
  <2>3. /\ old \in 0..n
        /\ old = 0 => \A j \in 1..n : ~ Applies(c[j], input)
        /\ old # 0 => /\ Applies(c[old], input)
                      /\ \A j \in 1..n : Applies(c[j], input) => Preferred(c, old, j)
    BY <2>1
  <2>4. \A j \in 1..(n + 1) : j = n + 1 \/ j \in 1..n
    BY <2>1
  <2> HIDE DEF old, new
  <2>5. CASE Applies(c[n + 1], input) /\ old = 0
    BY <1>2, <2>1, <2>2, <2>3, <2>4, <2>5 DEF Preferred, new
  <2>6. CASE Applies(c[n + 1], input) /\ old # 0 /\ Beats(c[n + 1], c[old])
    <3>1. \A j \in 1..n : Applies(c[j], input) => specificity(c[n + 1]) > specificity(c[j])
      BY <1>2, <2>3, <2>6 DEF Preferred, Beats
    <3> QED BY <1>2, <2>1, <2>2, <2>4, <2>6, <3>1 DEF Preferred, new
  <2>7. CASE ~Applies(c[n + 1], input)
    BY <2>1, <2>2, <2>3, <2>4, <2>7 DEF new
  <2>8. CASE Applies(c[n + 1], input) /\ old # 0 /\ ~Beats(c[n + 1], c[old])
    <3>1. Preferred(c, old, n + 1)
      BY <1>2, <2>1, <2>3, <2>8 DEF Preferred, Beats
    <3>2. new = old
      BY <2>2, <2>8
    <3> QED BY <2>1, <2>3, <2>4, <2>8, <3>1, <3>2 DEF new
  <2> QED BY <2>5, <2>6, <2>7, <2>8
<1>5. T = Nat
  <2>1. \A n \in T : n + 1 \in T
    BY <1>4
  <2>2. T \in SUBSET Nat
    OBVIOUS
  <2> HIDE DEF T
  <2> QED BY <1>3, <2>1, <2>2, Induction
<1>6. Good(N)
  <2>1. N \in T
    BY <1>5 DEF N
  <2> QED BY <2>1 DEF N
<1> QED
    BY <1>6 DEF best, N, BestOf

\* The tenant's rules and the defaults are rules.
LEMMA Candidates ==
    ASSUME NEW policy \in Seq(PolicyRule)
    PROVE  /\ policy \o DEFAULT_RULES \in Seq(PolicyRule)
           /\ Len(policy \o DEFAULT_RULES) \in Nat
<1>1. DEFAULT_RULES \in Seq(PolicyRule)
  <2> DEFINE r1 == Rule("AGENT_ACTIVATE", "*", "REQUIRE_APPROVAL")
             r2 == Rule("*", "RED", "REQUIRE_ESCALATION")
             r3 == Rule("*", "YELLOW", "REQUIRE_APPROVAL")
             r4 == Rule("*", "GREEN", "ALLOW")
  <2>1. r1 \in PolicyRule /\ r2 \in PolicyRule /\ r3 \in PolicyRule /\ r4 \in PolicyRule
    BY ActionsAssumption DEF Rule, PolicyRule, RiskLevels, PolicyDecisions
  <2> HIDE DEF r1, r2, r3, r4
  <2>2. <<r1, r2, r3, r4>> \in Seq(PolicyRule)
    BY <2>1
  <2> QED BY <2>2 DEF DEFAULT_RULES, r1, r2, r3, r4
<1> QED
    BY <1>1

\* Every policy that was validated gives a decision.
LEMMA DecisionTyped ==
    ASSUME NEW policy \in Seq(PolicyRule), NEW input
    PROVE  evaluatePolicy(input, policy) \in PolicyDecisions
<1> DEFINE c == policy \o DEFAULT_RULES
           b == BestOf(c, input)
<1>1. c \in Seq(PolicyRule) /\ Len(c) \in Nat
    BY Candidates
<1> HIDE DEF c
<1>2. b \in 0..Len(c)
    BY <1>1, BestRule
<1> HIDE DEF b
<1>3. b # 0 => c[b] \in PolicyRule
    BY <1>1, <1>2
<1>4. b # 0 => c[b].decision \in PolicyDecisions
    BY <1>3 DEF PolicyRule
<1> QED
    BY <1>4 DEF evaluatePolicy, PolicyDecisions, b, c

\* The loop picks the rule the precedence says.
LEMMA Precedence ==
    ASSUME NEW policy \in Seq(PolicyRule), NEW input
    PROVE  MostSpecificWins(input, policy)
<1> DEFINE c == policy \o DEFAULT_RULES
           b == BestOf(c, input)
<1>1. c \in Seq(PolicyRule) /\ Len(c) \in Nat /\ DOMAIN c = 1..Len(c)
    BY Candidates
<1>2. evaluatePolicy(input, policy) = IF b = 0 THEN "REQUIRE_ESCALATION" ELSE c[b].decision
    BY DEF evaluatePolicy
<1> HIDE DEF c
<1>3. /\ b \in 0..Len(c)
      /\ b = 0 => \A j \in 1..Len(c) : ~ Applies(c[j], input)
      /\ b # 0 => /\ Applies(c[b], input)
                  /\ \A j \in 1..Len(c) : Applies(c[j], input) => Preferred(c, b, j)
    BY <1>1, BestRule
<1> HIDE DEF b
<1>4. \A rule : specificity(rule) \in Nat
    BY DEF specificity
<1>5. ASSUME NEW i \in DOMAIN c, Applies(c[i], input),
             \A j \in DOMAIN c : Applies(c[j], input) => Preferred(c, i, j)
      PROVE  evaluatePolicy(input, policy) = c[i].decision
  <2>1. b \in DOMAIN c /\ Preferred(c, b, i) /\ Preferred(c, i, b)
    BY <1>1, <1>3, <1>5
  <2>2. i = b
    BY <1>1, <1>4, <2>1 DEF Preferred
  <2> QED BY <1>1, <1>2, <2>2
<1> QED
    BY <1>5 DEF MostSpecificWins, c

-----------------------------------------------------------------------------
(* Agents. *)

\* The tables of the pipeline.
LEMMA Ranks ==
    ASSUME NEW s \in LifecycleStates
    PROVE  /\ Rank[s] >= 2 <=> s # "DRAFT"
           /\ Rank[s] >= 3 <=> s \notin {"DRAFT", "SANDBOX"}
           /\ Rank[s] >= 4 <=> s \in {"EVALUATED", "APPROVED", "ACTIVE"}
           /\ Rank[s] >= 5 <=> s \in {"APPROVED", "ACTIVE"}
<1>1. /\ Rank["DRAFT"] = 1 /\ Rank["SANDBOX"] = 2 /\ Rank["TESTED"] = 3
      /\ Rank["EVALUATED"] = 4 /\ Rank["APPROVED"] = 5 /\ Rank["ACTIVE"] = 6
    BY DEF Rank
<1> QED
    BY <1>1 DEF LifecycleStates

LEMMA Steps ==
    /\ Previous["SANDBOX"] = "DRAFT" /\ Previous["TESTED"] = "SANDBOX"
    /\ Previous["EVALUATED"] = "TESTED" /\ Previous["APPROVED"] = "EVALUATED"
    /\ Following["SANDBOX"] = "TESTED" /\ Following["TESTED"] = "EVALUATED"
    /\ Following["EVALUATED"] = "APPROVED"
BY DEF Previous, Following

\* The policy in place was validated.
LEMMA RulesTyped == ASSUME TypeOK PROVE rules \in Seq(PolicyRule)
<1>1. CASE rules = <<>>
    BY <1>1
<1>2. CASE rules \in Policies
    BY <1>2, SpecificationAssumption
<1> QED
    BY <1>1, <1>2 DEF TypeOK

\* Scores are numbers.
LEMMA ScoreIsNat ==
    ASSUME NEW s \in Specifications PROVE EvaluationScore(s) \in Nat
BY SpecificationAssumption DEF EvaluationScore, AgentSpec

-----------------------------------------------------------------------------
\* No step takes back what an agent has passed.
Grows ==
    /\ recorded \subseteq recorded'
    /\ \A a \in Agents : lifecycle[a] # "absent" =>
          /\ lifecycle'[a] # "absent" /\ specification'[a] = specification[a]
          /\ score'[a] = score[a] \/ score'[a] = EvaluationScore(specification[a])

LEMMA VettedStays ==
    ASSUME Grows, NEW a \in Agents, lifecycle[a] # "absent", NEW s \in LifecycleStates, Vetted(a, s)
    PROVE  Vetted(a, s)'
BY Ranks DEF Grows, Vetted

\* A run that does not move stays vetted.
LEMMA RunStays ==
    ASSUME IInv, Grows, NEW p \in Runs, run'[p] = run[p]
    PROVE  RunVetted(p)' /\ (run'[p].verdict # None => <<run'[p].agent, run'[p].verdict>> \in recorded')
<1>1. RunVetted(p) /\ run[p] \in Run
    BY DEF IInv, RunsVetted, TypeOK
<1>2. CASE run[p].pc = "write"
    <2> DEFINE a == run[p].agent
    <2>1. /\ a \in Agents /\ lifecycle[a] # "absent" /\ run[p].to \in StepsTo
          /\ run[p].seen = Previous[run[p].to] /\ Vetted(a, run[p].seen) /\ PassesGate(p)
        BY <1>1, <1>2 DEF RunVetted, Run
    <2>2. run[p].seen \in LifecycleStates
        BY <2>1, Steps DEF StepsTo, LifecycleStates
    <2>3. Vetted(a, run[p].seen)'
        BY <2>1, <2>2, VettedStays
    <2>4. PassesGate(p)'
        BY <2>1 DEF PassesGate, Grows, IInv, ScoresComputed
    <2> QED
        BY <1>1, <1>2, <2>1, <2>3, <2>4 DEF RunVetted, Grows, IInv, VerdictsRecorded
<1>3. CASE run[p].pc # "write"
    BY <1>1, <1>3 DEF RunVetted, Run, Grows, IInv, VerdictsRecorded
<1> QED
    BY <1>2, <1>3

\* What a step has to show: that it forgets nothing, and that what it changed
\* is in order.
LEMMA Assemble ==
    ASSUME IInv, TypeOK', Grows, RowsExist', ScoresComputed',
           \A r \in Requests : decision[r] = "APPROVED" => decision'[r] = "APPROVED",
           \A v \in Versions :
               /\ versionState[v] # "absent" => versionState'[v] # "absent"
               /\ versionState[v] = "ACTIVE" => versionState'[v] = "ACTIVE",
           \A p \in Runs : run'[p] # run[p] =>
               /\ RunVetted(p)'
               /\ run'[p].verdict # None => <<run'[p].agent, run'[p].verdict>> \in recorded',
           \A a \in Agents : lifecycle'[a] \notin {lifecycle[a], "ACTIVE"} => Vetted(a, lifecycle[a])',
           \A x \in Activations : activating'[x] \notin {activating[x], None} =>
               /\ versionState'[activating'[x]] # "absent" /\ lifecycle'[AgentOf[activating'[x]]] # "absent"
               /\ \E r \in Requests : ActivationOf[r] = AgentOf[activating'[x]] /\ decision'[r] = "APPROVED",
           \A a \in Agents : active'[a] # active[a] =>
               /\ AgentOf[active'[a]] = a /\ versionState'[active'[a]] = "ACTIVE"
               /\ \E r \in Requests : ActivationOf[r] = a /\ decision'[r] = "APPROVED"
    PROVE  IInv'
<1>1. RunsVetted' /\ VerdictsRecorded'
    BY RunStays DEF RunsVetted, VerdictsRecorded
<1>2. VettedStates'
    <2> SUFFICES ASSUME NEW a \in Agents, lifecycle'[a] \notin {"absent", "ACTIVE"}
                 PROVE  Vetted(a, lifecycle[a])'
        BY DEF VettedStates
    <2>1. CASE lifecycle'[a] = lifecycle[a]
        <3>1. lifecycle[a] \in LifecycleStates /\ Vetted(a, lifecycle[a])
            BY <2>1 DEF IInv, TypeOK, VettedStates
        <3> DEFINE s == lifecycle[a]
        <3>2. ASSUME NEW t \in LifecycleStates, t = s PROVE Vetted(a, t)'
            BY <2>1, <3>1, <3>2, VettedStays
        <3> QED
            BY <2>1, <3>1, <3>2 DEF Vetted
    <2> QED
        BY <2>1
<1>3. ActivationsApproved'
    <2> SUFFICES ASSUME NEW x \in Activations, activating'[x] # None
                 PROVE  /\ versionState'[activating'[x]] # "absent"
                        /\ lifecycle'[AgentOf[activating'[x]]] # "absent"
                        /\ \E r \in Requests : /\ ActivationOf[r] = AgentOf[activating'[x]]
                                               /\ decision'[r] = "APPROVED"
        BY DEF ActivationsApproved
    <2>1. CASE activating'[x] = activating[x]
        <3> DEFINE v == activating[x]
        <3>1. /\ v \in Versions /\ versionState[v] # "absent" /\ lifecycle[AgentOf[v]] # "absent"
              /\ AgentOf[v] \in Agents
              /\ \E r \in Requests : ActivationOf[r] = AgentOf[v] /\ decision[r] = "APPROVED"
            BY <2>1, SpecificationAssumption DEF IInv, TypeOK, ActivationsApproved
        <3> QED
            BY <2>1, <3>1 DEF Grows
    <2> QED
        BY <2>1
<1>4. ActiveApproved'
    BY DEF IInv, TypeOK, ActiveApproved
<1> QED
    BY <1>1, <1>2, <1>3, <1>4 DEF IInv
-----------------------------------------------------------------------------
LEMMA InitInv == Init => IInv
<1> SUFFICES ASSUME Init PROVE IInv
    OBVIOUS
<1>1. IdleRun \in Run /\ IdleRun.pc = "idle" /\ IdleRun.verdict = None
    BY DEF IdleRun, Run
<1>2. TypeOK
    BY <1>1 DEF Init, TypeOK, Approval!Init, Approval!TypeOK
<1>3. RunsVetted /\ VerdictsRecorded
    BY <1>1 DEF Init, RunsVetted, RunVetted, VerdictsRecorded
<1> QED
    BY <1>2, <1>3 DEF Init, IInv, ActivationsApproved, ScoresComputed, RowsExist, ActiveApproved, VettedStates

\* An approved request stays approved.
LEMMA ApprovalStays ==
    ASSUME IInv, Approval!Next
    PROVE  /\ Approval!TypeOK'
           /\ \A r \in Requests : decision[r] = "APPROVED" => decision'[r] = "APPROVED"
<1>1. Approval!TypeOK
    BY DEF IInv, TypeOK
<1>2. ASSUME NEW r \in Requests, Approval!Create(r) \/ Approval!Elapse(r)
      PROVE  /\ Approval!TypeOK'
             /\ \A q \in Requests : decision[q] = "APPROVED" => decision'[q] = "APPROVED"
    BY <1>1, <1>2 DEF Approval!TypeOK, Approval!Create, Approval!Elapse, Approval!Verdicts
<1>3. ASSUME NEW S \in SUBSET Requests, NEW v \in Approval!Verdicts, Approval!Settle(S, v)
      PROVE  /\ Approval!TypeOK'
             /\ \A q \in Requests : decision[q] = "APPROVED" => decision'[q] = "APPROVED"
    BY <1>1, <1>3 DEF Approval!TypeOK, Approval!Settle, Approval!Verdicts
<1> QED
    BY <1>2, <1>3 DEF Approval!Next

\* Steps that only touch approvals, policies or tools.
LEMMA ElsewhereInv ==
    ASSUME IInv, UNCHANGED <<registry, recorded, run, activating>>,
           rules' \in Policies \cup {<<>>}, enabled' \subseteq Tools, Approval!Next \/ UNCHANGED approvals
    PROVE  IInv'
<1>1. /\ Approval!TypeOK'
      /\ \A r \in Requests : decision[r] = "APPROVED" => decision'[r] = "APPROVED"
    BY ApprovalStays DEF IInv, TypeOK, approvals, Approval!TypeOK
<1>2. TypeOK' /\ Grows /\ RowsExist' /\ ScoresComputed'
    BY <1>1 DEF registry, IInv, TypeOK, Grows, RowsExist, ScoresComputed
<1> QED
    BY <1>1, <1>2, Assemble DEF registry

\* Steps of the routes: they leave pipeline runs and decisions alone.
LEMMA CreateAgentInv ==
    ASSUME IInv, NEW a \in Agents, NEW s \in Specifications, CreateAgent(a, s) PROVE IInv'
<1>1. TypeOK' /\ Grows
    BY DEF CreateAgent, approvals, IInv, TypeOK, Grows, LifecycleStates, Approval!TypeOK
<1>2. RowsExist' /\ ScoresComputed'
    BY NoneAssumption DEF CreateAgent, IInv, TypeOK, RowsExist, ScoresComputed
<1>3. \A b \in Agents : lifecycle'[b] \notin {lifecycle[b], "ACTIVE"} => Vetted(b, lifecycle[b])'
    <2> SUFFICES ASSUME NEW b \in Agents, lifecycle'[b] # lifecycle[b] PROVE Vetted(b, lifecycle[b])'
        OBVIOUS
    <2>1. lifecycle'[b] = "DRAFT"
        BY DEF CreateAgent, IInv, TypeOK
    <2>2. Rank["DRAFT"] = 1
        BY DEF Rank
    <2> QED
        BY <2>1, <2>2 DEF Vetted
<1> QED
    BY <1>1, <1>2, <1>3, Assemble DEF CreateAgent, approvals

LEMMA CreateVersionInv ==
    ASSUME IInv, NEW v \in Versions, NEW s \in {"DRAFT", "ACTIVE"}, CreateVersion(v, s) PROVE IInv'
<1>1. TypeOK' /\ Grows
    BY DEF CreateVersion, approvals, IInv, TypeOK, Grows, LifecycleStates, Approval!TypeOK
<1>2. RowsExist' /\ ScoresComputed'
    BY DEF CreateVersion, IInv, TypeOK, RowsExist, ScoresComputed
<1>3. \A w \in Versions :
          /\ versionState[w] # "absent" => versionState'[w] # "absent"
          /\ versionState[w] = "ACTIVE" => versionState'[w] = "ACTIVE"
    BY DEF CreateVersion, IInv, TypeOK
<1> QED
    BY <1>1, <1>2, <1>3, Assemble DEF CreateVersion, approvals

LEMMA ReadApprovalInv ==
    ASSUME IInv, NEW x \in Activations, NEW v \in Versions, ReadApproval(x, v) PROVE IInv'
<1>1. TypeOK' /\ Grows
    BY DEF ReadApproval, approvals, registry, IInv, TypeOK, Grows, Approval!TypeOK
<1>2. RowsExist' /\ ScoresComputed'
    BY DEF ReadApproval, registry, IInv, RowsExist, ScoresComputed
<1>3. \A y \in Activations : activating'[y] # activating[y] => activating'[y] = v
    BY DEF ReadApproval, IInv, TypeOK
<1>4. /\ versionState[v] # "absent" /\ lifecycle[AgentOf[v]] # "absent"
      /\ \E r \in Requests : ActivationOf[r] = AgentOf[v] /\ decision[r] = "APPROVED"
    BY DEF ReadApproval, ActivationApproved, IInv, RowsExist
<1> QED
    BY <1>1, <1>2, <1>3, <1>4, Assemble DEF ReadApproval, approvals, registry

LEMMA ActivateInv == ASSUME IInv, NEW x \in Activations, Activate(x) PROVE IInv'
<1> DEFINE v == activating[x]
<1>1. /\ v \in Versions /\ AgentOf[v] \in Agents
      /\ versionState[v] # "absent" /\ lifecycle[AgentOf[v]] # "absent"
      /\ \E r \in Requests : ActivationOf[r] = AgentOf[v] /\ decision[r] = "APPROVED"
    BY SpecificationAssumption DEF Activate, IInv, TypeOK, ActivationsApproved
<1>2. /\ versionState' = [versionState EXCEPT ![v] = "ACTIVE"]
      /\ active' = [active EXCEPT ![AgentOf[v]] = v]
      /\ lifecycle' = [lifecycle EXCEPT ![AgentOf[v]] = "ACTIVE"]
      /\ activating' = [activating EXCEPT ![x] = None]
      /\ UNCHANGED <<approvals, specification, score, rules, enabled, recorded, run>>
    BY DEF Activate
<1> HIDE DEF v
<1>3. TypeOK' /\ Grows
    BY <1>1, <1>2 DEF approvals, IInv, TypeOK, Grows, LifecycleStates, Approval!TypeOK
<1>4. RowsExist' /\ ScoresComputed'
    BY <1>1, <1>2 DEF IInv, TypeOK, RowsExist, ScoresComputed
<1>5. \A a \in Agents : active'[a] # active[a] => a = AgentOf[v] /\ active'[a] = v
    BY <1>1, <1>2 DEF IInv, TypeOK
<1>6. /\ \A w \in Versions : versionState'[w] \in {versionState[w], "ACTIVE"}
      /\ versionState'[v] = "ACTIVE"
    BY <1>1, <1>2 DEF IInv, TypeOK
<1>7. /\ \A y \in Activations : activating'[y] \in {activating[y], None}
      /\ \A a \in Agents : lifecycle'[a] \in {lifecycle[a], "ACTIVE"}
    BY <1>1, <1>2 DEF IInv, TypeOK
<1> QED
    BY <1>1, <1>2, <1>3, <1>4, <1>5, <1>6, <1>7, Assemble DEF approvals

LEMMA ActivateFailsInv == ASSUME IInv, NEW x \in Activations, ActivateFails(x) PROVE IInv'
<1>1. TypeOK' /\ Grows
    BY DEF ActivateFails, approvals, registry, IInv, TypeOK, Grows, Approval!TypeOK
<1>2. RowsExist' /\ ScoresComputed'
    BY DEF ActivateFails, registry, IInv, RowsExist, ScoresComputed
<1>3. \A y \in Activations : activating'[y] \in {activating[y], None}
    BY DEF ActivateFails, IInv, TypeOK
<1> QED
    BY <1>1, <1>2, <1>3, Assemble DEF ActivateFails, approvals, registry

-----------------------------------------------------------------------------
\* A step of a pipeline run has to show that the run and its agent are in order.
LEMMA RunStepInv ==
    ASSUME IInv, TypeOK', Grows, RowsExist', ScoresComputed',
           UNCHANGED <<approvals, active, versionState, activating>>,
           NEW p \in Runs, \A q \in Runs \ {p} : run'[q] = run[q],
           RunVetted(p)', run'[p].verdict # None => <<run'[p].agent, run'[p].verdict>> \in recorded',
           \A a \in Agents : lifecycle'[a] # lifecycle[a] => Vetted(a, lifecycle[a])'
    PROVE  IInv'
BY Assemble DEF approvals

\* ... and one that only moves the run, that the run is.
LEMMA RunMovesInv ==
    ASSUME IInv, UNCHANGED <<approvals, registry, rules, enabled, activating>>,
           recorded \subseteq recorded', recorded' \subseteq Agents \X PolicyDecisions,
           NEW p \in Runs, NEW s \in Run, run' = [run EXCEPT ![p] = s],
           RunVetted(p)', s.verdict # None => <<s.agent, s.verdict>> \in recorded'
    PROVE  IInv'
<1>1. TypeOK' /\ Grows /\ RowsExist' /\ ScoresComputed'
    BY DEF approvals, registry, IInv, TypeOK, Grows, RowsExist, ScoresComputed, Approval!TypeOK
<1>2. run'[p] = s /\ \A q \in Runs \ {p} : run'[q] = run[q]
    BY DEF IInv, TypeOK
<1> QED
    BY <1>1, <1>2, RunStepInv DEF registry

\* What is known of a run and its agent.
LEMMA RunFacts ==
    ASSUME IInv, NEW p \in Runs, run[p].pc # "idle"
    PROVE  /\ run[p] \in Run /\ run[p].agent \in Agents
           /\ lifecycle[run[p].agent] \in LifecycleStates
           /\ specification[run[p].agent] \in Specifications
           /\ RunVetted(p)
BY DEF IInv, TypeOK, RunsVetted, RunVetted, Run, RowsExist

LEMMA StartInv ==
    ASSUME IInv, NEW p \in Runs, NEW a \in Agents, NEW to \in {"SANDBOX"} \cup StepsTo, Start(p, a, to)
    PROVE  IInv'
<1> DEFINE s == [IdleRun EXCEPT !.agent = a, !.to = to, !.pc = IF to = "SANDBOX" THEN "vet" ELSE "read"]
<1>1. /\ s \in Run /\ s.agent = a /\ s.to = to /\ s.verdict = None
      /\ s.pc = IF to = "SANDBOX" THEN "vet" ELSE "read"
    BY DEF IdleRun, Run
<1>2. run' = [run EXCEPT ![p] = s] /\ lifecycle[a] # "absent"
      /\ UNCHANGED <<approvals, registry, rules, enabled, recorded, activating>>
    BY DEF Start
<1> HIDE DEF s
<1>3. run'[p] = s
    BY <1>2 DEF IInv, TypeOK
<1>4. RunVetted(p)'
    BY <1>1, <1>2, <1>3, NoneAssumption DEF RunVetted, registry
<1> QED
    BY <1>1, <1>2, <1>4, RunMovesInv DEF IInv, TypeOK

LEMMA VetInv == ASSUME IInv, NEW p \in Runs, Vet(p) PROVE IInv'
<1> DEFINE a == run[p].agent
           s == [run[p] EXCEPT !.pc = IF Verdict(a) = "ALLOW" THEN "sandbox" ELSE "blocked",
                               !.verdict = Verdict(a), !.seen = lifecycle[a]]
<1>1. /\ run[p] \in Run /\ a \in Agents /\ lifecycle[a] \in LifecycleStates
      /\ specification[a] \in Specifications /\ run[p].pc = "vet" /\ run[p].to = "SANDBOX"
    BY RunFacts DEF Vet, RunVetted
<1>2. run[p].verdict \in PolicyDecisions \cup {None}
    BY <1>1 DEF Run
<1>3. Verdict(a) \in PolicyDecisions
    BY RulesTyped, DecisionTyped DEF Verdict, IInv
<1>4. /\ s \in Run /\ s.agent = a /\ s.to = "SANDBOX" /\ s.verdict = Verdict(a)
      /\ s.pc = (IF Verdict(a) = "ALLOW" THEN "sandbox" ELSE "blocked") /\ s.seen = lifecycle[a]
    BY <1>1, <1>3 DEF Run
<1>5. lifecycle[a] = "DRAFT"
    BY <1>1, Steps DEF Vet, InExpectedState
<1>6. /\ run' = [run EXCEPT ![p] = s] /\ recorded' = recorded \cup {<<a, Verdict(a)>>}
      /\ UNCHANGED <<approvals, registry, rules, enabled, activating>>
    BY <1>1 DEF Vet, RecordDecision, IInv, TypeOK
<1> HIDE DEF a, s
<1>7. run'[p] = s
    BY <1>6 DEF IInv, TypeOK
<1>8. RunVetted(p)'
    BY <1>1, <1>4, <1>5, <1>6, <1>7, NoneAssumption DEF RunVetted, registry
<1> QED
    <2>1. a \in Agents
        BY <1>1 DEF a
    <2>2. recorded \subseteq recorded' /\ recorded' \subseteq Agents \X PolicyDecisions
        BY <1>3, <1>6, <2>1 DEF IInv, TypeOK
    <2>3. <<s.agent, s.verdict>> \in recorded'
        BY <1>4, <1>6
    <2> QED
        BY <1>4, <1>6, <1>8, <2>2, <2>3, RunMovesInv

LEMMA ReadAgentInv == ASSUME IInv, NEW p \in Runs, ReadAgent(p) PROVE IInv'
<1> DEFINE a == run[p].agent
           s == [run[p] EXCEPT !.pc = "write", !.seen = lifecycle[a]]
<1>1. /\ run[p] \in Run /\ a \in Agents /\ lifecycle[a] \in LifecycleStates
      /\ run[p].pc = "read" /\ run[p].to \in StepsTo
    BY RunFacts DEF ReadAgent, RunVetted
<1>2. lifecycle[a] = Previous[run[p].to] /\ PassesGate(p)
    BY DEF ReadAgent, InExpectedState
<1>3. lifecycle[a] \in LifecycleStates \ {"ACTIVE"} /\ Vetted(a, lifecycle[a])
    BY <1>1, <1>2, Steps DEF StepsTo, LifecycleStates, IInv, VettedStates
<1>4. /\ s \in Run /\ s.agent = a /\ s.to = run[p].to /\ s.pc = "write" /\ s.seen = lifecycle[a]
      /\ s.verdict = run[p].verdict
    BY <1>1 DEF Run
<1>5. /\ run' = [run EXCEPT ![p] = s]
      /\ UNCHANGED <<approvals, registry, rules, enabled, recorded, activating>>
    BY <1>1 DEF ReadAgent, IInv, TypeOK
<1>6. s.verdict # None => <<s.agent, s.verdict>> \in recorded
    BY <1>4 DEF IInv, VerdictsRecorded, a
<1> HIDE DEF s
<1>7. run'[p] = s
    BY <1>5 DEF IInv, TypeOK
<1>8. PassesGate(p)' /\ Vetted(a, lifecycle[a])'
    BY <1>2, <1>3, <1>4, <1>5, <1>7 DEF PassesGate, Vetted, registry
<1>9. RunVetted(p)'
    <2>1. run'[p].agent = a /\ run'[p].seen = lifecycle'[a] /\ lifecycle'[a] = lifecycle[a]
        BY <1>4, <1>5, <1>7 DEF registry
    <2>2. Vetted(run[p].agent, run[p].seen)'
        BY <1>8, <2>1 DEF Vetted
    <2> QED
        BY <1>1, <1>2, <1>4, <1>7, <1>8, <2>1, <2>2, NoneAssumption DEF RunVetted, LifecycleStates
<1> QED
    BY <1>4, <1>5, <1>6, <1>9, RunMovesInv DEF IInv, TypeOK

\* A run that goes on reads next, or is through.
LEMMA GoOnFacts ==
    ASSUME IInv, NEW p \in Runs, run[p].pc # "idle", GoOn(p), lifecycle'[run[p].agent] # "absent"
    PROVE  /\ run' \in [Runs -> Run] /\ \A q \in Runs \ {p} : run'[q] = run[q]
           /\ RunVetted(p)' /\ run'[p].verdict = None
<1> DEFINE n == [run[p] EXCEPT !.pc = "read", !.to = Following[run[p].to], !.verdict = None, !.seen = None]
           s == IF run[p].to = "APPROVED" THEN IdleRun ELSE n
<1>1. run[p] \in Run /\ run[p].agent \in Agents
    BY RunFacts
<1>2. CASE run[p].to = "APPROVED"
    BY <1>2 DEF IdleRun, Run, GoOn, IInv, TypeOK, RunVetted
<1>3. CASE run[p].to # "APPROVED"
    <2>1. Following[run[p].to] \in StepsTo
        BY <1>1, <1>3, Steps DEF Run, StepsTo
    <2>2. /\ n \in Run /\ n.pc = "read" /\ n.to \in StepsTo /\ n.agent = run[p].agent
          /\ n.verdict = None
        BY <1>1, <2>1 DEF Run
    <2>3. run' = [run EXCEPT ![p] = n]
        BY <1>3 DEF GoOn, IInv, TypeOK
    <2> HIDE DEF n
    <2> QED
        BY <1>1, <2>2, <2>3, NoneAssumption DEF IInv, TypeOK, RunVetted
<1> QED
    BY <1>2, <1>3

LEMMA SandboxInv == ASSUME IInv, NEW p \in Runs, Sandbox(p) PROVE IInv'
<1> DEFINE a == run[p].agent
<1>1. /\ a \in Agents /\ lifecycle[a] # "absent" /\ run[p].pc = "sandbox" /\ run[p].verdict = "ALLOW"
    BY RunFacts DEF Sandbox, RunVetted
<1>2. <<a, "ALLOW">> \in recorded
    BY <1>1, NoneAssumption DEF IInv, VerdictsRecorded, PolicyDecisions
<1>3. /\ lifecycle' = [lifecycle EXCEPT ![a] = "SANDBOX"] /\ GoOn(p)
      /\ UNCHANGED <<approvals, specification, score, active, versionState, rules, enabled, recorded,
                     activating>>
    BY DEF Sandbox
<1>4. lifecycle'[a] = "SANDBOX" /\ \A b \in Agents \ {a} : lifecycle'[b] = lifecycle[b]
    BY <1>1, <1>3 DEF IInv, TypeOK
<1>5. /\ run' \in [Runs -> Run] /\ \A q \in Runs \ {p} : run'[q] = run[q]
      /\ RunVetted(p)' /\ run'[p].verdict = None
    BY <1>1, <1>3, <1>4, GoOnFacts
<1> HIDE DEF a
<1>6. TypeOK' /\ Grows /\ RowsExist' /\ ScoresComputed'
    BY <1>1, <1>3, <1>4, <1>5
       DEF approvals, IInv, TypeOK, Grows, RowsExist, ScoresComputed, Approval!TypeOK, LifecycleStates
<1>7. \A b \in Agents : lifecycle'[b] # lifecycle[b] => Vetted(b, lifecycle[b])'
    <2>1. Rank["SANDBOX"] = 2
        BY DEF Rank
    <2>2. ASSUME NEW b \in Agents, b = a PROVE Vetted(b, lifecycle[b])'
        BY <1>2, <1>3, <1>4, <2>1, <2>2 DEF Vetted
    <2> QED
        BY <1>4, <2>2
<1> QED
    BY <1>3, <1>5, <1>6, <1>7, RunStepInv

LEMMA WriteAgentInv == ASSUME IInv, NEW p \in Runs, WriteAgent(p) PROVE IInv'
<1> DEFINE a == run[p].agent
           to == run[p].to
<1>1. /\ a \in Agents /\ lifecycle[a] # "absent" /\ specification[a] \in Specifications
      /\ run[p].pc = "write" /\ to \in StepsTo
      /\ run[p].seen = Previous[to] /\ Vetted(a, run[p].seen) /\ PassesGate(p)
    BY RunFacts DEF WriteAgent, RunVetted
<1>2. /\ lifecycle' = [lifecycle EXCEPT ![a] = to] /\ GoOn(p)
      /\ score' = IF to = "EVALUATED" THEN [score EXCEPT ![a] = EvaluationScore(specification[a])]
                                      ELSE score
      /\ UNCHANGED <<approvals, specification, active, versionState, rules, enabled, recorded,
                     activating>>
    BY DEF WriteAgent
<1>3. lifecycle'[a] = to /\ \A b \in Agents \ {a} : lifecycle'[b] = lifecycle[b]
    BY <1>1, <1>2 DEF IInv, TypeOK
<1>4. /\ score' \in [Agents -> Nat \cup {None}] /\ \A b \in Agents \ {a} : score'[b] = score[b]
      /\ score'[a] = IF to = "EVALUATED" THEN EvaluationScore(specification[a]) ELSE score[a]
    BY <1>1, <1>2, ScoreIsNat DEF IInv, TypeOK
<1>5. /\ run' \in [Runs -> Run] /\ \A q \in Runs \ {p} : run'[q] = run[q]
      /\ RunVetted(p)' /\ run'[p].verdict = None
    BY <1>1, <1>2, <1>3, GoOnFacts DEF StepsTo
<1>6. TypeOK' /\ Grows /\ RowsExist' /\ ScoresComputed'
    BY <1>1, <1>2, <1>3, <1>4, <1>5
       DEF approvals, IInv, TypeOK, Grows, RowsExist, ScoresComputed, Approval!TypeOK, LifecycleStates, StepsTo
<1>7. \A b \in Agents : lifecycle'[b] # lifecycle[b] => Vetted(b, lifecycle[b])'
    <2>1. /\ <<a, "ALLOW">> \in recorded
          /\ to = "TESTED" \/ SchemasValid(specification[a])
          /\ to = "APPROVED" => score[a] = EvaluationScore(specification[a])
        BY <1>1, Steps, Ranks DEF StepsTo, Vetted, LifecycleStates
    <2>2. /\ SchemasValid(specification[a])
          /\ to = "APPROVED" => score[a] >= minScore
        BY <1>1, <2>1 DEF PassesGate
    <2>3. to \in LifecycleStates \ {"ACTIVE"}
        BY <1>1 DEF StepsTo, LifecycleStates
    <2>4. ASSUME NEW b \in Agents, b = a PROVE Vetted(b, lifecycle[b])'
        BY <1>1, <1>2, <1>3, <1>4, <2>1, <2>2, <2>3, <2>4, Ranks DEF Vetted, StepsTo
    <2> QED
        BY <1>3, <2>4
<1> QED
    BY <1>2, <1>5, <1>6, <1>7, RunStepInv

LEMMA StopRunInv == ASSUME IInv, NEW p \in Runs, StopRun(p) PROVE IInv'
<1>1. IdleRun \in Run /\ IdleRun.pc = "idle" /\ IdleRun.verdict = None
    BY DEF IdleRun, Run
<1>2. /\ run' = [run EXCEPT ![p] = IdleRun]
      /\ UNCHANGED <<approvals, registry, rules, enabled, recorded, activating>>
    BY DEF StopRun
<1>3. RunVetted(p)'
    BY <1>1, <1>2 DEF RunVetted, IInv, TypeOK
<1> QED
    BY <1>1, <1>2, <1>3, RunMovesInv DEF IInv, TypeOK

-----------------------------------------------------------------------------
\* Every step keeps the invariant.
LEMMA NextInv == IInv /\ [Next]_vars => IInv'
<1> SUFFICES ASSUME IInv, [Next]_vars PROVE IInv'
    OBVIOUS
<1>1. ASSUME NEW a \in Agents, NEW s \in Specifications, CreateAgent(a, s) PROVE IInv'
    BY <1>1, CreateAgentInv
<1>2. ASSUME NEW v \in Versions, NEW s \in {"DRAFT", "ACTIVE"}, CreateVersion(v, s) PROVE IInv'
    BY <1>2, CreateVersionInv
<1>3. ASSUME NEW x \in Activations, NEW v \in Versions, ReadApproval(x, v) PROVE IInv'
    BY <1>3, ReadApprovalInv
<1>4. ASSUME NEW x \in Activations, Activate(x) \/ ActivateFails(x) PROVE IInv'
    BY <1>4, ActivateInv, ActivateFailsInv
<1>5. ASSUME NEW p \in Runs, Pipeline(p) PROVE IInv'
    BY <1>5, StartInv, VetInv, SandboxInv, ReadAgentInv, WriteAgentInv, StopRunInv DEF Pipeline
<1>6. ASSUME NEW new \in Policies, UpsertPolicy(new) PROVE IInv'
    BY <1>6, ElsewhereInv DEF UpsertPolicy, IInv, TypeOK
<1>7. ASSUME NEW t \in Tools, ToggleTool(t) PROVE IInv'
    BY <1>7, ElsewhereInv DEF ToggleTool, IInv, TypeOK
<1>8. CASE Approving
    BY <1>8, ElsewhereInv DEF Approving, IInv, TypeOK
<1>9. CASE UNCHANGED vars
    BY <1>9, ElsewhereInv DEF vars, approvals, registry, IInv, TypeOK
<1> QED
    BY <1>1, <1>2, <1>3, <1>4, <1>5, <1>6, <1>7, <1>8, <1>9 DEF Next

\* The inductive invariant, from which the theorems below follow.
THEOREM Invariance == Spec => []IInv
BY InitInv, NextInv, PTL DEF Spec

\* An active version is one of the agent's own, and an AGENT_ACTIVATE request
\* for that agent is APPROVED, whatever interleaves.
THEOREM ActiveIsApproved == Spec => []ActiveApproved
<1>1. IInv => ActiveApproved
    BY DEF IInv
<1> QED
    BY Invariance, <1>1, PTL

\* No pipeline run, however many overlap, puts an agent in a state whose checks
\* it has not passed.
THEOREM StatesAreVetted == Spec => []VettedStates
<1>1. IInv => VettedStates
    BY DEF IInv
<1> QED
    BY Invariance, <1>1, PTL

\* A verdict a run has acted on, also one that blocked it, is on record.
THEOREM VerdictsAreRecorded == Spec => []VerdictsRecorded
<1>1. IInv => VerdictsRecorded
    BY DEF IInv
<1> QED
    BY Invariance, <1>1, PTL

\* Only a run that another one or an activation overtook moves an agent back.
THEOREM OvertakenMovesBack == Spec => MovesForward
<1> DEFINE Back(a) == lifecycle[a] # "absent" /\ Rank[lifecycle'[a]] < Rank[lifecycle[a]]
           Overtaken(a) == \E p \in Runs : run[p].agent = a /\ run[p].pc \in {"sandbox", "write"}
                                            /\ run[p].seen # lifecycle[a]
<1>1. IInv /\ [Next]_vars => [\A a \in Agents : Back(a) => Overtaken(a)]_vars
    <2> SUFFICES ASSUME IInv, Next, NEW a \in Agents, Back(a) PROVE Overtaken(a)
        OBVIOUS
    <2>1. /\ Rank["DRAFT"] = 1 /\ Rank["SANDBOX"] = 2 /\ Rank["TESTED"] = 3
          /\ Rank["EVALUATED"] = 4 /\ Rank["APPROVED"] = 5 /\ Rank["ACTIVE"] = 6
        BY DEF Rank
    <2>2. lifecycle[a] \in LifecycleStates
        BY DEF IInv, TypeOK
    <2>3. lifecycle'[a] # lifecycle[a] /\ lifecycle'[a] # "ACTIVE"
        BY <2>1, <2>2 DEF LifecycleStates
    <2>4. PICK p \in Runs : Sandbox(p) \/ WriteAgent(p)
        BY <2>2, <2>3
           DEF Next, CreateAgent, CreateVersion, ReadApproval, Activate, ActivateFails, Pipeline, Vet,
               ReadAgent, StopRun, Start, UpsertPolicy, ToggleTool, Approving, registry, IInv, TypeOK,
               LifecycleStates
    <2>5. /\ run[p].agent \in Agents /\ RunVetted(p) /\ run[p].pc \in {"sandbox", "write"}
        BY <2>4, RunFacts DEF Sandbox, WriteAgent
    <2>6. run[p].agent = a
        BY <2>3, <2>4, <2>5 DEF Sandbox, WriteAgent, IInv, TypeOK
    <2>7. run[p].seen # lifecycle[a]
        <3>1. CASE run[p].pc = "sandbox"
            <4>1. run[p].seen = "DRAFT" /\ lifecycle'[a] = "SANDBOX"
                BY <2>4, <2>5, <2>6, <3>1 DEF RunVetted, Sandbox, WriteAgent, IInv, TypeOK
            <4> QED
                BY <2>1, <4>1
        <3>2. CASE run[p].pc = "write"
            <4>1. /\ run[p].to \in StepsTo /\ run[p].seen = Previous[run[p].to]
                  /\ lifecycle'[a] = run[p].to
                BY <2>4, <2>5, <2>6, <3>2 DEF RunVetted, Sandbox, WriteAgent, IInv, TypeOK
            <4> QED
                BY <2>1, <4>1, Steps DEF StepsTo
        <3> QED
            BY <2>5, <3>1, <3>2
    <2> QED
        BY <2>5, <2>6, <2>7
<1> QED
    BY Invariance, <1>1, PTL DEF Spec, MovesForward

\* Whatever policy the tenant puts in place, the engine's loop answers with the
\* most specific rule that applies, the first of equals.
THEOREM PolicyPrecedence == Spec => []PolicyByPrecedence
<1>1. IInv => PolicyByPrecedence
    BY RulesTyped, Precedence DEF IInv, PolicyByPrecedence
<1> QED
    BY Invariance, <1>1, PTL
=============================================================================
