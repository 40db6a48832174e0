-------------------------- MODULE PushRulesProofs --------------------------
(***************************************************************************)
(* Proofs about PushRules, for all rulesets and all events: the evaluator  *)
(* belongs to the rules the application holds and does what they           *)
(* prescribe, rules survive being put and read again, and mentions take    *)
(* the place of the rules by name.                                         *)
(***************************************************************************)
EXTENDS PushRules, Extrema

-----------------------------------------------------------------------------
(* Types.                                                                  *)

\* A list of the length of another is a list.
LEMMA SameLength ==
    ASSUME NEW S, NEW T, NEW s \in Seq(S), NEW t, t \in [DOMAIN s -> T]
    PROVE  t \in Seq(T)
  <1>1. DOMAIN s = 1 .. Len(s) /\ Len(s) \in Nat
    OBVIOUS
  <1> QED
    BY <1>1

\* A rule that was read has only actions that are understood.
LEMMA RuleRead ==
    ASSUME NEW r \in RuleSet(JsonActions)
    PROVE  rule_from_json(r) \in RuleSet(Actions)
  <1> DEFINE a == [i \in DOMAIN r.actions |-> action_from_json(r.actions[i])]
  <1>1. a \in [DOMAIN r.actions -> Actions]
    BY DEF action_from_json, Actions
  <1>2. r.actions \in Seq(JsonActions)
    BY DEF RuleSet
  <1>3. a \in Seq(Actions)
    BY <1>1, <1>2, SameLength
  <1>4. rule_from_json(r) = [r EXCEPT !.actions = a]
    BY DEF rule_from_json
  <1> HIDE DEF a
  <1> QED
    BY <1>3, <1>4 DEF RuleSet

\* A rule that is written is a rule.
LEMMA RuleWritten ==
    ASSUME NEW r \in RuleSet(Actions)
    PROVE  rule_to_json(r) \in RuleSet(JsonActions)
  <1> DEFINE a == [i \in DOMAIN r.actions |-> action_to_json(r.actions[i])]
             c == [i \in DOMAIN r.conditions |-> condition_to_json(r.conditions[i])]
  <1>1. r.actions \in Seq(Actions) /\ r.conditions \in Seq(ConditionSet)
    BY DEF RuleSet
  <1>2. a \in [DOMAIN r.actions -> JsonActions]
    <2>1. \A x \in Actions : action_to_json(x) \in JsonActions
      <3>1. "null" \in JsonActions /\ \A x \in Actions : x \in JsonActions
        BY DEF JsonActions
      <3>2. \A x : action_to_json(x) \in {"null", x}
        BY DEF action_to_json
      <3> QED BY <3>1, <3>2
    <2>2. \A i \in DOMAIN r.actions : r.actions[i] \in Actions
      BY <1>1
    <2> QED BY <2>1, <2>2
  <1>3. \A i \in DOMAIN r.conditions : condition_to_json(r.conditions[i]) \in ConditionSet
    <2>1. \A x \in ConditionSet : condition_to_json(x) \in ConditionSet
      BY DEF condition_to_json, ConditionSet
    <2>2. \A i \in DOMAIN r.conditions : r.conditions[i] \in ConditionSet
      BY <1>1
    <2> QED BY <2>1, <2>2
  <1>4. c \in [DOMAIN r.conditions -> ConditionSet]
    BY <1>3
  <1>5. a \in Seq(JsonActions) /\ c \in Seq(ConditionSet)
    BY <1>1, <1>2, <1>4, SameLength
  <1>6. rule_to_json(r) = [[r EXCEPT !.actions = a] EXCEPT !.conditions = c]
    BY DEF rule_to_json, RuleSet
  <1> HIDE DEF a, c
  <1> QED
    BY <1>5, <1>6 DEF RuleSet

\* The rulesets that are read and written.
LEMMA RulesetTypes ==
    /\ \A set \in Ruleset(JsonActions) : ruleset_from_json(set) \in Ruleset(Actions)
    /\ \A set \in Ruleset(Actions) : ruleset_to_json(set) \in Ruleset(JsonActions)
  <1>1. ASSUME NEW set \in Ruleset(JsonActions) PROVE ruleset_from_json(set) \in Ruleset(Actions)
    <2>1. ASSUME NEW k \in Kinds
          PROVE  [i \in DOMAIN set[k] |-> rule_from_json(set[k][i])] \in Seq(RuleSet(Actions))
      <3>1. set[k] \in Seq(RuleSet(JsonActions))
        BY DEF Ruleset
      <3>2. \A i \in DOMAIN set[k] : rule_from_json(set[k][i]) \in RuleSet(Actions)
        BY <3>1, RuleRead
      <3> QED
        BY <3>1, <3>2, SameLength
    <2>2. DOMAIN set = Kinds
      BY DEF Ruleset
    <2> QED
      BY <2>1, <2>2 DEF ruleset_from_json, EachRule, Ruleset
  <1>2. ASSUME NEW set \in Ruleset(Actions) PROVE ruleset_to_json(set) \in Ruleset(JsonActions)
    <2>1. ASSUME NEW k \in Kinds
          PROVE  [i \in DOMAIN set[k] |-> rule_to_json(set[k][i])] \in Seq(RuleSet(JsonActions))
      <3>1. set[k] \in Seq(RuleSet(Actions))
        BY DEF Ruleset
      <3>2. \A i \in DOMAIN set[k] : rule_to_json(set[k][i]) \in RuleSet(JsonActions)
        BY <3>1, RuleWritten
      <3> QED
        BY <3>1, <3>2, SameLength
    <2>2. DOMAIN set = Kinds
      BY DEF Ruleset
    <2> QED
      BY <2>1, <2>2 DEF ruleset_to_json, EachRule, Ruleset
  <1> QED
    BY <1>1, <1>2

\* The first evaluator is that of the first rules.
LEMMA RulesInit == Init => RulesInv
  BY RulesetTypes, PushRulesAssumption DEF Init, RulesInv

\* Whoever changes the rules compiles them again.
LEMMA RulesNext == RulesInv /\ [Next]_vars => RulesInv'
  <1> SUFFICES ASSUME RulesInv, [Next]_vars PROVE RulesInv'
    OBVIOUS
  <1>1. CASE get_pushrules
    BY <1>1, RulesetTypes DEF get_pushrules, RulesInv
  <1>2. CASE put_pushrules_enabled
    <2>0. PICK k \in DOMAIN stored : \E j \in DOMAIN stored[k] :
            /\ stored' = [stored EXCEPT ![k][j].enabled = ~@]
            /\ UNCHANGED <<rules, evaluator>>
      BY <1>2 DEF put_pushrules_enabled
    <2>1. PICK i \in DOMAIN stored[k] :
            /\ stored' = [stored EXCEPT ![k][i].enabled = ~@]
            /\ UNCHANGED <<rules, evaluator>>
      BY <2>0
    <2>2. k \in Kinds /\ stored[k] \in Seq(RuleSet(JsonActions)) /\ stored[k][i] \in RuleSet(JsonActions)
      BY DEF RulesInv, Ruleset
    <2> DEFINE r == [stored[k][i] EXCEPT !.enabled = ~@]
               l == [stored[k] EXCEPT ![i] = r]
    <2>3. r \in RuleSet(JsonActions)
      BY <2>2 DEF RuleSet
    <2>4. l \in Seq(RuleSet(JsonActions))
      <3> HIDE DEF r
      <3> QED BY <2>2, <2>3
    <2>5. stored' = [stored EXCEPT ![k] = l]
      BY <2>1
    <2> HIDE DEF r, l
    <2>6. stored' \in Ruleset(JsonActions)
      BY <2>4, <2>5 DEF RulesInv, Ruleset
    <2> QED
      BY <2>1, <2>6 DEF RulesInv
  <1>3. CASE put_pushrules
    BY <1>3, RulesetTypes DEF put_pushrules, RulesInv
  <1>4. CASE make_pushrules
    BY <1>4, PushRulesAssumption DEF make_pushrules, RulesInv
  <1>5. CASE UNCHANGED vars
    BY <1>5 DEF vars, RulesInv
  <1> QED
    BY <1>1, <1>2, <1>3, <1>4, <1>5 DEF Next

\* The evaluator an application uses is always that of the rules it holds, and
\* those have only actions the library has, however rules are fetched, switched,
\* made and put.
THEOREM RulesInvariant == Spec => []RulesInv
  BY RulesInit, RulesNext, PTL DEF Spec

-----------------------------------------------------------------------------
(* Rules that are put and read again.                                      *)

\* A condition without fallbacks is written as it is.
LEMMA ConditionKept ==
    ASSUME NEW c \in ConditionSet, ~ c.include_fallback
    PROVE  condition_to_json(c) = c
  BY DEF condition_to_json, ConditionSet

\* A rule as it comes back: the same but for its actions.
Back(r, again) == /\ again.rule_id = r.rule_id /\ again.enabled = r.enabled
                  /\ again.pattern = r.pattern /\ again.conditions = r.conditions
                  /\ again.actions = AsFetched(r.actions)

\* A rule whose conditions have no fallbacks comes back so.
LEMMA RuleBack ==
    ASSUME NEW r \in RuleSet(Actions),
           \A i \in DOMAIN r.conditions : ~ r.conditions[i].include_fallback
    PROVE  Back(r, rule_from_json(rule_to_json(r)))
  <1> DEFINE a == [i \in DOMAIN r.actions |-> action_to_json(r.actions[i])]
             c == [i \in DOMAIN r.conditions |-> condition_to_json(r.conditions[i])]
             w == rule_to_json(r)
  <1>1. r.actions \in Seq(Actions) /\ r.conditions \in Seq(ConditionSet)
    BY DEF RuleSet
  <1>2. \A i \in DOMAIN r.conditions : condition_to_json(r.conditions[i]) = r.conditions[i]
    BY <1>1, ConditionKept
  <1>3. c = r.conditions
    BY <1>1, <1>2
  <1>4. /\ w.rule_id = r.rule_id /\ w.enabled = r.enabled /\ w.pattern = r.pattern
        /\ w.conditions = c /\ w.actions = a
    BY DEF rule_to_json, RuleSet
  <1>5. w = [[r EXCEPT !.actions = a] EXCEPT !.conditions = c]
    BY DEF rule_to_json, RuleSet
  <1>6. \A x \in Actions : action_from_json(action_to_json(x)) = IF x = "coalesce" THEN "notify" ELSE x
    BY DEF action_to_json, action_from_json, Actions
  <1>7. DOMAIN a = DOMAIN r.actions /\ \A i \in DOMAIN r.actions : a[i] = action_to_json(r.actions[i])
    OBVIOUS
  <1> DEFINE b == [i \in DOMAIN w.actions |-> action_from_json(w.actions[i])]
  <1>8. b = AsFetched(r.actions)
    <2> HIDE DEF w, a
    <2>1. \A i \in DOMAIN r.actions :
            action_from_json(a[i]) = IF r.actions[i] = "coalesce" THEN "notify" ELSE r.actions[i]
      BY <1>1, <1>6, <1>7
    <2> QED
      BY <1>4, <1>7, <2>1 DEF AsFetched
  <1>9. rule_from_json(w) = [w EXCEPT !.actions = b]
    BY DEF rule_from_json
  <1>10. DOMAIN w = {"rule_id", "enabled", "pattern", "conditions", "actions"}
    BY <1>5 DEF RuleSet
  <1> HIDE DEF w, a, b, c
  <1>11. LET again == rule_from_json(w)
         IN  /\ again.rule_id = w.rule_id /\ again.enabled = w.enabled /\ again.pattern = w.pattern
             /\ again.conditions = w.conditions /\ again.actions = b
    BY <1>9, <1>10
  <1> QED
    BY <1>3, <1>4, <1>8, <1>11 DEF Back, w

\* Lists of rules as they come back.
BackList(list, again) == DOMAIN again = DOMAIN list /\ \A i \in DOMAIN list : Back(list[i], again[i])

\* Whether the server knows m.mentions is told from the ids of the rules.
LEMMA SupportBack ==
    ASSUME NEW set, NEW again, BackList(set.override, again.override)
    PROVE  server_supports_mentions(again) = server_supports_mentions(set)
  <1>1. \A i \in DOMAIN set.override : again.override[i].rule_id = set.override[i].rule_id
    BY DEF BackList, Back
  <1> QED
    BY <1>1 DEF server_supports_mentions, BackList

\* Compiled rules that differ in their actions only, and answers that do.
Alike(L, M) ==
  /\ DOMAIN L \subseteq Nat /\ DOMAIN M = DOMAIN L
  /\ \A i \in DOMAIN L : /\ M[i].no_mentions_field = L[i].no_mentions_field
                         /\ M[i].conditions = L[i].conditions
                         /\ M[i].actions = AsFetched(L[i].actions)
AnswersAlike(x, y) == (x = {} /\ y = {}) \/ \E a : x = {a} /\ y = {AsFetched(a)}

\* What rules that match at the same places answer.
LEMMA MatchBack ==
    ASSUME NEW in, NEW L, NEW M, Alike(L, M)
    PROVE  AnswersAlike(first_match(L, in), first_match(M, in))
  <1> DEFINE I == {i \in DOMAIN L : OptimizedRule_matches(L[i], in)}
             J == {i \in DOMAIN M : OptimizedRule_matches(M[i], in)}
             first == CHOOSE i \in I : \A j \in I : i <= j
  <1>1. \A i \in DOMAIN L : OptimizedRule_matches(M[i], in) <=> OptimizedRule_matches(L[i], in)
    BY DEF OptimizedRule_matches, Alike
  <1>2. I = J
    BY <1>1 DEF Alike
  <1>3. CASE I = {}
    BY <1>2, <1>3 DEF first_match, AnswersAlike
  <1>4. CASE I # {}
    <2>1. I \in SUBSET Nat
      BY DEF Alike
    <2>2. I \subseteq DOMAIN L
      OBVIOUS
    <2> HIDE DEF I
    <2>3. first \in I
      BY <1>4, <2>1, LeastExists
    <2>4. first_match(L, in) = {L[first].actions}
      BY <1>4 DEF first_match, I
    <2>5. first_match(M, in) = {M[first].actions}
      BY <1>2, <1>4 DEF first_match
    <2>6. M[first].actions = AsFetched(L[first].actions)
      BY <2>2, <2>3 DEF Alike
    <2> QED
      BY <2>4, <2>5, <2>6 DEF AnswersAlike
  <1> QED
    BY <1>3, <1>4

\* Compiled, rules of the same id and conditions differ only in their actions.
LEMMA SameOptimized ==
    ASSUME NEW r, NEW again, NEW conditions, NEW sup \in BOOLEAN, again.rule_id = r.rule_id
    PROVE  LET x == OptimizedRule(r, conditions, sup)
               y == OptimizedRule(again, conditions, sup)
           IN  /\ y.no_mentions_field = x.no_mentions_field
               /\ y.conditions = x.conditions /\ y.conditions = conditions
               /\ x.actions = r.actions /\ y.actions = again.actions
  BY DEF OptimizedRule

\* Compiled, the rules with conditions that come back differ only in their actions.
LEMMA CompiledBack ==
    ASSUME NEW A, NEW list \in Seq(A), NEW again, BackList(list, again), NEW sup \in BOOLEAN, NEW in,
           NEW L, L = compiled(list, sup), NEW M, M = compiled(again, sup)
    PROVE  AnswersAlike(first_match(L, in), first_match(M, in))
  <1>1. /\ DOMAIN again = DOMAIN list /\ DOMAIN list \subseteq Nat
        /\ \A i \in DOMAIN list : /\ again[i].rule_id = list[i].rule_id /\ again[i].enabled = list[i].enabled
                                  /\ again[i].conditions = list[i].conditions
                                  /\ again[i].actions = AsFetched(list[i].actions)
    BY DEF BackList, Back
  <1>2. DOMAIN L = {i \in DOMAIN list : /\ list[i].enabled
                      /\ \A j \in DOMAIN list[i].conditions : understood(list[i].conditions[j])}
    BY DEF compiled
  <1>3. DOMAIN M = {i \in DOMAIN again : /\ again[i].enabled
                      /\ \A j \in DOMAIN again[i].conditions : understood(again[i].conditions[j])}
    BY DEF compiled
  <1>4. DOMAIN M = DOMAIN L /\ DOMAIN L \subseteq DOMAIN list /\ DOMAIN L \subseteq Nat
    BY <1>1, <1>2, <1>3
  <1>5. \A i \in DOMAIN L : /\ L[i] = OptimizedRule(list[i], list[i].conditions, sup)
                            /\ M[i] = OptimizedRule(again[i], again[i].conditions, sup)
    BY <1>4 DEF compiled
  <1>6. ASSUME NEW i \in DOMAIN L
        PROVE  /\ M[i].no_mentions_field = L[i].no_mentions_field
               /\ M[i].conditions = L[i].conditions
               /\ M[i].actions = AsFetched(L[i].actions)
    BY <1>1, <1>4, <1>5, SameOptimized
  <1>8. Alike(L, M)
    BY <1>4, <1>6 DEF Alike
  <1> QED
    BY <1>8, MatchBack

\* So do the content rules.
LEMMA ContentBack ==
    ASSUME NEW A, NEW list \in Seq(A), NEW again, BackList(list, again), NEW sup \in BOOLEAN, NEW in,
           NEW L, L = compiled_content(list, sup), NEW M, M = compiled_content(again, sup)
    PROVE  AnswersAlike(first_match(L, in), first_match(M, in))
  <1> DEFINE body(r) == <<[Cond("event_match") EXCEPT !.key = "content.body", !.pattern = r.pattern]>>
  <1>1. /\ DOMAIN again = DOMAIN list /\ DOMAIN list \subseteq Nat
        /\ \A i \in DOMAIN list : /\ again[i].rule_id = list[i].rule_id /\ again[i].enabled = list[i].enabled
                                  /\ again[i].pattern = list[i].pattern
                                  /\ again[i].actions = AsFetched(list[i].actions)
    BY DEF BackList, Back
  <1>2. DOMAIN L = {i \in DOMAIN list : list[i].enabled /\ list[i].pattern # <<>>}
    BY DEF compiled_content
  <1>3. DOMAIN M = {i \in DOMAIN again : again[i].enabled /\ again[i].pattern # <<>>}
    BY DEF compiled_content
  <1>4. DOMAIN M = DOMAIN L /\ DOMAIN L \subseteq DOMAIN list /\ DOMAIN L \subseteq Nat
    BY <1>1, <1>2, <1>3
  <1>5. \A i \in DOMAIN L : /\ L[i] = OptimizedRule(list[i], body(list[i]), sup)
                            /\ M[i] = OptimizedRule(again[i], body(again[i]), sup)
    BY <1>4 DEF compiled_content
  <1>6. \A i \in DOMAIN L : body(again[i]) = body(list[i])
    BY <1>1, <1>4
  <1> HIDE DEF body
  <1>7. ASSUME NEW i \in DOMAIN L
        PROVE  /\ M[i].no_mentions_field = L[i].no_mentions_field
               /\ M[i].conditions = L[i].conditions
               /\ M[i].actions = AsFetched(L[i].actions)
    BY <1>1, <1>4, <1>5, <1>6, SameOptimized
  <1>9. Alike(L, M)
    BY <1>4, <1>7 DEF Alike
  <1> QED
    BY <1>9, MatchBack

\* The map of rules by their ids finds the same rule.
LEMMA IdsBack ==
    ASSUME NEW A, NEW list \in Seq(A), NEW again, BackList(list, again), NEW ids, NEW id,
           NEW L, L = by_id(compiled_ids(list, ids), id),
           NEW M, M = by_id(compiled_ids(again, ids), id)
    PROVE  AnswersAlike(L, M)
  <1> DEFINE map == compiled_ids(list, ids)
             new == compiled_ids(again, ids)
             I == {i \in DOMAIN list : list[i].enabled /\ list[i].rule_id \in ids}
             J == {i \in DOMAIN again : again[i].enabled /\ again[i].rule_id \in ids}
             of == {i \in I : list[i].rule_id = id}
             new_of == {i \in J : again[i].rule_id = id}
             last == CHOOSE i \in of : \A j \in of : j <= i
  <1>1. /\ DOMAIN again = DOMAIN list
        /\ \A i \in DOMAIN list : /\ again[i].rule_id = list[i].rule_id /\ again[i].enabled = list[i].enabled
                                  /\ again[i].actions = AsFetched(list[i].actions)
    BY DEF BackList, Back
  <1>2. I = J
    BY <1>1
  <1>3. of = new_of
    BY <1>1, <1>2
  <1>4. /\ DOMAIN map = {list[i].rule_id : i \in I}
        /\ id \in DOMAIN map => map[id] = list[last].actions
    BY DEF compiled_ids
  <1>5. /\ DOMAIN new = {again[i].rule_id : i \in J}
        /\ id \in DOMAIN new => new[id] = again[CHOOSE i \in new_of : \A j \in new_of : j <= i].actions
    BY DEF compiled_ids
  <1>6. id \in DOMAIN map <=> of # {}
    BY <1>4
  <1>7. id \in DOMAIN new <=> new_of # {}
    BY <1>5
  <1>8. of \in SUBSET (0 .. Len(list)) /\ Len(list) \in Nat /\ of \subseteq DOMAIN list
    OBVIOUS
  <1> HIDE DEF I, J, of, new_of, map, new
  <1>9. CASE of = {}
    BY <1>3, <1>6, <1>7, <1>9 DEF by_id, map, new, AnswersAlike
  <1>10. CASE of # {}
    <2>1. \E i \in of : \A j \in of : j <= i
      BY <1>8, <1>10, GreatestExists
    <2>2. last \in DOMAIN list
      BY <1>8, <2>1
    <2>3. L = {list[last].actions}
      BY <1>4, <1>6, <1>10 DEF by_id, map
    <2>4. M = {again[last].actions}
      BY <1>3, <1>5, <1>7, <1>10 DEF by_id, new
    <2> HIDE DEF last
    <2> QED
      BY <1>1, <2>2, <2>3, <2>4 DEF AnswersAlike
  <1> QED
    BY <1>9, <1>10

\* The answer of the first kind of rules that has one.
Decided(answers) ==
  LET I == {i \in DOMAIN answers : answers[i] # {}}
  IN  IF I = {} THEN <<>> ELSE CHOOSE a \in answers[CHOOSE i \in I : \A j \in I : i <= j] : TRUE

\* What two evaluators answer of which each kind answers the same.
LEMMA EvaluateBack ==
    ASSUME NEW answers, NEW again, DOMAIN answers = 1 .. 5, DOMAIN again = 1 .. 5,
           \A k \in 1 .. 5 : AnswersAlike(answers[k], again[k])
    PROVE  Decided(again) = AsFetched(Decided(answers))
  <1> DEFINE I == {i \in DOMAIN answers : answers[i] # {}}
             J == {i \in DOMAIN again : again[i] # {}}
             K == CHOOSE i \in I : \A j \in I : i <= j
  <1>1. I = J
    BY DEF AnswersAlike
  <1>2. AsFetched(<<>>) = <<>>
    BY DEF AsFetched
  <1>3. CASE I = {}
    BY <1>1, <1>2, <1>3 DEF Decided
  <1>4. CASE I # {}
    <2>1. I \in SUBSET Nat /\ I \subseteq 1 .. 5
      OBVIOUS
    <2>2. \A k \in I : \E a : answers[k] = {a} /\ again[k] = {AsFetched(a)}
      BY DEF AnswersAlike
    <2> HIDE DEF I
    <2>3. K \in I
      BY <1>4, <2>1, LeastExists
    <2>4. PICK a : answers[K] = {a} /\ again[K] = {AsFetched(a)}
      BY <2>2, <2>3
    <2>5. (CHOOSE x \in answers[K] : TRUE) = a /\ (CHOOSE x \in again[K] : TRUE) = AsFetched(a)
      BY <2>4
    <2>6. K = CHOOSE i \in J : \A j \in J : i <= j
      BY <1>1
    <2>7. Decided(answers) = CHOOSE x \in answers[K] : TRUE
      BY <1>4 DEF Decided, I
    <2>8. Decided(again) = CHOOSE x \in again[CHOOSE i \in J : \A j \in J : i <= j] : TRUE
      BY <1>1, <1>4 DEF Decided
    <2> HIDE DEF J, K
    <2> QED
      BY <2>5, <2>6, <2>7, <2>8
  <1> QED
    BY <1>3, <1>4

\* Rules an application puts lead to the same actions when it gets them back, for
\* every ruleset and every event, but for coalesce, which comes back as notify,
\* and for relations that are fallbacks.
THEOREM RulesAreKept == Spec => []KeepsRules
  <1>1. RulesInv => KeepsRules
    <2> DEFINE there == ruleset_to_json(rules)
               back == ruleset_from_json(there)
    <2> SUFFICES ASSUME RulesInv, \A c \in Conditions : ~ c.include_fallback, NEW in \in Inputs
                 PROVE  evaluate(PushRuleEvaluator(back), in) = AsFetched(evaluate(PushRuleEvaluator(rules), in))
      BY DEF KeepsRules
    <2>1. /\ rules \in Ruleset(Actions) /\ DOMAIN rules = Kinds
          /\ \A k \in Kinds : rules[k] \in Seq(RuleSet(Actions))
      BY DEF RulesInv, Ruleset
    <2>2. ASSUME NEW k \in Kinds, NEW i \in DOMAIN rules[k]
          PROVE  Back(rules[k][i], rule_from_json(rule_to_json(rules[k][i])))
      <3>1. rules[k][i] \in RuleSet(Actions)
        BY <2>1
      <3>2. \A j \in DOMAIN rules[k][i].conditions : rules[k][i].conditions[j] \in Conditions
        BY <2>1 DEF Conditions
      <3> QED
        BY <3>1, <3>2, RuleBack
    <2>3. /\ DOMAIN there = Kinds
          /\ \A k \in Kinds : /\ DOMAIN there[k] = DOMAIN rules[k]
                              /\ \A i \in DOMAIN rules[k] : there[k][i] = rule_to_json(rules[k][i])
      BY <2>1 DEF ruleset_to_json, EachRule
    <2> HIDE DEF there
    <2>4. /\ DOMAIN back = Kinds
          /\ \A k \in Kinds : /\ DOMAIN back[k] = DOMAIN there[k]
                              /\ \A i \in DOMAIN there[k] : back[k][i] = rule_from_json(there[k][i])
      BY <2>3 DEF ruleset_from_json, EachRule
    <2> HIDE DEF back
    <2>5. \A k \in Kinds : BackList(rules[k], back[k])
      BY <2>2, <2>3, <2>4 DEF BackList
    <2> DEFINE sup == server_supports_mentions(rules)
               Answers(set) == <<first_match(compiled(set.override, sup), in),
                                 first_match(compiled_content(set.content, sup), in),
                                 by_id(compiled_ids(set.room, RoomIds), in.event.room_id),
                                 by_id(compiled_ids(set.sender, UserIds), in.event.sender),
                                 first_match(compiled(set.underride, sup), in)>>
    <2>6. server_supports_mentions(back) = sup
      BY <2>5, SupportBack DEF Kinds
    <2>7. /\ evaluate(PushRuleEvaluator(rules), in) = Decided(Answers(rules))
          /\ evaluate(PushRuleEvaluator(back), in) = Decided(Answers(back))
      BY <2>6 DEF evaluate, PushRuleEvaluator, Decided
    <2> HIDE DEF sup
    <2>8. \A set : /\ DOMAIN Answers(set) = 1 .. 5
                   /\ Answers(set)[1] = first_match(compiled(set.override, sup), in)
                   /\ Answers(set)[2] = first_match(compiled_content(set.content, sup), in)
                   /\ Answers(set)[3] = by_id(compiled_ids(set.room, RoomIds), in.event.room_id)
                   /\ Answers(set)[4] = by_id(compiled_ids(set.sender, UserIds), in.event.sender)
                   /\ Answers(set)[5] = first_match(compiled(set.underride, sup), in)
      OBVIOUS
    <2> HIDE DEF Answers
    <2> DEFINE same(k) == AnswersAlike(Answers(rules)[k], Answers(back)[k])
    <2>13. /\ rules.override \in Seq(RuleSet(Actions)) /\ BackList(rules.override, back.override)
           /\ rules.underride \in Seq(RuleSet(Actions)) /\ BackList(rules.underride, back.underride)
      BY <2>1, <2>5 DEF Kinds
    <2>14. /\ rules.content \in Seq(RuleSet(Actions)) /\ BackList(rules.content, back.content)
           /\ rules.room \in Seq(RuleSet(Actions)) /\ BackList(rules.room, back.room)
           /\ rules.sender \in Seq(RuleSet(Actions)) /\ BackList(rules.sender, back.sender)
      BY <2>1, <2>5 DEF Kinds
    <2>15. sup \in BOOLEAN
      BY DEF sup, server_supports_mentions
    <2>9. same(1) /\ same(5)
      BY <2>8, <2>13, <2>15, CompiledBack
    <2>10. same(2)
      BY <2>8, <2>14, <2>15, ContentBack
    <2>11. same(3) /\ same(4)
      BY <2>8, <2>14, IdsBack
    <2>12. \A k \in 1 .. 5 : same(k)
      <3>1. \A k \in 1 .. 5 : k \in {1, 2, 3, 4, 5}
        OBVIOUS
      <3> HIDE DEF same
      <3> QED
        BY <2>9, <2>10, <2>11, <3>1
    <2> QED
      BY <2>7, <2>8, <2>12, EvaluateBack
  <1> QED
    BY <1>1, RulesInvariant, PTL

-----------------------------------------------------------------------------
(* Mentions take the place of the rules by name.                           *)

\* Rules that do not match may as well not be there.
LEMMA UnmatchedRules ==
    ASSUME NEW in, NEW L, NEW M, DOMAIN L \subseteq Nat, DOMAIN M \subseteq DOMAIN L,
           \A i \in DOMAIN M : M[i] = L[i],
           \A i \in DOMAIN L \ DOMAIN M : ~ OptimizedRule_matches(L[i], in)
    PROVE  first_match(L, in) = first_match(M, in)
  <1> DEFINE I == {i \in DOMAIN L : OptimizedRule_matches(L[i], in)}
             J == {i \in DOMAIN M : OptimizedRule_matches(M[i], in)}
             first == CHOOSE i \in I : \A j \in I : i <= j
  <1>1. I = J
    OBVIOUS
  <1>2. CASE I = {}
    BY <1>1, <1>2 DEF first_match
  <1>3. CASE I # {}
    <2>1. I \in SUBSET Nat
      OBVIOUS
    <2> HIDE DEF I
    <2>2. first \in I
      BY <1>3, <2>1, LeastExists
    <2>3. first \in J
      BY <1>1, <2>2
    <2>4. M[first] = L[first]
      BY <2>3
    <2>5. first = CHOOSE i \in J : \A j \in J : i <= j
      BY <1>1
    <2>6. first_match(L, in) = {L[first].actions}
      BY <1>3 DEF first_match, I
    <2>7. first_match(M, in) = {M[first].actions}
      BY <1>1, <1>3, <2>5 DEF first_match
    <2> QED
      BY <2>4, <2>6, <2>7
  <1> QED
    BY <1>2, <1>3

\* A list without the rules by name.
Unnamed(list) == [i \in DOMAIN list \ {j \in DOMAIN list : list[j].rule_id \in NameRules} |-> list[i]]

\* The mark of an m.mentions object is a field of the flattened event.
LEMMA MentionsMarked ==
    ASSUME NEW e, e.mentions # {}
    PROVE  MentionsField \in DOMAIN flatten_event(e)
  BY DEF flatten_event, MentionsField, FieldNames

\* A rule by name does not match an event with an m.mentions object.
LEMMA NamedDoNotMatch ==
    ASSUME NEW in, in.event.mentions # {}, NEW r, NEW conditions, r.rule_id \in NameRules
    PROVE  ~ OptimizedRule_matches(OptimizedRule(r, conditions, TRUE), in)
  BY MentionsMarked DEF OptimizedRule_matches, OptimizedRule

\* The rules with conditions.
LEMMA CompiledSame ==
    ASSUME NEW in, in.event.mentions # {}, NEW A, NEW list \in Seq(A)
    PROVE  first_match(compiled(list, TRUE), in) = first_match(compiled(Unnamed(list), TRUE), in)
  <1> DEFINE L == compiled(list, TRUE)
             M == compiled(Unnamed(list), TRUE)
             un == Unnamed(list)
  <1>1. /\ DOMAIN un \subseteq DOMAIN list
        /\ \A i \in DOMAIN un : un[i] = list[i]
        /\ \A i \in DOMAIN list \ DOMAIN un : list[i].rule_id \in NameRules
    BY DEF Unnamed
  <1> HIDE DEF un
  <1>2. DOMAIN L \subseteq Nat /\ DOMAIN L \subseteq DOMAIN list
    BY DEF compiled
  <1>3. DOMAIN M = DOMAIN L \cap DOMAIN un
    BY <1>1 DEF compiled, un
  <1>4. /\ \A i \in DOMAIN L : L[i] = OptimizedRule(list[i], list[i].conditions, TRUE)
        /\ \A i \in DOMAIN M : M[i] = OptimizedRule(list[i], list[i].conditions, TRUE)
    BY <1>1 DEF compiled, un
  <1> HIDE DEF L, M
  <1>5. ASSUME NEW i \in DOMAIN L \ DOMAIN M PROVE ~ OptimizedRule_matches(L[i], in)
    <2>1. list[i].rule_id \in NameRules
      BY <1>1, <1>2, <1>3
    <2>2. ~ OptimizedRule_matches(OptimizedRule(list[i], list[i].conditions, TRUE), in)
      BY <2>1, NamedDoNotMatch
    <2> QED
      BY <1>4, <2>2
  <1>6. first_match(L, in) = first_match(M, in)
    BY <1>2, <1>3, <1>4, <1>5, UnmatchedRules
  <1> QED
    BY <1>6 DEF L, M

\* The content rules.
LEMMA ContentSame ==
    ASSUME NEW in, in.event.mentions # {}, NEW A, NEW list \in Seq(A)
    PROVE  first_match(compiled_content(list, TRUE), in)
             = first_match(compiled_content(Unnamed(list), TRUE), in)
  <1> DEFINE L == compiled_content(list, TRUE)
             M == compiled_content(Unnamed(list), TRUE)
             un == Unnamed(list)
             body(r) == <<[Cond("event_match") EXCEPT !.key = "content.body", !.pattern = r.pattern]>>
  <1>1. /\ DOMAIN un \subseteq DOMAIN list
        /\ \A i \in DOMAIN un : un[i] = list[i]
        /\ \A i \in DOMAIN list \ DOMAIN un : list[i].rule_id \in NameRules
    BY DEF Unnamed
  <1> HIDE DEF un
  <1>2. DOMAIN L \subseteq Nat /\ DOMAIN L \subseteq DOMAIN list
    BY DEF compiled_content
  <1>3. DOMAIN M = DOMAIN L \cap DOMAIN un
    BY <1>1 DEF compiled_content, un
  <1>4. /\ \A i \in DOMAIN L : L[i] = OptimizedRule(list[i], body(list[i]), TRUE)
        /\ \A i \in DOMAIN M : M[i] = OptimizedRule(list[i], body(list[i]), TRUE)
    BY <1>1 DEF compiled_content, un
  <1> HIDE DEF L, M, body
  <1>5. ASSUME NEW i \in DOMAIN L \ DOMAIN M PROVE ~ OptimizedRule_matches(L[i], in)
    <2>1. list[i].rule_id \in NameRules
      BY <1>1, <1>2, <1>3
    <2>2. ~ OptimizedRule_matches(OptimizedRule(list[i], body(list[i]), TRUE), in)
      BY <2>1, NamedDoNotMatch
    <2> QED
      BY <1>4, <2>2
  <1>6. first_match(L, in) = first_match(M, in)
    BY <1>2, <1>3, <1>4, <1>5, UnmatchedRules
  <1> QED
    BY <1>6 DEF L, M

\* The rules of rooms and senders, none of which is one by name.
LEMMA IdsSame ==
    ASSUME NEW A, NEW list \in Seq(A), NEW ids, ids \cap NameRules = {}
    PROVE  compiled_ids(list, ids) = compiled_ids(Unnamed(list), ids)
  <1> DEFINE un == Unnamed(list)
             I == {i \in DOMAIN list : list[i].enabled /\ list[i].rule_id \in ids}
             J == {i \in DOMAIN un : un[i].enabled /\ un[i].rule_id \in ids}
             of(id) == {i \in I : list[i].rule_id = id}
             un_of(id) == {i \in J : un[i].rule_id = id}
             last(id) == CHOOSE i \in of(id) : \A j \in of(id) : j <= i
  <1>1. /\ DOMAIN un \subseteq DOMAIN list
        /\ \A i \in DOMAIN un : un[i] = list[i]
        /\ \A i \in DOMAIN list \ DOMAIN un : list[i].rule_id \in NameRules
    BY DEF Unnamed
  <1> HIDE DEF un
  <1>2. I = J /\ \A i \in I : un[i] = list[i]
    BY <1>1
  <1>3. \A id : of(id) = un_of(id)
    BY <1>2
  <1>4. ASSUME NEW id \in {list[i].rule_id : i \in I}
        PROVE  un[last(id)].actions = list[last(id)].actions
    <2>1. of(id) \in SUBSET (0 .. Len(list)) /\ of(id) # {} /\ Len(list) \in Nat
      OBVIOUS
    <2>2. of(id) \subseteq I
      OBVIOUS
    <2> HIDE DEF of
    <2>3. \E i \in of(id) : \A j \in of(id) : j <= i
      BY <2>1, GreatestExists
    <2>4. last(id) \in of(id)
      BY <2>3
    <2> QED
      BY <1>2, <2>2, <2>4
  <1>5. {list[i].rule_id : i \in I} = {un[i].rule_id : i \in J}
    BY <1>2
  <1>6. compiled_ids(list, ids) = [id \in {list[i].rule_id : i \in I} |-> list[last(id)].actions]
    BY DEF compiled_ids
  <1>7. compiled_ids(un, ids) =
          [id \in {un[i].rule_id : i \in J} |->
             un[CHOOSE i \in un_of(id) : \A j \in un_of(id) : j <= i].actions]
    BY DEF compiled_ids
  <1>8. \A id : (CHOOSE i \in un_of(id) : \A j \in un_of(id) : j <= i) = last(id)
    BY <1>3
  <1> HIDE DEF I, J, of, un_of, last
  <1>9. compiled_ids(un, ids) = [id \in {list[i].rule_id : i \in I} |-> un[last(id)].actions]
    BY <1>5, <1>7, <1>8
  <1> QED
    BY <1>4, <1>6, <1>9 DEF un

\* On a server that knows m.mentions, a message that says whom it mentions is
\* handled as if there were no rules by name, for every ruleset and every event.
THEOREM MentionsAreDecisive == Spec => []MentionsDecide
  <1>1. RulesInv => MentionsDecide
    <2> DEFINE named(k) == {i \in DOMAIN rules[k] : rules[k][i].rule_id \in NameRules}
               unnamed == [k \in DOMAIN rules |-> [i \in DOMAIN rules[k] \ named(k) |-> rules[k][i]]]
    <2> SUFFICES ASSUME RulesInv,
                        \E i \in DOMAIN rules.override : rules.override[i].rule_id = ".m.rule.is_user_mention",
                        NEW in \in Inputs, in.event.mentions # {}
                 PROVE  evaluate(evaluator, in) = evaluate(PushRuleEvaluator(unnamed), in)
      BY DEF MentionsDecide
    <2>1. /\ DOMAIN rules = Kinds
          /\ \A k \in Kinds : rules[k] \in Seq(RuleSet(Actions))
      BY DEF RulesInv, Ruleset
    <2>2. \A k \in Kinds : unnamed[k] = Unnamed(rules[k])
      BY <2>1 DEF Unnamed
    <2>3. server_supports_mentions(rules) = TRUE
      BY DEF server_supports_mentions
    <2>4. server_supports_mentions(unnamed) = TRUE
      <3>1. PICK i \in DOMAIN rules.override : rules.override[i].rule_id = ".m.rule.is_user_mention"
        OBVIOUS
      <3>2. i \in DOMAIN Unnamed(rules.override) /\ Unnamed(rules.override)[i] = rules.override[i]
        BY <3>1 DEF Unnamed, NameRules
      <3>3. unnamed.override = Unnamed(rules.override)
        BY <2>2 DEF Kinds
      <3> HIDE DEF unnamed
      <3> QED
        BY <3>1, <3>2, <3>3 DEF server_supports_mentions
    <2>5. RoomIds \cap NameRules = {} /\ UserIds \cap NameRules = {}
      BY IdsAssumption
    <2> DEFINE R == PushRuleEvaluator(rules)
               U == PushRuleEvaluator(unnamed)
    <2> HIDE DEF unnamed
    <2>6. /\ R.override = compiled(rules.override, TRUE)
          /\ R.content = compiled_content(rules.content, TRUE)
          /\ R.room = compiled_ids(rules.room, RoomIds)
          /\ R.sender = compiled_ids(rules.sender, UserIds)
          /\ R.underride = compiled(rules.underride, TRUE)
      BY <2>3 DEF PushRuleEvaluator
    <2>7. /\ U.override = compiled(Unnamed(rules.override), TRUE)
          /\ U.content = compiled_content(Unnamed(rules.content), TRUE)
          /\ U.room = compiled_ids(Unnamed(rules.room), RoomIds)
          /\ U.sender = compiled_ids(Unnamed(rules.sender), UserIds)
          /\ U.underride = compiled(Unnamed(rules.underride), TRUE)
      BY <2>2, <2>4 DEF PushRuleEvaluator, Kinds
    <2> HIDE DEF R, U
    <2>8. /\ first_match(R.override, in) = first_match(U.override, in)
          /\ first_match(R.underride, in) = first_match(U.underride, in)
      BY <2>1, <2>6, <2>7, CompiledSame DEF Kinds
    <2>9. first_match(R.content, in) = first_match(U.content, in)
      BY <2>1, <2>6, <2>7, ContentSame DEF Kinds
    <2>10. R.room = U.room /\ R.sender = U.sender
      BY <2>1, <2>5, <2>6, <2>7, IdsSame DEF Kinds
    <2>11. evaluate(R, in) = evaluate(U, in)
      BY <2>8, <2>9, <2>10 DEF evaluate
    <2> QED
      BY <2>11 DEF RulesInv, R, U
  <1> QED
    BY <1>1, RulesInvariant, PTL
-----------------------------------------------------------------------------
(* The compiled rules do what the rules prescribe.                         *)

\* Without globs the expression made from a pattern means the pattern.
LEMMA PatternMeansText ==
    ASSUME NEW p \in Seq(STRING), \A i \in DOMAIN p : p[i] \notin Globs
    PROVE  \A t : Matches(p, t, re_fits) <=> Matches(p, t, glob_fits)
  <1>1. \A i \in 1 .. Len(p) : \A piece : re_fits(p[i], piece) <=> glob_fits(p[i], piece)
    BY DEF re_fits, glob_fits, Globs
  <1> QED
    BY <1>1 DEF Matches

\* The event as its conditions see it.
Regular(e) == /\ \A v, w \in e.body : v = w
              /\ \A v \in e.body : IsText(v)

\* What flatten_event makes of the sender and of the text.
LEMMA FlattenedText ==
    ASSUME NEW e, Regular(e)
    PROVE  LET ev == flatten_event(e)
           IN  /\ DOMAIN ev \subseteq FieldNames
               /\ "sender" \in DOMAIN ev /\ ev["sender"] = Text(<<e.sender>>)
               /\ "content.body" \in DOMAIN ev <=> e.body # {}
               /\ \A v \in e.body : ev["content.body"] = v
  BY DEF flatten_event, FieldNames, MentionsField, Regular

\* What it makes of an m.mentions object.
LEMMA FlattenedMentions ==
    ASSUME NEW e
    PROVE  LET ev == flatten_event(e)
               users == "content.m\\.mentions.user_ids"
               room == "content.m\\.mentions.room"
           IN  /\ MentionsField \in DOMAIN ev <=> e.mentions # {}
               /\ users \in DOMAIN ev <=> Mentioned(e) # {}
               /\ Mentioned(e) # {} => ev[users] = Array({Text(<<u>>) : u \in Mentioned(e)})
               /\ room \in DOMAIN ev <=> \E m \in e.mentions : m.room
               /\ room \in DOMAIN ev => ev[room] = True
  BY DEF flatten_event, FieldNames, MentionsField, Mentioned

\* A pattern for a text matches as the Matrix specification says.
LEMMA PatternAgrees ==
    ASSUME NEW e, Regular(e), NEW c, c.pattern \in Seq(STRING),
           \A i \in DOMAIN c.pattern : c.pattern[i] \notin Globs, c.key \notin NoTexts
    PROVE  PatternCondition_matches(c, flatten_event(e)) <=> Says(e, c.pattern, c.key)
  <1> DEFINE ev == flatten_event(e)
  <1>1. /\ DOMAIN ev \subseteq FieldNames
        /\ "sender" \in DOMAIN ev /\ ev["sender"] = Text(<<e.sender>>)
        /\ "content.body" \in DOMAIN ev <=> e.body # {}
        /\ \A v \in e.body : ev["content.body"] = v
    BY FlattenedText
  <1> HIDE DEF ev
  <1>2. \A t : Matches(c.pattern, t, re_fits) <=> Matches(c.pattern, t, glob_fits)
    BY PatternMeansText
  <1>3. \A t : AsWord(t, LAMBDA s : Matches(c.pattern, s, re_fits))
               <=> AsWord(t, LAMBDA s : Matches(c.pattern, s, glob_fits))
    BY <1>2 DEF AsWord
  <1>4. CASE c.key = "sender"
    <2>1. PatternCondition_matches(c, ev) <=> Matches(c.pattern, <<e.sender>>, re_fits)
      BY <1>1, <1>4 DEF PatternCondition_matches, IsText, Text, re_matches
    <2>2. Says(e, c.pattern, c.key) <=> Matches(c.pattern, <<e.sender>>, glob_fits)
      BY <1>4 DEF Says, TextAt
    <2> QED
      BY <1>2, <2>1, <2>2 DEF ev
  <1>5. CASE c.key = "content.body"
    <2>1. CASE e.body = {}
      BY <1>1, <1>5, <2>1 DEF PatternCondition_matches, Says, TextAt, ev
    <2>2. CASE e.body # {}
      <3>1. PICK v : e.body = {v} /\ IsText(v)
        BY <2>2 DEF Regular
      <3>2. PatternCondition_matches(c, ev) <=> AsWord(v[2], LAMBDA s : Matches(c.pattern, s, re_fits))
        BY <1>1, <1>5, <3>1 DEF PatternCondition_matches, re_matches
      <3>3. TextAt(e, c.key) = {v[2]}
        BY <1>5, <3>1 DEF TextAt
      <3>4. Says(e, c.pattern, c.key) <=> AsWord(v[2], LAMBDA s : Matches(c.pattern, s, glob_fits))
        BY <1>5, <3>3 DEF Says
      <3> QED
        BY <1>3, <3>2, <3>4 DEF ev
    <2> QED
      BY <2>1, <2>2
  <1>6. CASE c.key \notin {"sender", "content.body"}
    BY <1>1, <1>6 DEF PatternCondition_matches, Says, TextAt, FieldNames, NoTexts, ev
  <1> QED
    BY <1>4, <1>5, <1>6

\* An input of which every event is regular.
LEMMA RegularInput ==
    ASSUME NEW in \in Inputs, ~ WithoutText(in)
    PROVE  Regular(in.event) /\ \A x \in in.related : Regular(x.event)
  BY InputsAssumption DEF WithoutText, Regular

\* A prefix of one or two characters.
LEMMA StartsWith ==
    \A a, b, c, d :
      /\ starts_with(<<a, b>>, <<c, d>>) <=> a = c /\ b = d
      /\ starts_with(<<a, b>>, <<c>>) <=> a = c
  <1> SUFFICES ASSUME NEW a, NEW b, NEW c, NEW d
               PROVE  /\ starts_with(<<a, b>>, <<c, d>>) <=> (a = c /\ b = d)
                      /\ starts_with(<<a, b>>, <<c>>) <=> a = c
    OBVIOUS
  <1> DEFINE s == <<a, b>>
             p == <<c, d>>
             q == <<c>>
  <1>1. Len(s) = 2 /\ s[1] = a /\ s[2] = b
    OBVIOUS
  <1>2. Len(p) = 2 /\ DOMAIN p = {1, 2} /\ p[1] = c /\ p[2] = d
    OBVIOUS
  <1>3. Len(q) = 1 /\ DOMAIN q = {1} /\ q[1] = c
    OBVIOUS
  <1> HIDE DEF s, p, q
  <1>4. starts_with(s, p) <=> (a = c /\ b = d)
    BY <1>1, <1>2 DEF starts_with
  <1>5. starts_with(s, q) <=> a = c
    BY <1>1, <1>3 DEF starts_with
  <1> QED
    BY <1>4, <1>5 DEF s, p, q

\* Which of the prefixes two characters begin with.
LEMMA TwoCharacters ==
    ASSUME NEW a, NEW b
    PROVE  /\ starts_with(<<a, b>>, Prefixes[1]) <=> (a = "=" /\ b = "=")
           /\ starts_with(<<a, b>>, Prefixes[2]) <=> (a = ">" /\ b = "=")
           /\ starts_with(<<a, b>>, Prefixes[3]) <=> (a = "<" /\ b = "=")
           /\ starts_with(<<a, b>>, Prefixes[4]) <=> a = "<"
           /\ starts_with(<<a, b>>, Prefixes[5]) <=> a = ">"
  <1>1. Prefixes[1] = <<"=", "=">> /\ Prefixes[2] = <<">", "=">> /\ Prefixes[3] = <<"<", "=">>
    BY DEF Prefixes
  <1>2. Prefixes[4] = <<"<">> /\ Prefixes[5] = <<">">>
    BY DEF Prefixes
  <1>3. \A c, d :
          /\ starts_with(<<a, b>>, <<c, d>>) <=> (a = c /\ b = d)
          /\ starts_with(<<a, b>>, <<c>>) <=> a = c
    BY StartsWith, Zenon
  <1>4. /\ starts_with(<<a, b>>, <<"=", "=">>) <=> (a = "=" /\ b = "=")
        /\ starts_with(<<a, b>>, <<">", "=">>) <=> (a = ">" /\ b = "=")
        /\ starts_with(<<a, b>>, <<"<", "=">>) <=> (a = "<" /\ b = "=")
        /\ starts_with(<<a, b>>, <<"<">>) <=> a = "<"
        /\ starts_with(<<a, b>>, <<">">>) <=> a = ">"
    BY <1>3, Zenon
  <1> QED
    BY <1>1, <1>2, <1>4, Zenon

\* A number of members that is written as it should be is read as it is written.
LEMMA CountRead ==
    ASSUME NEW c, c.kind = "room_member_count", CountGiven(c)
    PROVE  LET m == member_count_condition(c.is)
           IN  \E n \in c.is.number : m.op = c.is.before /\ m.count = n /\ c.is.number = {n}
  <1> DEFINE s == c.is.before
             I == {i \in DOMAIN Prefixes : starts_with(s, Prefixes[i])}
             first == CHOOSE i \in I : \A j \in I : i <= j
  <1>1. /\ Prefixes[1] = <<"=", "=">> /\ Prefixes[2] = <<">", "=">> /\ Prefixes[3] = <<"<", "=">>
        /\ Prefixes[4] = <<"<">> /\ Prefixes[5] = <<">">> /\ DOMAIN Prefixes = 1 .. 5
    BY DEF Prefixes
  <1>2. PICK n \in c.is.number : c.is.number = {n}
    BY DEF CountGiven
  <1>3. s \in {<<>>, <<"=", "=">>, <<"<">>, <<">">>, <<">", "=">>, <<"<", "=">>}
    BY DEF CountGiven
  <1>4. CASE s = <<>>
    <2>1. I = {}
      BY <1>1, <1>4 DEF starts_with
    <2> QED
      BY <1>2, <1>4, <2>1 DEF member_count_condition
  <1>5. ASSUME NEW k \in 1 .. 5, s = Prefixes[k], NEW m, I = {k} \/ (k < m /\ I = {k, m}), m \in Nat
        PROVE  member_count_condition(c.is).op = s /\ member_count_condition(c.is).count = n
    <2>1. first = k
      <3> HIDE DEF I
      <3> QED BY <1>5
    <2>2. I # {}
      BY <1>5
    <2>3. Prefixes[first] = s
      BY <1>5, <2>1
    <2> HIDE DEF I, first
    <2> QED
      BY <1>2, <2>2, <2>3 DEF member_count_condition, I, first, s
  <1>6. CASE s = <<"=", "=">>
    <2>2. /\ starts_with(s, Prefixes[1])
          /\ ~ starts_with(s, Prefixes[2])
          /\ ~ starts_with(s, Prefixes[3])
          /\ ~ starts_with(s, Prefixes[4])
          /\ ~ starts_with(s, Prefixes[5])
      <3>1. "=" # "<" /\ "=" # ">" /\ "<" # ">"
        OBVIOUS
      <3> HIDE DEF s
      <3> QED BY <1>6, <3>1, TwoCharacters, Zenon
    <2>1. I = {1}
      <3>1. \A i : i \in DOMAIN Prefixes <=> i \in {1, 2, 3, 4, 5}
        BY <1>1
      <3> HIDE DEF s
      <3> QED BY <2>2, <3>1
    <2> QED
      BY <1>1, <1>2, <1>5, <1>6, <2>1
  <1>7. CASE s = <<">", "=">>
    <2>2. /\ ~ starts_with(s, Prefixes[1])
          /\ starts_with(s, Prefixes[2])
          /\ ~ starts_with(s, Prefixes[3])
          /\ ~ starts_with(s, Prefixes[4])
          /\ starts_with(s, Prefixes[5])
      <3>1. "=" # "<" /\ "=" # ">" /\ "<" # ">"
        OBVIOUS
      <3> HIDE DEF s
      <3> QED BY <1>7, <3>1, TwoCharacters, Zenon
    <2>1. I = {2, 5}
      <3>1. \A i : i \in DOMAIN Prefixes <=> i \in {1, 2, 3, 4, 5}
        BY <1>1
      <3> HIDE DEF s
      <3> QED BY <2>2, <3>1
    <2> QED
      BY <1>1, <1>2, <1>5, <1>7, <2>1
  <1>8. CASE s = <<"<", "=">>
    <2>2. /\ ~ starts_with(s, Prefixes[1])
          /\ ~ starts_with(s, Prefixes[2])
          /\ starts_with(s, Prefixes[3])
          /\ starts_with(s, Prefixes[4])
          /\ ~ starts_with(s, Prefixes[5])
      <3>1. "=" # "<" /\ "=" # ">" /\ "<" # ">"
        OBVIOUS
      <3> HIDE DEF s
      <3> QED BY <1>8, <3>1, TwoCharacters, Zenon
    <2>1. I = {3, 4}
      <3>1. \A i : i \in DOMAIN Prefixes <=> i \in {1, 2, 3, 4, 5}
        BY <1>1
      <3> HIDE DEF s
      <3> QED BY <2>2, <3>1
    <2> QED
      BY <1>1, <1>2, <1>5, <1>8, <2>1
  <1>9. CASE s = <<"<">>
    <2>1. I = {4}
      BY <1>1, <1>9 DEF starts_with
    <2> QED
      BY <1>1, <1>2, <1>5, <1>9, <2>1
  <1>10. CASE s = <<">">>
    <2>1. I = {5}
      BY <1>1, <1>10 DEF starts_with
    <2> QED
      BY <1>1, <1>2, <1>5, <1>10, <2>1
  <1> QED
    BY <1>2, <1>3, <1>4, <1>6, <1>7, <1>8, <1>9, <1>10

\* The comparisons of the code are those of the documentation.
LEMMA ComparedAlike ==
    ASSUME NEW a \in Nat, NEW b \in Nat,
           NEW before \in {<<>>, <<"=", "=">>, <<"<">>, <<">">>, <<">", "=">>, <<"<", "=">>}
    PROVE  compares(before, a, b) <=> Compared(before, a, b)
  <1>1. /\ Prefixes[1] = <<"=", "=">> /\ Prefixes[2] = <<">", "=">> /\ Prefixes[3] = <<"<", "=">>
        /\ Prefixes[4] = <<"<">> /\ Prefixes[5] = <<">">>
    BY DEF Prefixes
  <1> DEFINE e == <<>>
             eq == <<"=", "=">>
             ge == <<">", "=">>
             le == <<"<", "=">>
             lt == <<"<">>
             gt == <<">">>
  <1>2. /\ e # eq /\ e # ge /\ e # le /\ e # lt /\ e # gt /\ eq # ge /\ eq # le /\ eq # lt /\ eq # gt
        /\ ge # le /\ ge # lt /\ ge # gt /\ le # lt /\ le # gt /\ lt # gt
    OBVIOUS
  <1>3. Compared(before, a, b) <=>
          \/ before \in {e, eq, le, ge} /\ a = b
          \/ before \in {lt, le} /\ a < b
          \/ before \in {gt, ge} /\ a > b
    BY DEF Compared
  <1>4. compares(before, a, b) <=>
          \/ before \in {e, eq} /\ a = b
          \/ before = ge /\ a >= b
          \/ before = le /\ a <= b
          \/ before = lt /\ a < b
          \/ before = gt /\ a > b
    BY <1>1 DEF compares
  <1>5. before \in {e, eq, ge, le, lt, gt}
    OBVIOUS
  <1> HIDE DEF e, eq, ge, le, lt, gt
  <1> QED
    BY <1>2, <1>3, <1>4, <1>5

\* A condition is understood and matches exactly when it holds of the event.
LEMMA ConditionAgrees ==
    ASSUME NEW in \in Inputs, ~ WithoutText(in), NEW c \in ConditionSet,
           \A i \in DOMAIN c.pattern : c.pattern[i] \notin Globs, AsksForText(c), CountGiven(c)
    PROVE  understood(c) /\ condition_matches(c, in) <=> Holds(c, in)
  <1> DEFINE e == in.event
             ev == flatten_event(e)
             users == "content.m\\.mentions.user_ids"
             room == "content.m\\.mentions.room"
  <1>1. Regular(e) /\ \A x \in in.related : Regular(x.event)
    BY RegularInput
  <1>2. c.pattern \in Seq(STRING) /\ c.value \subseteq Values
    BY DEF ConditionSet
  <1>3. /\ DOMAIN ev \subseteq FieldNames
        /\ "sender" \in DOMAIN ev /\ ev["sender"] = Text(<<e.sender>>)
        /\ "content.body" \in DOMAIN ev <=> e.body # {}
        /\ \A v \in e.body : ev["content.body"] = v
    BY <1>1, FlattenedText
  <1>4. /\ users \in DOMAIN ev <=> Mentioned(e) # {}
        /\ Mentioned(e) # {} => ev[users] = Array({Text(<<u>>) : u \in Mentioned(e)})
        /\ room \in DOMAIN ev <=> \E m \in e.mentions : m.room
        /\ room \in DOMAIN ev => ev[room] = True
    BY FlattenedMentions
  <1>5. CASE c.kind = "event_match"
    <2>1. PatternCondition_matches(c, ev) <=> Says(e, c.pattern, c.key)
      BY <1>1, <1>2, <1>5, PatternAgrees DEF AsksForText
    <2>2. understood(c) /\ (condition_matches(c, in) <=> PatternCondition_matches(c, ev))
      BY <1>5 DEF understood, condition_matches
    <2>3. Holds(c, in) <=> Says(e, c.pattern, c.key)
      BY <1>5 DEF Holds
    <2> QED
      BY <2>1, <2>2, <2>3
  <1>6. CASE c.kind = "event_property_is"
    <2>1. understood(c) <=> c.value # {}
      BY <1>6 DEF understood
    <2>2. condition_matches(c, in) <=> c.key \in DOMAIN ev /\ ev[c.key] \in c.value
      BY <1>6 DEF condition_matches, IsCondition_matches
    <2>3. Holds(c, in) <=> PropertyAt(e, c.key) \cap c.value # {}
      BY <1>6 DEF Holds
    <2>4. c.key # MentionsField
      BY <1>6 DEF AsksForText
    <2> HIDE DEF ev
    <2>5. CASE c.key = "sender"
      BY <1>3, <2>1, <2>2, <2>3, <2>5 DEF PropertyAt
    <2>6. CASE c.key = "content.body"
      <3>1. PropertyAt(e, c.key) = e.body
        BY <2>6 DEF PropertyAt
      <3>2. \A v, w \in e.body : v = w
        BY <1>1 DEF Regular
      <3> QED
        BY <1>3, <2>1, <2>2, <2>3, <2>6, <3>1, <3>2
    <2>7. CASE c.key = room
      <3>1. PropertyAt(e, c.key) = {True : m \in {x \in e.mentions : x.room}}
        BY <2>7 DEF PropertyAt
      <3> QED
        BY <1>4, <2>1, <2>2, <2>3, <2>7, <3>1
    <2>8. CASE c.key = users
      <3>1. PropertyAt(e, c.key) = {}
        BY <2>8 DEF PropertyAt
      <3>2. c.key \in DOMAIN ev => ev[c.key][1] = "array"
        BY <1>4, <2>8 DEF Array
      <3>3. \A v \in Values : v[1] # "array"
        BY DEF Values
      <3> QED
        BY <1>2, <2>2, <2>3, <3>1, <3>2, <3>3
    <2>9. CASE c.key \notin {"sender", "content.body", room, users}
      <3>1. PropertyAt(e, c.key) = {}
        BY <2>9 DEF PropertyAt
      <3>2. c.key \notin DOMAIN ev
        BY <1>3, <2>4, <2>9 DEF FieldNames
      <3> QED
        BY <2>2, <2>3, <3>1, <3>2
    <2> QED
      BY <2>5, <2>6, <2>7, <2>8, <2>9
  <1>7. CASE c.kind = "event_property_contains"
    <2>1. understood(c) <=> c.value # {}
      BY <1>7 DEF understood
    <2>2. condition_matches(c, in)
            <=> c.key \in DOMAIN ev /\ ev[c.key][1] = "array" /\ c.value \cap ev[c.key][2] # {}
      BY <1>7 DEF condition_matches, ContainsCondition_matches
    <2>3. Holds(c, in) <=> c.key = users /\ \E u \in Mentioned(e) : Text(<<u>>) \in c.value
      BY <1>7 DEF Holds
    <2>4. c.key # MentionsField
      BY <1>7 DEF AsksForText
    <2> HIDE DEF ev
    <2>5. CASE c.key = users
      <3>1. Mentioned(e) # {} => /\ ev[c.key][1] = "array"
                                 /\ ev[c.key][2] = {Text(<<u>>) : u \in Mentioned(e)}
        BY <1>4, <2>5 DEF Array
      <3> QED
        BY <1>4, <2>1, <2>2, <2>3, <2>5, <3>1
    <2>6. CASE c.key # users
      <3>1. c.key \in DOMAIN ev => c.key \in {"sender", "content.body", room}
        BY <1>3, <2>4, <2>6 DEF FieldNames
      <3>2. ev["sender"][1] = "text"
        BY <1>3 DEF Text
      <3>3. "content.body" \in DOMAIN ev => ev["content.body"][1] = "text"
        BY <1>1, <1>3 DEF Regular, IsText
      <3>4. room \in DOMAIN ev => ev[room][1] = "bool"
        BY <1>4 DEF True
      <3> QED
        BY <2>2, <2>3, <2>6, <3>1, <3>2, <3>3, <3>4
    <2> QED
      BY <2>5, <2>6
  <1>8. CASE c.kind = "related_event_match"
    <2>1. understood(c) <=> c.rel_type # "unsupported"
      BY <1>8 DEF understood
    <2>2. condition_matches(c, in) <=> related_matches(c, in.related)
      BY <1>8 DEF condition_matches
    <2>3. \A x \in in.related : PatternCondition_matches(c, flatten_event(x.event))
                                  <=> Says(x.event, c.pattern, c.key)
      BY <1>1, <1>2, <1>8, PatternAgrees DEF AsksForText
    <2>4. c.include_fallback \in BOOLEAN
      BY DEF ConditionSet
    <2>5. related_matches(c, in.related) <=>
            \E x \in in.related : /\ x.rel_type = c.rel_type /\ (c.include_fallback \/ ~x.is_fallback)
                                  /\ c.key = "" \/ c.pattern = <<>> \/ Says(x.event, c.pattern, c.key)
      BY <2>3, <2>4 DEF related_matches
    <2>6. Holds(c, in) <=> /\ c.rel_type # "unsupported"
                           /\ \E x \in in.related :
                                /\ x.rel_type = c.rel_type /\ (c.include_fallback \/ ~x.is_fallback)
                                /\ c.key = "" \/ c.pattern = <<>> \/ Says(x.event, c.pattern, c.key)
      BY <1>8 DEF Holds
    <2> QED
      BY <2>1, <2>2, <2>5, <2>6
  <1>9. CASE c.kind = "room_member_count"
    <2> DEFINE m == member_count_condition(c.is)
    <2>1. PICK n \in c.is.number : m.op = c.is.before /\ m.count = n /\ c.is.number = {n}
      BY <1>9, CountRead
    <2>2. c.is.before \in {<<>>, <<"=", "=">>, <<"<">>, <<">">>, <<">", "=">>, <<"<", "=">>}
      BY <1>9 DEF CountGiven
    <2>6. in.ctx.member_count \in Nat /\ n \in Nat
      BY InputsAssumption DEF ConditionSet, CountSet
    <2> HIDE DEF m
    <2>3. compares(m.op, in.ctx.member_count, m.count) <=> Compared(c.is.before, in.ctx.member_count, n)
      BY <2>1, <2>2, <2>6, ComparedAlike
    <2>4. condition_matches(c, in) <=> compares(m.op, in.ctx.member_count, m.count)
      BY <1>9 DEF condition_matches, m
    <2>5. Holds(c, in) <=> Compared(c.is.before, in.ctx.member_count, n)
      BY <1>9, <2>1 DEF Holds
    <2> QED
      BY <1>9, <2>3, <2>4, <2>5 DEF understood
  <1>10. CASE c.kind = "sender_notification_permission"
    BY <1>10 DEF understood, condition_matches, Holds
  <1>11. CASE c.kind = "contains_display_name"
    <2> DEFINE named(t) == AsWord(t, LAMBDA s : s = in.ctx.user_display_name)
    <2>1. understood(c)
      BY <1>11 DEF understood
    <2>2. condition_matches(c, in) <=>
            /\ in.ctx.user_display_name # <<>>
            /\ "content.body" \in DOMAIN ev /\ IsText(ev["content.body"])
            /\ named(ev["content.body"][2])
      BY <1>11 DEF condition_matches
    <2>3. Holds(c, in) <=> /\ in.ctx.user_display_name # <<>>
                           /\ \E t \in TextAt(e, "content.body") : named(t)
      BY <1>11 DEF Holds
    <2>4. TextAt(e, "content.body") = {v[2] : v \in e.body}
      BY <1>1 DEF TextAt, Regular
    <2> HIDE DEF ev, named
    <2>5. CASE e.body = {}
      BY <1>3, <2>2, <2>3, <2>4, <2>5
    <2>6. CASE e.body # {}
      <3>1. PICK v : e.body = {v} /\ IsText(v)
        BY <1>1, <2>6 DEF Regular
      <3>2. "content.body" \in DOMAIN ev /\ ev["content.body"] = v
        BY <1>3, <3>1
      <3>3. TextAt(e, "content.body") = {v[2]}
        BY <2>4, <3>1
      <3> QED
        BY <2>1, <2>2, <2>3, <3>1, <3>2, <3>3
    <2> QED
      BY <2>5, <2>6
  <1>12. CASE c.kind \notin {"event_match", "event_property_is", "event_property_contains",
                             "related_event_match", "room_member_count",
                             "sender_notification_permission", "contains_display_name"}
    BY <1>12 DEF understood, Holds
  <1> QED
    BY <1>5, <1>6, <1>7, <1>8, <1>9, <1>10, <1>11, <1>12

\* The actions of the first rule of a set of places.
First(list, A) == IF A = {} THEN {} ELSE {list[CHOOSE i \in A : \A j \in A : i <= j].actions}

\* The premises of FollowsRules.
Plain == /\ RulesInv /\ ~ UsesGlobs /\ UniqueIds
         /\ \A c \in Conditions : AsksForText(c) /\ CountGiven(c)

\* The first rule that matches is the first of the rules that match.
LEMMA FirstMatch ==
    ASSUME NEW in, NEW list, NEW L, NEW A \in SUBSET Nat,
           A = {i \in DOMAIN L : OptimizedRule_matches(L[i], in)},
           \A i \in DOMAIN L : L[i].actions = list[i].actions
    PROVE  first_match(L, in) = First(list, A)
  <1> DEFINE first == CHOOSE i \in A : \A j \in A : i <= j
  <1>1. CASE A = {}
    BY <1>1 DEF first_match, First
  <1>2. CASE A # {}
    <2>1. first \in A
      BY <1>2, LeastExists
    <2>2. first \in DOMAIN L
      BY <2>1
    <2>3. first_match(L, in) = {L[first].actions}
      BY <1>2 DEF first_match
    <2> HIDE DEF first
    <2>4. L[first].actions = list[first].actions
      BY <2>2
    <2> QED
      BY <1>2, <2>3, <2>4 DEF First, first
  <1> QED
    BY <1>1, <1>2

\* A compiled rule has the actions of the rule.
LEMMA RuleActions == \A r, conditions, supports : OptimizedRule(r, conditions, supports).actions = r.actions
  BY DEF OptimizedRule

\* A rule by name steps back exactly when the event has an m.mentions object.
LEMMA StepsBack ==
    ASSUME NEW in, NEW r, NEW conditions, NEW supports \in BOOLEAN
    PROVE  OptimizedRule_matches(OptimizedRule(r, conditions, supports), in) <=>
             /\ ~ (r.rule_id \in NameRules /\ supports /\ in.event.mentions # {})
             /\ \A i \in DOMAIN conditions : condition_matches(conditions[i], in)
  <1>1. MentionsField \in DOMAIN flatten_event(in.event) <=> in.event.mentions # {}
    BY FlattenedMentions
  <1> QED
    BY <1>1 DEF OptimizedRule_matches, OptimizedRule

\* The rules an application holds.
LEMMA RulesHeld ==
    ASSUME RulesInv, NEW k \in Kinds
    PROVE  /\ DOMAIN rules = Kinds /\ rules[k] \in Seq(RuleSet(Actions))
           /\ DOMAIN rules[k] \subseteq Nat
           /\ \A i \in DOMAIN rules[k] : rules[k][i] \in RuleSet(Actions)
  BY DEF RulesInv, Ruleset

\* The patterns of the conditions are among the patterns.
LEMMA ConditionPattern == \A c \in Conditions : c.pattern \in Patterns
  BY Zenon DEF Patterns

\* The conditions of such a rule, of which FollowsRules knows enough.
LEMMA ConditionsHeld ==
    ASSUME Plain, NEW k \in Kinds, NEW i \in DOMAIN rules[k], NEW j \in DOMAIN rules[k][i].conditions
    PROVE  LET c == rules[k][i].conditions[j]
           IN  /\ c \in ConditionSet /\ AsksForText(c) /\ CountGiven(c)
               /\ \A n \in DOMAIN c.pattern : c.pattern[n] \notin Globs
  <1> DEFINE c == rules[k][i].conditions[j]
  <1>1. DOMAIN rules = Kinds /\ rules[k][i] \in RuleSet(Actions)
    BY RulesHeld DEF Plain
  <1>2. c \in ConditionSet
    BY <1>1 DEF RuleSet
  <1>3. c \in Conditions
    BY <1>1 DEF Conditions
  <1> HIDE DEF c
  <1>4. c.pattern \in Patterns
    BY <1>3, ConditionPattern
  <1>5. \A n \in DOMAIN c.pattern : c.pattern[n] \notin Globs
    BY <1>4 DEF Plain, UsesGlobs
  <1>6. AsksForText(c) /\ CountGiven(c)
    BY <1>3 DEF Plain
  <1> QED
    BY <1>2, <1>5, <1>6 DEF c

\* Rules with conditions: the compiled ones match where the rules apply.
LEMMA ConditionsAgree ==
    ASSUME Plain, NEW in \in Inputs, ~ WithoutText(in), NEW k \in {1, 5}
    PROVE  first_match(compiled(rules[RuleKinds[k]], server_supports_mentions(rules)), in)
             = First(rules[RuleKinds[k]], Applying(k, in))
  <1> DEFINE kind == RuleKinds[k]
             list == rules[kind]
             sup == server_supports_mentions(rules)
             L == compiled(list, sup)
             A == Applying(k, in)
  <1>1. kind \in Kinds /\ kind \in {"override", "underride"}
    BY DEF RuleKinds, Kinds
  <1> HIDE DEF kind
  <1>2. DOMAIN list \subseteq Nat /\ \A i \in DOMAIN list : list[i] \in RuleSet(Actions)
    BY <1>1, RulesHeld DEF Plain
  <1>3. /\ DOMAIN L = {i \in DOMAIN list : /\ list[i].enabled
                        /\ \A j \in DOMAIN list[i].conditions : understood(list[i].conditions[j])}
        /\ \A i \in DOMAIN L : L[i] = OptimizedRule(list[i], list[i].conditions, sup)
    BY DEF compiled
  <1>4. sup \in BOOLEAN
    BY DEF server_supports_mentions
  <1> HIDE DEF L
  <1>5. \A i \in DOMAIN L : L[i].actions = list[i].actions
    BY <1>3, RuleActions
  <1>6. ASSUME NEW i \in DOMAIN list
        PROVE  i \in A <=> i \in DOMAIN L /\ OptimizedRule_matches(L[i], in)
    <2> DEFINE r == list[i]
               named == r.rule_id \in NameRules /\ sup /\ in.event.mentions # {}
    <2>1. i \in A <=> r.enabled /\ (\A j \in DOMAIN r.conditions : Holds(r.conditions[j], in)) /\ ~ named
      BY <1>1 DEF Applying, Applies, kind
    <2>2. \A j \in DOMAIN r.conditions :
            understood(r.conditions[j]) /\ condition_matches(r.conditions[j], in) <=> Holds(r.conditions[j], in)
      BY <1>1, ConditionsHeld, ConditionAgrees
    <2>3. i \in DOMAIN L <=> r.enabled /\ \A j \in DOMAIN r.conditions : understood(r.conditions[j])
      BY <1>3
    <2>4. i \in DOMAIN L => (OptimizedRule_matches(L[i], in) <=>
             ~ named /\ \A j \in DOMAIN r.conditions : condition_matches(r.conditions[j], in))
      BY <1>3, <1>4, StepsBack
    <2> HIDE DEF r, named, A
    <2> QED
      BY <2>1, <2>2, <2>3, <2>4
  <1>7. A \subseteq DOMAIN list
    BY DEF Applying, kind
  <1>8. A = {i \in DOMAIN L : OptimizedRule_matches(L[i], in)} /\ A \in SUBSET Nat
    BY <1>2, <1>3, <1>6, <1>7
  <1> HIDE DEF A
  <1>9. first_match(L, in) = First(list, A)
    BY <1>5, <1>8, FirstMatch
  <1> QED
    BY <1>9 DEF L, A, kind

\* Content rules: their only condition is the pattern for the text.
LEMMA ContentAgrees ==
    ASSUME Plain, NEW in \in Inputs, ~ WithoutText(in)
    PROVE  first_match(compiled_content(rules.content, server_supports_mentions(rules)), in)
             = First(rules.content, Applying(2, in))
  <1> DEFINE list == rules.content
             sup == server_supports_mentions(rules)
             cond(i) == [Cond("event_match") EXCEPT !.key = "content.body", !.pattern = list[i].pattern]
             body(i) == <<cond(i)>>
             L == compiled_content(list, sup)
             A == Applying(2, in)
  <1>1. "content" \in Kinds
    BY DEF Kinds
  <1>2. /\ DOMAIN rules = Kinds /\ DOMAIN list \subseteq Nat
        /\ \A i \in DOMAIN list : list[i] \in RuleSet(Actions)
    BY <1>1, RulesHeld DEF Plain
  <1>3. /\ DOMAIN L = {i \in DOMAIN list : list[i].enabled /\ list[i].pattern # <<>>}
        /\ \A i \in DOMAIN L : L[i] = OptimizedRule(list[i], body(i), sup)
    BY DEF compiled_content
  <1>4. sup \in BOOLEAN
    BY DEF server_supports_mentions
  <1> HIDE DEF L
  <1>5. \A i \in DOMAIN L : L[i].actions = list[i].actions
    <2> HIDE DEF list, body, sup
    <2> QED BY <1>3, RuleActions
  <1>6. ASSUME NEW i \in DOMAIN list
        PROVE  i \in A <=> i \in DOMAIN L /\ OptimizedRule_matches(L[i], in)
    <2> DEFINE r == list[i]
               named == r.rule_id \in NameRules /\ sup /\ in.event.mentions # {}
               c == cond(i)
    <2>1. i \in A <=> r.enabled /\ r.pattern # <<>> /\ Says(in.event, r.pattern, "content.body") /\ ~ named
      BY DEF Applying, Applies, RuleKinds
    <2>2. c.kind = "event_match" /\ c.key = "content.body" /\ c.pattern = r.pattern
      BY DEF Cond
    <2>3. r.pattern \in Seq(STRING)
      BY <1>2 DEF RuleSet
    <2>4. \A n \in DOMAIN r.pattern : r.pattern[n] \notin Globs
      <3>1. r.pattern \in {rules["content"][n].pattern : n \in DOMAIN rules["content"]}
        OBVIOUS
      <3>2. r.pattern \in Patterns
        BY <1>1, <1>2, <3>1 DEF Patterns
      <3> HIDE DEF r
      <3> QED
        BY <3>2 DEF Plain, UsesGlobs
    <2>5. DOMAIN body(i) = {1} /\ body(i)[1] = c
      OBVIOUS
    <2> HIDE DEF r, c, A
    <2>6. condition_matches(c, in) <=> PatternCondition_matches(c, flatten_event(in.event))
      BY <2>2 DEF condition_matches
    <2>7. PatternCondition_matches(c, flatten_event(in.event)) <=> Says(in.event, r.pattern, "content.body")
      BY <2>2, <2>3, <2>4, PatternAgrees, RegularInput DEF NoTexts, MentionsField
    <2>8. i \in DOMAIN L <=> r.enabled /\ r.pattern # <<>>
      BY <1>3 DEF r
    <2>9. i \in DOMAIN L => (OptimizedRule_matches(L[i], in) <=>
             ~ named /\ \A j \in DOMAIN body(i) : condition_matches(body(i)[j], in))
      <3>1. i \in DOMAIN L => L[i] = OptimizedRule(list[i], body(i), sup)
        BY <1>3
      <3> HIDE DEF body, sup
      <3>2. OptimizedRule_matches(OptimizedRule(list[i], body(i), sup), in) <=>
              ~ named /\ \A j \in DOMAIN body(i) : condition_matches(body(i)[j], in)
        BY <1>4, StepsBack DEF r
      <3> QED
        BY <3>1, <3>2
    <2> HIDE DEF named
    <2> QED
      BY <2>1, <2>5, <2>6, <2>7, <2>8, <2>9
  <1>7. A \subseteq DOMAIN list
    BY DEF Applying, RuleKinds
  <1>8. A = {i \in DOMAIN L : OptimizedRule_matches(L[i], in)} /\ A \in SUBSET Nat
    BY <1>2, <1>3, <1>6, <1>7
  <1> HIDE DEF A
  <1>9. first_match(L, in) = First(list, A)
    BY <1>5, <1>8, FirstMatch
  <1> QED
    BY <1>9 DEF L, A

\* A map of rules by their ids finds the only enabled rule of an id.
LEMMA FoundById ==
    ASSUME NEW B, NEW list \in Seq(B), NEW ids, NEW id \in ids, NEW A,
           A = {i \in DOMAIN list : list[i].enabled /\ list[i].rule_id = id},
           \A i, j \in A : i = j
    PROVE  by_id(compiled_ids(list, ids), id) = First(list, A)
  <1> DEFINE map == compiled_ids(list, ids)
             I == {i \in DOMAIN list : list[i].enabled /\ list[i].rule_id \in ids}
             of == {i \in I : list[i].rule_id = id}
             last == CHOOSE i \in of : \A j \in of : j <= i
  <1>1. of = A
    OBVIOUS
  <1>2. /\ DOMAIN map = {list[i].rule_id : i \in I}
        /\ id \in DOMAIN map => map[id] = list[last].actions
    BY DEF compiled_ids
  <1> HIDE DEF map
  <1>3. id \in DOMAIN map <=> A # {}
    BY <1>1, <1>2
  <1>4. CASE A = {}
    BY <1>3, <1>4 DEF by_id, First, map
  <1>5. CASE A # {}
    <2>1. PICK a \in A : A = {a}
      BY <1>5
    <2>2. a \in Nat /\ a <= a
      BY <2>1
    <2>3. last = a
      <3> HIDE DEF of
      <3> QED BY <1>1, <2>1, <2>2
    <2>4. (CHOOSE i \in A : \A j \in A : i <= j) = a
      BY <2>1, <2>2
    <2>5. First(list, A) = {list[a].actions}
      BY <1>5, <2>4 DEF First
    <2>6. id \in DOMAIN map /\ map[id] = list[a].actions
      BY <1>2, <1>3, <1>5, <2>3
    <2>7. by_id(map, id) = {map[id]}
      BY <2>6 DEF by_id
    <2> QED
      BY <2>5, <2>6, <2>7 DEF map
  <1> QED
    BY <1>4, <1>5

\* Room and sender rules: the map finds the rule that applies.
LEMMA IdsAgree ==
    ASSUME Plain, NEW in \in Inputs
    PROVE  /\ by_id(compiled_ids(rules.room, RoomIds), in.event.room_id)
                = First(rules.room, Applying(3, in))
           /\ by_id(compiled_ids(rules.sender, UserIds), in.event.sender)
                = First(rules.sender, Applying(4, in))
  <1>1. in.event.room_id \in RoomIds /\ in.event.sender \in UserIds
    BY InputsAssumption
  <1>2. in.event.room_id \notin NameRules /\ in.event.sender \notin NameRules
    BY <1>1, IdsAssumption
  <1>3. rules.room \in Seq(RuleSet(Actions)) /\ rules.sender \in Seq(RuleSet(Actions))
    BY RulesHeld DEF Plain, Kinds
  <1>4. /\ Applying(3, in) = {i \in DOMAIN rules.room : /\ rules.room[i].enabled
                                                        /\ rules.room[i].rule_id = in.event.room_id}
        /\ Applying(4, in) = {i \in DOMAIN rules.sender : /\ rules.sender[i].enabled
                                                          /\ rules.sender[i].rule_id = in.event.sender}
    BY <1>2 DEF Applying, Applies, RuleKinds
  <1>5. (\A i, j \in Applying(3, in) : i = j) /\ \A i, j \in Applying(4, in) : i = j
    BY <1>4 DEF Plain, UniqueIds
  <1> QED
    BY <1>1, <1>3, <1>4, <1>5, FoundById

\* The first kind that has a rule to apply decides, and in it the first rule.
LEMMA FirstOfKinds ==
    ASSUME NEW in, NEW answers, DOMAIN answers = 1 .. 5,
           \A k \in 1 .. 5 : /\ answers[k] = First(rules[RuleKinds[k]], Applying(k, in))
                             /\ Applying(k, in) \in SUBSET Nat
    PROVE  LET I == {i \in DOMAIN answers : answers[i] # {}}
           IN  (IF I = {} THEN <<>> ELSE CHOOSE a \in answers[CHOOSE i \in I : \A j \in I : i <= j] : TRUE)
                 = Prescribed(in)
  <1> DEFINE I == {i \in DOMAIN answers : answers[i] # {}}
             fit == UNION {{<<k, i>> : i \in Applying(k, in)} : k \in 1 .. 5}
             least(p) == \A q \in fit : p[1] < q[1] \/ (p[1] = q[1] /\ p[2] <= q[2])
             first == CHOOSE p \in fit : least(p)
             K == CHOOSE i \in I : \A j \in I : i <= j
             A == Applying(K, in)
             n == CHOOSE i \in A : \A j \in A : i <= j
  <1>1. I = {k \in 1 .. 5 : Applying(k, in) # {}}
    BY DEF First
  <1>2. Prescribed(in) = IF fit = {} THEN <<>> ELSE rules[RuleKinds[first[1]]][first[2]].actions
    BY DEF Prescribed
  <1>3. \A p : p \in fit <=> \E k \in 1 .. 5 : \E i \in Applying(k, in) : p = <<k, i>>
    OBVIOUS
  <1> HIDE DEF fit
  <1>4. CASE I = {}
    <2>1. fit = {}
      BY <1>1, <1>3, <1>4
    <2> QED
      BY <1>2, <1>4, <2>1
  <1>5. CASE I # {}
    <2>1. I \in SUBSET Nat
      BY <1>1
    <2>2. K \in I /\ \A j \in I : K <= j
      <3> HIDE DEF I
      <3> QED BY <1>5, <2>1, LeastExists
    <2> HIDE DEF I, K
    <2>3. K \in 1 .. 5 /\ A # {} /\ A \in SUBSET Nat
      BY <1>1, <2>2
    <2>4. n \in A /\ \A j \in A : n <= j
      <3> HIDE DEF A
      <3> QED BY <2>3, LeastExists
    <2> HIDE DEF A, n
    <2>5. <<K, n>> \in fit
      BY <1>3, <2>3, <2>4 DEF A
    <2>6. ASSUME NEW q \in fit PROVE K < q[1] \/ (K = q[1] /\ n <= q[2])
      <3>1. PICK k \in 1 .. 5 : \E i \in Applying(k, in) : q = <<k, i>>
        BY <1>3
      <3>2. PICK i \in Applying(k, in) : q = <<k, i>>
        BY <3>1
      <3>3. k \in I
        BY <1>1, <3>2
      <3>4. K <= k
        BY <2>2, <3>3
      <3>5. K = k => n <= i
        BY <2>4, <3>2 DEF A
      <3> QED
        BY <2>3, <3>2, <3>4, <3>5
    <2>7. <<K, n>>[1] = K /\ <<K, n>>[2] = n
      OBVIOUS
    <2>8. least(<<K, n>>)
      BY <2>6, <2>7
    <2>9. ASSUME NEW p \in fit, least(p) PROVE p = <<K, n>>
      <3>1. PICK k \in 1 .. 5 : \E i \in Applying(k, in) : p = <<k, i>>
        BY <1>3
      <3>2. PICK i \in Applying(k, in) : p = <<k, i>>
        BY <3>1
      <3>3. i \in Nat /\ n \in Nat
        BY <2>3, <2>4, <3>2
      <3>4. k < K \/ (k = K /\ i <= n)
        BY <2>5, <2>7, <2>9, <3>2
      <3>5. K < k \/ (K = k /\ n <= i)
        BY <2>6, <3>2
      <3>6. k = K /\ i = n
        BY <2>3, <3>3, <3>4, <3>5
      <3> QED
        BY <3>2, <3>6
    <2> HIDE DEF least
    <2>10. first = <<K, n>>
      BY <2>5, <2>8, <2>9
    <2>11. first[1] = K /\ first[2] = n
      BY <2>7, <2>10
    <2> HIDE DEF first
    <2>12. Prescribed(in) = rules[RuleKinds[K]][n].actions
      BY <1>2, <2>5, <2>11
    <2>13. answers[K] = {rules[RuleKinds[K]][n].actions}
      <3>1. answers[K] = First(rules[RuleKinds[K]], A)
        BY <2>3 DEF A
      <3> QED
        BY <2>3, <3>1 DEF First, n
    <2>14. (CHOOSE a \in answers[K] : TRUE) = rules[RuleKinds[K]][n].actions
      BY <2>13
    <2> QED
      BY <1>5, <2>12, <2>14 DEF I, K
  <1> QED
    BY <1>4, <1>5

\* PushRuleEvaluator does what the rules prescribe, for every ruleset and every
\* event: the actions are those of the first enabled rule, kind by kind, whose
\* conditions all hold of the event itself.
THEOREM RulesAreFollowed == Spec => []FollowsRules
  <1>1. RulesInv => FollowsRules
    <2> SUFFICES ASSUME Plain, NEW in \in Inputs, ~ WithoutText(in)
                 PROVE  evaluate(evaluator, in) = Prescribed(in)
      BY DEF FollowsRules, Plain
    <2> DEFINE sup == server_supports_mentions(rules)
               answers == <<first_match(compiled(rules.override, sup), in),
                            first_match(compiled_content(rules.content, sup), in),
                            by_id(compiled_ids(rules.room, RoomIds), in.event.room_id),
                            by_id(compiled_ids(rules.sender, UserIds), in.event.sender),
                            first_match(compiled(rules.underride, sup), in)>>
    <2>1. evaluator = PushRuleEvaluator(rules)
      BY DEF Plain, RulesInv
    <2>2. /\ evaluator.override = compiled(rules.override, sup)
          /\ evaluator.content = compiled_content(rules.content, sup)
          /\ evaluator.room = compiled_ids(rules.room, RoomIds)
          /\ evaluator.sender = compiled_ids(rules.sender, UserIds)
          /\ evaluator.underride = compiled(rules.underride, sup)
      BY <2>1 DEF PushRuleEvaluator
    <2>3. /\ RuleKinds[1] = "override" /\ RuleKinds[2] = "content" /\ RuleKinds[3] = "room"
          /\ RuleKinds[4] = "sender" /\ RuleKinds[5] = "underride"
      BY DEF RuleKinds
    <2>4. /\ DOMAIN answers = 1 .. 5
          /\ answers[1] = first_match(compiled(rules.override, sup), in)
          /\ answers[2] = first_match(compiled_content(rules.content, sup), in)
          /\ answers[3] = by_id(compiled_ids(rules.room, RoomIds), in.event.room_id)
          /\ answers[4] = by_id(compiled_ids(rules.sender, UserIds), in.event.sender)
          /\ answers[5] = first_match(compiled(rules.underride, sup), in)
      OBVIOUS
    <2>5. /\ answers[1] = First(rules.override, Applying(1, in))
          /\ answers[5] = First(rules.underride, Applying(5, in))
      BY <2>3, <2>4, ConditionsAgree
    <2>6. /\ answers[2] = First(rules.content, Applying(2, in))
          /\ answers[3] = First(rules.room, Applying(3, in))
          /\ answers[4] = First(rules.sender, Applying(4, in))
      BY <2>4, ContentAgrees, IdsAgree
    <2>7. ASSUME NEW k \in 1 .. 5
          PROVE  /\ answers[k] = First(rules[RuleKinds[k]], Applying(k, in))
                 /\ Applying(k, in) \in SUBSET Nat
      <3>1. RuleKinds[k] \in Kinds
        BY <2>3 DEF Kinds
      <3>2. DOMAIN rules[RuleKinds[k]] \subseteq Nat
        BY <3>1, RulesHeld DEF Plain
      <3>3. Applying(k, in) \in SUBSET Nat
        BY <3>2 DEF Applying
      <3>4. k \in {1, 2, 3, 4, 5}
        OBVIOUS
      <3> HIDE DEF answers
      <3> QED
        BY <2>3, <2>5, <2>6, <3>3, <3>4
    <2>8. evaluate(evaluator, in) =
            LET I == {i \in DOMAIN answers : answers[i] # {}}
            IN  IF I = {} THEN <<>> ELSE CHOOSE a \in answers[CHOOSE i \in I : \A j \in I : i <= j] : TRUE
      BY <2>2 DEF evaluate
    <2> HIDE DEF answers
    <2> QED
      BY <2>4, <2>7, <2>8, FirstOfKinds
  <1> QED
    BY <1>1, RulesInvariant, PTL
=============================================================================
