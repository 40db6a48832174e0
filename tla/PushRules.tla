----------------------------- MODULE PushRules -----------------------------
(***************************************************************************)
(* Push rules: the ruleset of an account, its JSON, and PushRuleEvaluator, *)
(* which compiles a ruleset once and then tells for each event what to do. *)
(* An application reads the rules of the server, switches rules on and off *)
(* there, makes rules of its own and puts the rules it holds.              *)
(***************************************************************************)
EXTENDS Naturals, Sequences

CONSTANTS Rulesets,  \* the rulesets an account may start with
          Own,       \* the rulesets an application may make itself
          Inputs,    \* events with their room and the events they relate to
          RoomIds,   \* the ids that begin like a room's
          UserIds    \* and like a user's

VARIABLES stored,    \* the account's rules on the server, as JSON
          rules,     \* the Ruleset the application holds
          evaluator  \* the PushRuleEvaluator made from it

vars == <<stored, rules, evaluator>>
-----------------------------------------------------------------------------
\* Text is a sequence of characters; case does not matter and is left out.
\* JSON values of an event's fields.
Text(s)   == <<"text", s>>
True      == <<"bool", TRUE>>
Null      == <<"null", FALSE>>
Array(S)  == <<"array", S>>
IsText(v) == v[1] = "text"
NonWord   == {" ", "."}
Globs     == {"*", "?"}

\* A pattern matches a text if the text can be cut into one piece per character
\* of the pattern.
Matches(p, t, fits(_, _)) ==
  \E cut \in [0 .. Len(p) -> 0 .. Len(t)] :
    /\ cut[0] = 0 /\ cut[Len(p)] = Len(t)
    /\ \A i \in 1 .. Len(p) :
         cut[i - 1] <= cut[i] /\ fits(p[i], SubSeq(t, cut[i - 1] + 1, cut[i]))
\* (\W|^)...(\W|$), anywhere in the text.
AsWord(t, Matching(_)) ==
  \E i \in 1 .. Len(t) + 1 : \E j \in i - 1 .. Len(t) :
    /\ Matching(SubSeq(t, i, j))
    /\ i = 1 \/ t[i - 1] \in NonWord
    /\ j = Len(t) \/ t[j + 1] \in NonWord

\* construct_re_from_pattern: QuoteMeta puts a backslash before every special
\* character, and the replacement of the globs leaves it there.  What was meant
\* as any characters becomes a quoted, that is literal, dot.
re_fits(c, piece) ==
  CASE c = "*" -> \A i \in DOMAIN piece : piece[i] = "."
    [] c = "?" -> piece = <<".">>
    [] OTHER   -> piece = <<c>>
\* PartialMatch for the body, FullMatch for other fields.
re_matches(p, field, t) ==
  IF field = "content.body" THEN AsWord(t, LAMBDA s : Matches(p, s, re_fits))
                            ELSE Matches(p, t, re_fits)
-----------------------------------------------------------------------------
\* Conditions and rules.  is: the characters before the first digit, and the
\* number; number and value: a set of at most one.
Cond(kind) == [kind |-> kind, key |-> "", pattern |-> <<>>, value |-> {},
               is |-> [before |-> <<>>, number |-> {}],
               rel_type |-> "unsupported", include_fallback |-> FALSE]
Rule(id, pattern, conditions, actions) ==
  [rule_id |-> id, enabled |-> TRUE, pattern |-> pattern, conditions |-> conditions,
   actions |-> actions]
\* The structs; the actions of a rule are those of set A.
Values == ({"text"} \X Seq(STRING)) \cup ({"bool", "null"} \X BOOLEAN)
CountSet == [before : Seq(STRING), number : SUBSET Nat]
ConditionSet == [kind : STRING, key : STRING, pattern : Seq(STRING), value : SUBSET Values,
                 is : CountSet, rel_type : STRING, include_fallback : BOOLEAN]
RuleSet(A) == [rule_id : STRING, enabled : BOOLEAN, pattern : Seq(STRING),
               conditions : Seq(ConditionSet), actions : Seq(A)]
Kinds == {"override", "content", "room", "sender", "underride"}
Ruleset(A) == [Kinds -> Seq(RuleSet(A))]
\* The alternatives of Action; in JSON an action is any string, or null.
Actions == {"notify", "dont_notify", "coalesce", "sound", "highlight"}
JsonActions == Actions \cup {"null"} \cup STRING
ASSUME PushRulesAssumption == Rulesets \subseteq Ruleset(JsonActions) /\ Own \subseteq Ruleset(Actions)

RuleKinds == <<"override", "content", "room", "sender", "underride">>

\* to_json and from_json.  include_fallback is read but not written.  coalesce is
\* written as null, and that, the string coalesce and every other action that
\* from_json does not know leave the first alternative, notify.
action_to_json(a)   == IF a = "coalesce" THEN "null" ELSE a
action_from_json(a) == IF a \in {"notify", "dont_notify", "sound", "highlight"} THEN a ELSE "notify"
condition_to_json(c) == [c EXCEPT !.include_fallback = FALSE]
\* Mutant: enabled is written for enabled rules only.
rule_without_enabled(r) ==
  [r EXCEPT !.enabled = TRUE, !.actions = [i \in DOMAIN r.actions |-> action_to_json(r.actions[i])]]
rule_to_json(r) ==
  [r EXCEPT !.actions    = [i \in DOMAIN r.actions |-> action_to_json(r.actions[i])],
            !.conditions = [i \in DOMAIN r.conditions |-> condition_to_json(r.conditions[i])]]
rule_from_json(r) ==
  [r EXCEPT !.actions = [i \in DOMAIN r.actions |-> action_from_json(r.actions[i])]]
EachRule(set, f(_)) == [k \in DOMAIN set |-> [i \in DOMAIN set[k] |-> f(set[k][i])]]
ruleset_to_json(set)   == EachRule(set, rule_to_json)
ruleset_from_json(set) == EachRule(set, rule_from_json)
-----------------------------------------------------------------------------
\* PushRuleEvaluator's constructor.  Rules that name users in their text step
\* back on servers that know m.mentions, which a rule id gives away.
NameRules == {".m.rule.contains_display_name", ".m.rule.roomnotif", ".m.rule.contains_user_name"}
ASSUME IdsAssumption == (RoomIds \cup UserIds) \cap NameRules = {}
\* Mutant: a disabled rule does not count.
supports_mentions_if_enabled(set) ==
  \E i \in DOMAIN set.override :
    set.override[i].rule_id = ".m.rule.is_user_mention" /\ set.override[i].enabled
server_supports_mentions(set) ==
  \E i \in DOMAIN set.override : set.override[i].rule_id = ".m.rule.is_user_mention"

\* add_conditions_to_rule fails for a condition it does not know, for a property
\* without a value and for a relation of an unknown type.
understood(c) ==
  \/ c.kind \in {"event_match", "contains_display_name", "room_member_count",
                 "sender_notification_permission"}
  \/ c.kind \in {"event_property_is", "event_property_contains"} /\ c.value # {}
  \/ c.kind = "related_event_match" /\ c.rel_type # "unsupported"

OptimizedRule(r, conditions, supports) ==
  [actions |-> r.actions, conditions |-> conditions,
   no_mentions_field |-> supports /\ r.rule_id \in NameRules]
\* A compiled rule keeps the place it has in the ruleset.
compiled(list, supports) ==
  LET used == {i \in DOMAIN list : /\ list[i].enabled
                                   /\ \A j \in DOMAIN list[i].conditions : understood(list[i].conditions[j])}
  IN  [i \in used |-> OptimizedRule(list[i], list[i].conditions, supports)]
compiled_content(list, supports) ==
  LET used == {i \in DOMAIN list : list[i].enabled /\ list[i].pattern # <<>>}
      body(r) == <<[Cond("event_match") EXCEPT !.key = "content.body", !.pattern = r.pattern]>>
  IN  [i \in used |-> OptimizedRule(list[i], body(list[i]), supports)]
\* Room and sender rules become a map; the last rule of an id counts.  An id is
\* a room's or a user's if it begins like one.
compiled_ids(list, ids) ==
  LET I == {i \in DOMAIN list : list[i].enabled /\ list[i].rule_id \in ids}
      of(id) == {i \in I : list[i].rule_id = id}
  IN  [id \in {list[i].rule_id : i \in I} |->
         list[CHOOSE i \in of(id) : \A j \in of(id) : j <= i].actions]
PushRuleEvaluator(set) ==
  LET supports == server_supports_mentions(set)
  IN  [override  |-> compiled(set.override, supports),
       content   |-> compiled_content(set.content, supports),
       room      |-> compiled_ids(set.room, RoomIds),
       sender    |-> compiled_ids(set.sender, UserIds),
       underride |-> compiled(set.underride, supports)]
-----------------------------------------------------------------------------
\* flatten_event: the fields of an event by their path, in which a dot inside a
\* key is quoted.  An m.mentions object leaves a mark of its own.
MentionsField == "content.m\\.mentions"
FieldNames == {"sender", "content.body", MentionsField, "content.m\\.mentions.user_ids",
               "content.m\\.mentions.room"}
flatten_event(e) ==
  LET users == UNION {m.user_ids : m \in e.mentions}
      values(name) ==
        CASE name = "sender"       -> {Text(<<e.sender>>)}
          [] name = "content.body" -> e.body
          [] name = MentionsField  -> {Null : m \in e.mentions}
          [] name = "content.m\\.mentions.user_ids" ->
               IF users = {} THEN {} ELSE {Array({Text(<<u>>) : u \in users})}
          [] name = "content.m\\.mentions.room" -> {True : m \in {x \in e.mentions : x.room}}
  IN  [name \in {n \in FieldNames : values(n) # {}} |-> CHOOSE v \in values(name) : TRUE]

PatternCondition_matches(c, ev) ==
  /\ c.key \in DOMAIN ev
  /\ IsText(ev[c.key]) => re_matches(c.pattern, c.key, ev[c.key][2])
IsCondition_matches(c, ev) == c.key \in DOMAIN ev /\ ev[c.key] \in c.value
ContainsCondition_matches(c, ev) ==
  c.key \in DOMAIN ev /\ ev[c.key][1] = "array" /\ c.value \cap ev[c.key][2] # {}

\* PowerLevels::user_level, with the creators of room version 12 above all, and
\* notification_level.
Creator == 1000
user_level(ctx, user) ==
  IF user \in ctx.creators THEN Creator
  ELSE IF user \in DOMAIN ctx.users THEN ctx.users[user] ELSE ctx.users_default
notification_level(ctx, key) == IF key \in DOMAIN ctx.notifications THEN ctx.notifications[key] ELSE 50

\* room_member_count: the first prefix that is says, and the number if it follows
\* at once; otherwise from_chars reads nothing and the count stays 0.
Prefixes == <<<<"=", "=">>, <<">", "=">>, <<"<", "=">>, <<"<">>, <<">">>>>
starts_with(s, p) == Len(p) <= Len(s) /\ \A i \in DOMAIN p : s[i] = p[i]
member_count_condition(is) ==
  LET I == {i \in DOMAIN Prefixes : starts_with(is.before, Prefixes[i])}
      prefix == IF I = {} THEN <<>> ELSE Prefixes[CHOOSE i \in I : \A j \in I : i <= j]
      number == IF Len(is.before) = Len(prefix) THEN is.number ELSE {}
  IN  [op |-> prefix, count |-> IF number = {} THEN 0 ELSE CHOOSE n \in number : TRUE]
compares(op, a, b) ==
  \/ op \in {<<>>, Prefixes[1]} /\ a = b
  \/ op = Prefixes[2] /\ a >= b
  \/ op = Prefixes[3] /\ a <= b
  \/ op = Prefixes[4] /\ a < b
  \/ op = Prefixes[5] /\ a > b

related_matches(c, related) ==
  \E x \in related :
    /\ x.rel_type = c.rel_type
    /\ x.is_fallback => c.include_fallback
    /\ c.key # "" /\ c.pattern # <<>> => PatternCondition_matches(c, flatten_event(x.event))

\* An event has at most one body, and is somebody's in a room with members.
ASSUME InputsAssumption ==
  \A in \in Inputs :
    /\ in.event.room_id \in RoomIds /\ in.event.sender \in UserIds /\ in.ctx.member_count \in Nat
    /\ \A e \in {in.event} \cup {x.event : x \in in.related} : \A v, w \in e.body : v = w

condition_matches(c, in) ==
  LET ev == flatten_event(in.event)
  IN  CASE c.kind = "event_match"             -> PatternCondition_matches(c, ev)
        [] c.kind = "event_property_is"       -> IsCondition_matches(c, ev)
        [] c.kind = "event_property_contains" -> ContainsCondition_matches(c, ev)
        [] c.kind = "related_event_match"     -> related_matches(c, in.related)
        [] c.kind = "room_member_count"       ->
             LET m == member_count_condition(c.is) IN compares(m.op, in.ctx.member_count, m.count)
        [] c.kind = "sender_notification_permission" ->
             user_level(in.ctx, in.event.sender) >= notification_level(in.ctx, c.key)
        [] c.kind = "contains_display_name"   ->
             /\ in.ctx.user_display_name # <<>>
             /\ "content.body" \in DOMAIN ev /\ IsText(ev["content.body"])
             /\ AsWord(ev["content.body"][2], LAMBDA s : s = in.ctx.user_display_name)

OptimizedRule_matches(r, in) ==
  /\ ~(r.no_mentions_field /\ MentionsField \in DOMAIN flatten_event(in.event))
  /\ \A i \in DOMAIN r.conditions : condition_matches(r.conditions[i], in)

first_match(list, in) ==
  LET I == {i \in DOMAIN list : OptimizedRule_matches(list[i], in)}
  IN  IF I = {} THEN {} ELSE {list[CHOOSE i \in I : \A j \in I : i <= j].actions}
by_id(map, id) == {map[i] : i \in DOMAIN map \cap {id}}

\* Mutant: room and sender rules come before content rules.
evaluate_rooms_first(rs, in) ==
  LET answers == <<first_match(rs.override, in), by_id(rs.room, in.event.room_id),
                   by_id(rs.sender, in.event.sender), first_match(rs.content, in),
                   first_match(rs.underride, in)>>
      I == {i \in DOMAIN answers : answers[i] # {}}
  IN  IF I = {} THEN <<>> ELSE CHOOSE a \in answers[CHOOSE i \in I : \A j \in I : i <= j] : TRUE
\* PushRuleEvaluator::evaluate: the actions of the first rule that matches.
evaluate(rs, in) ==
  LET answers == <<first_match(rs.override, in), first_match(rs.content, in),
                   by_id(rs.room, in.event.room_id), by_id(rs.sender, in.event.sender),
                   first_match(rs.underride, in)>>
      I == {i \in DOMAIN answers : answers[i] # {}}
  IN  IF I = {} THEN <<>> ELSE CHOOSE a \in answers[CHOOSE i \in I : \A j \in I : i <= j] : TRUE
-----------------------------------------------------------------------------
Init == /\ stored \in Rulesets
        /\ rules = ruleset_from_json(stored)
        /\ evaluator = PushRuleEvaluator(rules)

\* Client::get_pushrules, or m.push_rules in a sync response.
get_pushrules == /\ rules' = ruleset_from_json(stored)
                 /\ evaluator' = PushRuleEvaluator(rules')
                 /\ UNCHANGED stored

\* Client::put_pushrules_enabled.
put_pushrules_enabled ==
  \E k \in DOMAIN stored : \E i \in DOMAIN stored[k] :
    /\ stored' = [stored EXCEPT ![k][i].enabled = ~@]
    /\ UNCHANGED <<rules, evaluator>>

\* Client::put_pushrules, for every rule the application holds.
put_pushrules == /\ stored' = ruleset_to_json(rules)
                 /\ UNCHANGED <<rules, evaluator>>

\* The application makes rules of its own and compiles them.
make_pushrules == \E set \in Own : /\ rules' = set
                                  /\ evaluator' = PushRuleEvaluator(rules')
                                  /\ UNCHANGED stored

Next == get_pushrules \/ put_pushrules_enabled \/ put_pushrules \/ make_pushrules

Spec == Init /\ [][Next]_vars
-----------------------------------------------------------------------------
\* The inductive invariant: the application holds rules with the actions the
\* library has, and the evaluator is always that of the rules it holds.
RulesInv ==
  /\ stored \in Ruleset(JsonActions) /\ rules \in Ruleset(Actions)
  /\ evaluator = PushRuleEvaluator(rules)
-----------------------------------------------------------------------------
\* The reference: what rules and conditions mean, on the event itself, as the
\* Matrix specification has it and tests/pushrules.cpp repeats it.  A pattern
\* stands for a whole field, and in the body for whole words: honk is not in
\* honkb.  (pushrules.hpp:41 still has the words of an older specification, which
\* puts asterisks around a pattern without globs; neither code nor tests do.)
glob_fits(c, piece) == c = "*" \/ (c = "?" /\ Len(piece) = 1) \/ piece = <<c>>
TextAt(e, key) ==
  IF key = "sender" THEN {<<e.sender>>} ELSE {v[2] : v \in {x \in e.body : key = "content.body" /\ IsText(x)}}
Says(e, pattern, key) ==
  \E t \in TextAt(e, key) :
    IF key = "content.body" THEN AsWord(t, LAMBDA s : Matches(pattern, s, glob_fits))
                            ELSE Matches(pattern, t, glob_fits)
Mentioned(e) == UNION {m.user_ids : m \in e.mentions}
PropertyAt(e, key) ==
  CASE key = "sender"                    -> {Text(<<e.sender>>)}
    [] key = "content.body"              -> e.body
    [] key = "content.m\\.mentions.room" -> {True : m \in {x \in e.mentions : x.room}}
    [] OTHER                             -> {}

\* A decimal integer, prefixed by one of ==, <, >, >= or <=, or by nothing for ==.
Compared(before, a, b) ==
  \/ before \in {<<>>, <<"=", "=">>, <<"<", "=">>, <<">", "=">>} /\ a = b
  \/ before \in {<<"<">>, <<"<", "=">>} /\ a < b
  \/ before \in {<<">">>, <<">", "=">>} /\ a > b
CountGiven(c) ==
  c.kind = "room_member_count" =>
    /\ c.is.before \in {<<>>, <<"=", "=">>, <<"<">>, <<">">>, <<">", "=">>, <<"<", "=">>}
    /\ \E n \in c.is.number : c.is.number = {n}

Holds(c, in) ==
  \/ c.kind = "event_match" /\ Says(in.event, c.pattern, c.key)
  \/ c.kind = "event_property_is" /\ PropertyAt(in.event, c.key) \cap c.value # {}
  \/ c.kind = "event_property_contains" /\ c.key = "content.m\\.mentions.user_ids"
       /\ \E u \in Mentioned(in.event) : Text(<<u>>) \in c.value
  \/ c.kind = "related_event_match" /\ c.rel_type # "unsupported" /\ \E x \in in.related :
       /\ x.rel_type = c.rel_type /\ (c.include_fallback \/ ~x.is_fallback)
       /\ c.key = "" \/ c.pattern = <<>> \/ Says(x.event, c.pattern, c.key)
  \/ c.kind = "room_member_count" /\ \E n \in c.is.number : Compared(c.is.before, in.ctx.member_count, n)
  \/ c.kind = "sender_notification_permission"
       /\ user_level(in.ctx, in.event.sender) >= notification_level(in.ctx, c.key)
  \/ c.kind = "contains_display_name" /\ in.ctx.user_display_name # <<>>
       /\ \E t \in TextAt(in.event, "content.body") :
            AsWord(t, LAMBDA s : s = in.ctx.user_display_name)

Applies(kind, r, in) ==
  /\ r.enabled
  /\ kind = "room"    => r.rule_id = in.event.room_id
  /\ kind = "sender"  => r.rule_id = in.event.sender
  /\ kind = "content" => r.pattern # <<>> /\ Says(in.event, r.pattern, "content.body")
  /\ kind \in {"override", "underride"} => \A i \in DOMAIN r.conditions : Holds(r.conditions[i], in)
  /\ ~(r.rule_id \in NameRules /\ server_supports_mentions(rules) /\ in.event.mentions # {})

\* The places of the rules that apply; the first of them decides.
Applying(k, in) == {i \in DOMAIN rules[RuleKinds[k]] : Applies(RuleKinds[k], rules[RuleKinds[k]][i], in)}
Prescribed(in) ==
  LET fit == UNION {{<<k, i>> : i \in Applying(k, in)} : k \in 1 .. 5}
      first == CHOOSE p \in fit : \A q \in fit : p[1] < q[1] \/ (p[1] = q[1] /\ p[2] <= q[2])
  IN  IF fit = {} THEN <<>> ELSE rules[RuleKinds[first[1]]][first[2]].actions

Conditions == UNION {UNION {{rules[k][i].conditions[j] : j \in DOMAIN rules[k][i].conditions} :
                            i \in DOMAIN rules[k]} : k \in DOMAIN rules}
Patterns == (UNION {{rules[k][i].pattern : i \in DOMAIN rules[k]} : k \in DOMAIN rules})
            \cup {c.pattern : c \in Conditions}
UsesGlobs == \E p \in Patterns : \E i \in DOMAIN p : p[i] \in Globs

\* A pattern accepts every field that is no text, and flatten_event's mark of an
\* m.mentions object is a field that the event does not have.
NoTexts == {MentionsField, "content.m\\.mentions.user_ids", "content.m\\.mentions.room"}
AsksForText(c) ==
  c.key \notin IF c.kind \in {"event_match", "related_event_match"} THEN NoTexts ELSE {MentionsField}
WithoutText(in) == \E e \in {in.event} \cup {x.event : x \in in.related} : \E v \in e.body : ~IsText(v)
\* A server keeps one rule for a room and one for a sender.
UniqueIds == \A k \in {"room", "sender"} : \A i, j \in DOMAIN rules[k] :
               rules[k][i].rule_id = rules[k][j].rule_id => i = j

\* PushRuleEvaluator does what the rules prescribe: for every event, room and
\* relation the actions are those of the first enabled rule, kind by kind, whose
\* conditions all hold; a rule with a condition the library does not understand
\* never applies.  Left out: patterns with globs (see GlobsMatch), patterns for
\* fields that are no text, and a number of members that is not written as
\* pushrules.hpp:48 says, which the code reads as 0.
FollowsRules ==
  /\ evaluator = PushRuleEvaluator(rules)
  /\ ~UsesGlobs /\ UniqueIds /\ \A c \in Conditions : AsksForText(c) /\ CountGiven(c)
  => \A in \in Inputs : evaluate(evaluator, in) = Prescribed(in) \/ WithoutText(in)

\* Rules an application puts lead to the same actions when it gets them back, for
\* every event, but for coalesce, which comes back as notify (what a server
\* without it makes of it, pushrules.hpp:78), and for relations that are
\* fallbacks, whose flag is not written.
AsFetched(actions) == [i \in DOMAIN actions |-> IF actions[i] = "coalesce" THEN "notify" ELSE actions[i]]
KeepsRules ==
  LET again == PushRuleEvaluator(ruleset_from_json(ruleset_to_json(rules)))
  IN  (\A c \in Conditions : ~c.include_fallback) =>
        \A in \in Inputs : evaluate(again, in) = AsFetched(evaluate(PushRuleEvaluator(rules), in))

\* On a server that knows m.mentions a message that says whom it mentions never
\* highlights by the names in its text, also while the rule for mentions is
\* switched off: the rules by name may as well not be there.
MentionsDecide ==
  LET named(k) == {i \in DOMAIN rules[k] : rules[k][i].rule_id \in NameRules}
      unnamed == [k \in DOMAIN rules |-> [i \in DOMAIN rules[k] \ named(k) |-> rules[k][i]]]
      known == \E i \in DOMAIN rules.override : rules.override[i].rule_id = ".m.rule.is_user_mention"
  IN  known => \A in \in Inputs :
        in.event.mentions # {} => evaluate(evaluator, in) = evaluate(PushRuleEvaluator(unnamed), in)

\* Patterns are globs: * stands for any characters and ? for one.
GlobsMatch ==
  \A in \in Inputs : evaluate(evaluator, in) = Prescribed(in) \/ \E v \in in.event.body : ~IsText(v)
=============================================================================
