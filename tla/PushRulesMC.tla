---------------------------- MODULE PushRulesMC ----------------------------
(***************************************************************************)
(* Rulesets with at most two kinds of rules in use, and the events that    *)
(* tell their conditions apart.                                            *)
(***************************************************************************)
EXTENDS PushRules

Named(id, cs, actions) == Rule(id, <<>>, cs, actions)
Is(before, n) == [Cond("room_member_count") EXCEPT !.is = [before |-> before, number |-> {n}]]
Match(key, p) == [Cond("event_match") EXCEPT !.key = key, !.pattern = p]
Reply(fallback) == [Cond("related_event_match") EXCEPT !.key = "sender", !.pattern = <<"@me">>,
                                                       !.rel_type = "in_reply_to", !.include_fallback = fallback]
MentionRule == Named(".m.rule.is_user_mention",
  <<[Cond("event_property_contains") EXCEPT !.key = "content.m\\.mentions.user_ids", !.value = {Text(<<"@me">>)}]>>,
  <<"highlight">>)
RoomMention == Named(".m.rule.is_room_mention",
  <<[Cond("event_property_is") EXCEPT !.key = "content.m\\.mentions.room", !.value = {True}],
    [Cond("sender_notification_permission") EXCEPT !.key = "room"]>>, <<"notify", "highlight">>)
NameRule == Named(".m.rule.contains_display_name", <<Cond("contains_display_name")>>, <<"sound">>)
RoomNotif == Named(".m.rule.roomnotif", <<Match("content.body", <<"s">>)>>, <<"coalesce">>)
Conditional == {NameRule, RoomNotif, MentionRule, RoomMention,
  Named("unknown", <<Cond("org.example.kind")>>, <<"dont_notify">>),
  Named("no value", <<Cond("event_property_is")>>, <<"dont_notify">>),
  Named("reply", <<Reply(FALSE)>>, <<"org.example.action">>),
  Named("fallback reply", <<Reply(TRUE)>>, <<"sound">>),
  Named("pair", <<Is(<<"=", "=">>, 2), Match("content.body", <<"c">>)>>, <<"notify">>),
  Named("crowd", <<Is(<<">">>, 2)>>, <<>>),
  Named("few", <<Is(<<"<", "=">>, 2), Is(<<">", "=">>, 2)>>, <<"dont_notify">>),
  Named("no comparison", <<Is(<<"=">>, 2)>>, <<"sound">>)}
Lists(S) == {<<>>} \cup {<<r>> : r \in S}
Pairs == {<<r, q>> : r \in {MentionRule, NameRule, RoomMention}, q \in Conditional}
Set(o, c, r, s, u) == [override |-> o, content |-> c, room |-> r, sender |-> s, underride |-> u]
ContentRules == {Rule("word", <<"c">>, <<>>, <<"highlight">>), Rule("empty", <<>>, <<>>, <<"notify">>),
                 Rule(".m.rule.contains_user_name", <<"s">>, <<>>, <<"sound">>)}
RoomRules == {Named("!r", <<>>, <<"dont_notify">>), Named("r", <<>>, <<"dont_notify">>)}
SenderRules == {Named("@a", <<>>, <<"notify">>)}
Sets == {Set(o, c, <<>>, <<>>, <<>>) : o \in Lists(Conditional) \cup Pairs, c \in Lists(ContentRules)}
   \cup {Set(o, <<>>, r, s, <<>>) : o \in Lists({NameRule, MentionRule}), r \in Lists(RoomRules), s \in Lists(SenderRules)}
   \cup {Set(<<>>, c, r, <<>>, u) : c \in Lists(ContentRules), r \in Lists(RoomRules), u \in Lists(Conditional)}
   \cup {Set(<<>>, <<>>, <<>>, s, u) : s \in Lists(SenderRules), u \in Pairs}
GlobSets == {Set(<<Named("glob", <<Match(k, p)>>, <<"notify">>)>>, <<>>, <<>>, <<>>, <<>>) :
              k \in {"sender", "content.body"}, p \in {<<"c">>, <<"c", "*">>, <<"?">>, <<"*">>}}
McRulesets == Sets \cup GlobSets
McOwn == {Set(<<Named("fewer", <<Is(<<"<">>, 3), Is(<<>>, 2)>>, <<"coalesce", "highlight">>)>>, <<>>,
              <<Named("!r", <<>>, <<"coalesce">>)>>, <<>>, <<>>)}

Message(sender, body, mentions) == [sender |-> sender, room_id |-> "!r", body |-> body, mentions |-> mentions]
Bodies == {{Text(t)} : t \in {<<"c">>, <<"c", "s">>, <<"s", " ", "c">>, <<"c", ".">>}} \cup {{}, {True}}
MentionSets == {{}} \cup {{[user_ids |-> u, room |-> r]} : u \in {{}, {"@me"}}, r \in BOOLEAN}
Contexts == {[user_display_name |-> n, member_count |-> c, creators |-> k, users |-> l,
              users_default |-> 0, notifications |-> <<>>] :
               n \in {<<>>, <<"c">>}, c \in {2, 3}, k \in {{}}, l \in {[u \in {"@a"} |-> 50]}}
            \cup {[user_display_name |-> <<"c">>, member_count |-> 2, creators |-> {"@me"}, users |-> <<>>,
                   users_default |-> 49, notifications |-> [k \in {"room"} |-> 60]]}
Relateds == {{}} \cup {{[rel_type |-> "in_reply_to", is_fallback |-> f, event |-> Message("@me", {}, {})]} : f \in BOOLEAN}
Input(s, b, m, x, r) == [event |-> Message(s, b, m), ctx |-> x, related |-> r]
Plain == {Text(<<"c">>)}
Quiet == CHOOSE x \in Contexts : x.member_count = 3 /\ x.user_display_name = <<>>
\* Who may do it, what is said, and what is answered, each with what bears on it.
McInputs == {Input(s, Plain, m, x, {}) : s \in {"@me", "@a"}, m \in MentionSets, x \in Contexts}
       \cup {Input("@a", b, m, x, {}) : b \in Bodies, m \in {{}, {[user_ids |-> {"@me"}, room |-> FALSE]}},
                                       x \in {y \in Contexts : y.member_count = 2}}
       \cup {Input("@a", b, {}, Quiet, r) : b \in {Plain, {}}, r \in Relateds}
=============================================================================
