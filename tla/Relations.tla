----------------------------- MODULE Relations -----------------------------
(***************************************************************************)
(* Relations of a message to other events: edits, replies, threads,        *)
(* reactions and references.  A content carries one relation under         *)
(* m.relates_to, with a reply beside it, the relation of an edited text    *)
(* under m.new_content, and for clients that know it the whole list under  *)
(* im.nheko.relations.v1.relations.                                        *)
(***************************************************************************)
EXTENDS Naturals, Sequences

CONSTANT EventIds  \* the events a message can relate to
NoId == ""         \* a relation without event_id

\* A value that may be missing is a set of at most one element.
Maybe(S) == {{}} \cup {{x} : x \in S}
The(m)   == CHOOSE x \in m : TRUE

\* struct Relation.  Only an annotation has a key.
RelationTypes == {"annotation", "reference", "replace", "in_reply_to", "thread", "unsupported"}
Relation(t, id, fallback) == [rel_type |-> t, event_id |-> id, is_fallback |-> fallback]
NoRelation == Relation("unsupported", NoId, FALSE)
RelationSet ==
  [rel_type : RelationTypes \ {"unsupported"}, event_id : EventIds, is_fallback : BOOLEAN]
  \cup {NoRelation}

\* The value of m.relates_to: a relation, m.in_reply_to and is_falling_back.
RelatesTo(rel, reply, falling) == [rel |-> rel, reply |-> reply, falling |-> falling]

\* A content: the lists under the keys above, and the number of "* " in front
\* of the body and of the body of m.new_content.
NewContent(relates, body) == [relates |-> relates, body |-> body]
Content(list, relates, new, body) ==
  [list |-> list, relates |-> relates, new |-> new, body |-> body]
-----------------------------------------------------------------------------
\* parse_relations.  In an edit of a reply the code fills in the relation it has
\* already copied (r instead of r2): what is added is an empty one.
parse_relates_to(rt, new) ==
  LET reply == [Relation("in_reply_to", The(rt.reply), FALSE)
                  EXCEPT !.is_fallback = rt.rel.rel_type = "thread" /\ rt.rel.event_id # NoId /\ rt.falling]
      second == The(The(new).relates)
  IN  IF rt.reply # {}
      THEN IF rt.rel.rel_type = "thread" /\ rt.rel.event_id # NoId THEN <<rt.rel, reply>> ELSE <<reply>>
      ELSE IF rt.rel.rel_type = "replace" /\ new # {} /\ The(new).relates # {}
           THEN <<rt.rel, IF second.reply # {} THEN NoRelation ELSE second.rel>>
           ELSE <<rt.rel>>

parse_relations(c) ==
  IF c.list # {} THEN [relations |-> The(c.list), synthesized |-> FALSE]
  ELSE IF c.relates # {}
       THEN [relations |-> parse_relates_to(The(c.relates), c.new), synthesized |-> TRUE]
       ELSE [relations |-> <<>>, synthesized |-> FALSE]

\* Event::from_json reads the text of an edit from m.new_content and puts the
\* relations of the outer content in front of it.
\* Mutant: m.new_content is not looked at.
outer_content(c) == c
edited_content(c) ==
  IF c.new = {} THEN c
  ELSE [c EXCEPT !.body    = The(c.new).body,
                 !.relates = IF c.relates # {} THEN c.relates ELSE The(c.new).relates]

message_from_json(c) ==
  LET content == edited_content(c)
  IN  [rels |-> parse_relations(content), body |-> content.body]
-----------------------------------------------------------------------------
\* The last relation of one of the types, as add_relations collects them.
last_of(rels, types) ==
  LET I == {i \in DOMAIN rels : rels[i].rel_type \in types}
  IN  IF I = {} THEN {} ELSE {rels[CHOOSE i \in I : \A j \in I : j <= i]}

\* Mutant: the edit does not replace the other relation.
add_relations_unordered(r) ==
  LET last == last_of(r.relations, RelationTypes)
  IN  Content({}, IF last = {} THEN {} ELSE {RelatesTo(The(last), {}, FALSE)}, {}, 0)

\* The relations that are written to the list; each keeps its place.
supported(rels) == [i \in {j \in DOMAIN rels : rels[j].rel_type # "unsupported"} |-> rels[i]]

\* add_relations: m.relates_to, m.new_content and the list.
add_relations(r) ==
  LET edit     == last_of(r.relations, {"replace"})
      reply    == last_of(r.relations, {"in_reply_to"})
      not_edit == last_of(r.relations, RelationTypes \ {"replace", "in_reply_to"})
      plain    == IF not_edit = {} /\ reply = {} THEN {}
                  ELSE {RelatesTo(IF not_edit # {} THEN The(not_edit) ELSE NoRelation,
                                  {x.event_id : x \in reply},
                                  \E x \in reply, y \in not_edit : x.is_fallback /\ y.rel_type = "thread")}
      kept     == supported(r.relations)
  IN  Content(IF r.synthesized \/ DOMAIN kept = {} THEN {} ELSE {kept},
              IF edit # {} THEN {RelatesTo(The(edit), {}, FALSE)} ELSE plain,
              IF edit # {} /\ not_edit # {} THEN {NewContent(plain, 0)} ELSE {},
              0)

\* return_first_relation_matching, with fallbacks included.
first_matching(r, t) ==
  LET I == {i \in DOMAIN r.relations : r.relations[i].rel_type = t}
  IN  IF I = {} THEN {} ELSE {r.relations[CHOOSE i \in I : \A j \in I : i <= j].event_id}
reply_to(r)   == first_matching(r, "in_reply_to")
replaces(r)   == first_matching(r, "replace")
references(r) == first_matching(r, "reference")
thread(r)     == first_matching(r, "thread")
annotates(r)  == first_matching(r, "annotation")

\* apply_relations: an edit copies the content to m.new_content and marks its
\* own body with an asterisk.
message_to_json(e) ==
  LET c == [add_relations(e.rels) EXCEPT !.body = e.body]
      relates == IF c.new = {} THEN {} ELSE The(c.new).relates
  IN  IF replaces(e.rels) = {} THEN c
      ELSE Content(c.list, c.relates, {NewContent(relates, e.body)}, e.body + 1)
-----------------------------------------------------------------------------
\* Contents that arrive, from this library or from others, and messages an
\* application puts together.
RelatesToSet(falling) == [rel : RelationSet, reply : Maybe(EventIds), falling : falling]
NewContentSet == [relates : Maybe(RelatesToSet({FALSE})), body : {0}]
ContentSet(list) ==
  LET plain  == [list : {{}}, relates : Maybe(RelatesToSet(BOOLEAN)), new : {{}}, body : {0}]
      edit   == [list : {{}}, relates : Maybe(RelatesToSet(BOOLEAN)), new : {{n} : n \in NewContentSet}, body : {1}]
      listed == [list : {{l} : l \in list}, relates : {{}}, new : {{}}, body : {0}]
  IN  plain \cup edit \cup listed

MessageSet(list) ==
  {[rels |-> [relations |-> l, synthesized |-> FALSE], body |-> 0] : l \in list}

\* All that an application asks a message for.
Answers(e) == [reply_to |-> reply_to(e.rels), replaces |-> replaces(e.rels),
               references |-> references(e.rels), thread |-> thread(e.rels),
               annotates |-> annotates(e.rels), body |-> e.body]
=============================================================================
