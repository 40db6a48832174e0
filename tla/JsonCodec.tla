----------------------------- MODULE JsonCodec -----------------------------
(***************************************************************************)
(* How mtxclient converts between JSON and its structs.  Every struct has  *)
(* a from_json that reads one field after the other with a few idioms of   *)
(* nlohmann::json, and most have a to_json.  Here a struct is a record of  *)
(* field descriptions and the two conversions are written once.            *)
(*                                                                         *)
(* A field of a JSON object is, for a reader of that field, one of         *)
(*   absent  the key is missing        null   the value is null            *)
(*   wrong   a value of another type   bad    the right outer type, but    *)
(*                                            something inside is wrong    *)
(*   empty   the type's zero: "", 0, false, {} or [], or the enumerator    *)
(*           that stands for "nothing said"                                *)
(*   set     another proper value      odd    a string that names no       *)
(*                                            enumerator of the struct     *)
(* and a member of a struct is empty, set, odd or, in a std::optional,     *)
(* unset.                                                                  *)
(***************************************************************************)

Throws == "throws"

\* The readers, by the values they leave the member alone for; any other value
\* goes through get<T>().
\*   at        obj.at(f).get<T>()
\*   value     obj.value(f, d)
\*   contains  if (obj.contains(f)) ...      (also find and count)
\*   nonnull   if (obj.contains(f) && !obj.at(f).is_null()) ...
\*   typed     if (obj.contains(f) && obj.at(f).is_<type>()) ...
\*   filled    typed, for an array that also has to hold something
\*   safe      safe_get: value() with its type_error caught
\*   dispatch  at(), for a member whose value chose this struct
\*   unread    from_json never looks at it
Ignores == [at       |-> {},
            value    |-> {"absent"},
            contains |-> {"absent"},
            nonnull  |-> {"absent", "null"},
            typed    |-> {"absent", "null", "wrong"},
            filled   |-> {"absent", "null", "wrong", "empty"},
            safe     |-> {"absent", "null", "wrong", "bad"},
            dispatch |-> {},
            unread   |-> {"absent", "null", "wrong", "bad", "empty", "set", "odd"}]

\* A field: its reader and writer, the shape of its type, the value its member
\* has before from_json, what get<T>() makes of an odd value (None: the type is
\* no enumeration), and the fields that have to be set for it to be read (only),
\* to be written (needs) or that prevent writing it (unless).
None == "none"
F(read, write) ==
  [read |-> read, write |-> write, shape |-> "scalar", init |-> "empty",
   odd |-> None, only |-> {}, needs |-> {}, unless |-> {}]

At       == F("at", "always")
Val      == F("value", "always")
ValSet   == F("value", "nonempty")
Has      == F("contains", "always")
HasSet   == F("contains", "nonempty")
NonNull  == F("nonnull", "always")
Safe     == F("safe", "always")
SafeSet  == F("safe", "nonempty")
MsgType  == F("dispatch", "constant")

\* Modifiers.  Many: a vector, map or nested struct that rejects other types;
\* Loose: a nested struct whose from_json finds nothing in a value of another
\* type and keeps its defaults; Elements: a loop over the elements, none for
\* null; Scan: such a loop that only compares them; Keys: a loop over items()
\* that ignores the values, for which a scalar is one entry without a name;
\* Name: a string that has to be an enumerator's name; Given: a string of 1 to
\* 255 bytes; Raw: the value as it is.
Many(f)      == [f EXCEPT !.shape = "many"]
Loose(f)     == [f EXCEPT !.shape = "loose"]
Elements(f)  == [f EXCEPT !.shape = "elements"]
Scan(f)      == [f EXCEPT !.shape = "scan", !.odd = "empty"]
Keys(f)      == [f EXCEPT !.shape = "keys", !.odd = "odd"]
Name(f, v)   == [f EXCEPT !.shape = "name", !.odd = v]
Given(f)     == [f EXCEPT !.shape = "given"]
Raw(f)       == [f EXCEPT !.shape = "raw"]
Opt(f)       == [f EXCEPT !.init = "unset", !.write = "has_value"]
Init_(f, v)  == [f EXCEPT !.init = v]
Enum(f, v)   == [f EXCEPT !.odd = v]
Only(f, S)   == [f EXCEPT !.only = S, !.needs = S]
Needs(f, S)  == [f EXCEPT !.needs = S]
Unless(f, S) == [f EXCEPT !.unless = S]

\* common::parse_relations / apply_relations and parse_mentions / add_mentions
\* as a content's from_json and to_json see them; the module Relations models
\* the former in full.  A relation that is no object, or empty, becomes one of
\* an unsupported type.
Relates  == [F("contains", "nonempty") EXCEPT !.shape = "relates", !.odd = "odd"]
Mentions == Opt(Many(F("contains", "has_value")))

\* A struct whose to_json starts from an empty object, and one that writes into
\* the null it is given: with nothing to write the content stays null.
Object(fields) == [fields |-> fields, start |-> "object"]
Bare(fields)   == [fields |-> fields, start |-> "null"]
\* A struct that takes the whole content as one value; absent is then null.
Whole(field)   == [fields |-> [content |-> field], start |-> "whole"]
-----------------------------------------------------------------------------
\* get<T>() of a present value.
get(f, c) ==
  IF f.shape = "raw" THEN c
  ELSE IF \/ c \in {"null", "wrong"} /\ f.shape = "loose"
          \/ c \in {"null", "wrong", "bad"} /\ f.shape = "scan"
          \/ c = "null" /\ f.shape \in {"elements", "keys"}          THEN "empty"
  ELSE IF \/ c = "wrong" /\ f.shape = "keys"
          \/ c \in {"null", "wrong", "empty"} /\ f.shape = "relates" THEN "odd"
  ELSE IF c = "odd" \/ (c = "empty" /\ f.shape = "name")             THEN f.odd
  ELSE IF c = "set" \/ (c = "empty" /\ f.shape # "given")            THEN c
  ELSE Throws

\* from_json.  A document is [kind, at]: an object with its fields, or null or
\* some other value, in which contains() and find() see no field while at()
\* and value() throw.
read_field(f, json) ==
  LET c == IF json.kind = "object" THEN json.at ELSE "absent"
  IN  IF json.kind # "object" /\ f.read \in {"at", "value", "dispatch"} THEN Throws
      ELSE IF c \in Ignores[f.read]                                     THEN f.init
      ELSE IF c = "absent"                                              THEN Throws
      ELSE get(f, c)

from_json(s, json) ==
  LET wanted(n) == \A o \in s.fields[n].only : json.at[o] = "set"
  IN  [n \in DOMAIN s.fields |->
         IF wanted(n) THEN read_field(s.fields[n], [kind |-> json.kind, at |-> json.at[n]])
                      ELSE s.fields[n].init]

\* An exception of any field's conversion ends from_json.
rejected(event) == \E n \in DOMAIN event : event[n] = Throws

\* to_json.  A named enumerator or a valid text is written, another one is not.
writes(f, v) ==
  CASE f.write = "always"    -> TRUE
    [] f.write = "constant"  -> TRUE
    [] f.write = "nonempty"  -> v \notin {"unset", "empty"}
    [] f.write = "known"     -> TRUE
    [] f.write = "named"     -> v \notin {"unset", "odd"}
    [] f.write = "has_value" -> v # "unset"
    [] f.write = "tag"       -> v # "unset"
    [] f.write = "never"     -> FALSE

\* Whether a member has the value another one is written beside.
present(f, v) == IF f.write = "has_value" THEN v # "unset" ELSE v = "set"

to_json(s, event) ==
  LET allowed(f) == /\ f.needs # {} => \E n \in f.needs : present(s.fields[n], event[n])
                    /\ \A n \in f.unless : event[n] = "unset"
      at == [n \in DOMAIN s.fields |->
               LET f == s.fields[n] IN
               IF ~(allowed(f) /\ writes(f, event[n])) THEN "absent"
               ELSE IF f.write \in {"constant", "tag"} THEN "set" ELSE event[n]]
  IN  [kind |-> IF s.start # "null" \/ \E n \in DOMAIN at : at[n] # "absent"
                THEN "object" ELSE "null",
       at   |-> at]

\* to_json throws for an enumerator that has no name.
unwritable(s, event) == \E n \in DOMAIN event : s.fields[n].write = "known" /\ event[n] = "odd"

\* The values TLC tries for a field of a document and for a member of a struct.
inputs(f) ==
  IF f.read = "dispatch" THEN {"set"}
  ELSE UNION {{"absent", "null", "wrong", "empty", "set"},
              IF f.shape \in {"many", "loose", "elements", "scan", "relates", "given"} THEN {"bad"} ELSE {},
              IF f.odd # None THEN {"odd"} ELSE {}}
members(f) ==
  IF f.read = "dispatch" \/ f.shape = "given" THEN {"set"}
  ELSE UNION {{"empty", "set", f.init},
              IF (f.odd = "odd" /\ f.shape # "keys") \/ f.write = "named" THEN {"odd"} ELSE {}}
=============================================================================
