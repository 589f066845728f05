----------------------------- MODULE LogHandler -----------------------------
(***************************************************************************)
(* internal/platform/logger: the correlationHandler behind every log       *)
(* record of the shell.  Loggers are derived from one another, by many     *)
(* goroutines from a shared parent; a logger keeps the groups and          *)
(* attributes of its derivation as a slice of links, and replays them on   *)
(* each record.  Handle changes no logger and is an operator.              *)
(***************************************************************************)
EXTENDS Naturals, SequencesExt

CONSTANTS
    Groups,         \* names of groups, none of them empty
    AttrLists,      \* what a caller passes to WithAttrs, or a record carries
    Id,             \* the correlation id of a context
    MaxLoggers

VARIABLES
    arrays,         \* the backing arrays of slices, room for links to come included
    loggers,        \* loggers[l]: its slice, as array and length
    derived         \* history: derived[l], the links logger l was derived with

logVars == <<arrays, loggers, derived>>

NoId == ""
correlationIDAttr == "correlation_id"

(* An attribute is its key and what it says: its fields, each under the    *)
(* groups around it within the attribute, an empty group among them as a   *)
(* field without a key.  The base handler inlines a group with no name.    *)
Field == [path: Seq(STRING), key: STRING, value: STRING]

Under(path, fields) == [n \in DOMAIN fields |-> [fields[n] EXCEPT !.path = path \o @]]

Written(attrs) == FlattenSeq([k \in DOMAIN attrs |-> attrs[k].fields])

Plain(k, v) == [key |-> k, fields |-> <<[path |-> <<>>, key |-> k, value |-> v]>>]

GroupOf(k, list) ==
    [key    |-> k,
     fields |-> Under(IF k = "" THEN <<>> ELSE <<k>>,
                      IF list = <<>> THEN Plain("", "").fields ELSE Written(list))]

(* The key of an attribute is the first name of whatever it says. *)
Attribute ==
    {x \in [key: STRING, fields: Seq(Field)] :
        \A n \in DOMAIN x.fields :
            x.key \in {"", Append(x.fields[n].path, x.fields[n].key)[1]}}

ASSUME NamesAssumption ==
    /\ Groups \cup {NoId, Id, correlationIDAttr} \subseteq STRING
    /\ "" \notin Groups /\ Id # NoId
ASSUME AttrsAssumption == AttrLists \subseteq Seq(Attribute)

GroupLink(g)    == [group |-> g, attrs |-> <<>>]
AttrsLink(list) == [group |-> "", attrs |-> list]

Links(l) == SubSeq(arrays[loggers[l].array], 1, loggers[l].len)

(* New: no links.                                                          *)
LogInit == arrays = << <<>> >> /\ loggers = <<[array |-> 1, len |-> 0]>> /\ derived = << <<>> >>

(* Mutant: append, in place where the array has room; a full array makes   *)
(* way for one more than twice its size. *)
withGoaAppended(l, goa) ==
    LET slice == loggers[l]
        old   == arrays[slice.array]
        next  == [slice EXCEPT !.len = @ + 1]
    IN  IF slice.len < Len(old)
        THEN /\ arrays' = [arrays EXCEPT ![slice.array][slice.len + 1] = goa]
             /\ loggers' = Append(loggers, next)
        ELSE /\ arrays' = Append(arrays, Append(old, goa) \o old)
             /\ loggers' = Append(loggers, [next EXCEPT !.array = Len(arrays) + 1])

(* A new array for every logger.                                           *)
withGoa(l, goa) ==
    /\ arrays' = Append(arrays, Append(Links(l), goa))
    /\ loggers' = Append(loggers, [array |-> Len(arrays) + 1, len |-> loggers[l].len + 1])

Derive(l, goa) ==
    /\ Len(loggers) < MaxLoggers
    /\ withGoa(l, goa)
    /\ derived' = Append(derived, Append(derived[l], goa))

(* Without a name or an attribute, both return the handler they were given.*)
WithGroup(l, g)    == Derive(l, GroupLink(g))
WithAttrs(l, list) == list # <<>> /\ Derive(l, AttrsLink(list))

LogNext ==
    \E l \in DOMAIN loggers :
        \/ \E g \in Groups : WithGroup(l, g)
        \/ \E list \in AttrLists : WithAttrs(l, list)

LogSpec == LogInit /\ [][LogNext]_logVars

----------------------------------------------------------------------------
(* Handle                                                                  *)

(* A link around what is inside it; a group without attributes is dropped.*)
Enclose(goa, inner) ==
    IF goa.group = "" THEN goa.attrs \o inner
    ELSE IF inner = <<>> THEN <<>>
    ELSE <<GroupOf(goa.group, inner)>>

(* The loop, from the innermost link outwards. *)
Replay(links, attrs) ==
    LET inside[i \in 1..Len(links) + 1] ==
            IF i > Len(links) THEN attrs ELSE Enclose(links[i], inside[i + 1])
    IN  inside[1]

WithoutID(attrs) ==
    FlattenSeq([k \in DOMAIN attrs |->
        IF attrs[k].key = correlationIDAttr THEN <<>> ELSE <<attrs[k]>>])

(* Mutant: the id is an attribute like the record's own. *)
HandleAddingInside(l, attrs, id) ==
    Replay(Links(l), IF id = NoId THEN attrs
                     ELSE Append(attrs, Plain(correlationIDAttr, id)))

(* Handle: the id goes last, at the top, in place of any attribute of its  *)
(* name there.                                                             *)
Handle(l, attrs, id) ==
    LET replayed == Replay(Links(l), attrs)
    IN  IF id = NoId THEN replayed
        ELSE Append(WithoutID(replayed), Plain(correlationIDAttr, id))

----------------------------------------------------------------------------
(* Properties                                                              *)

PathOf(links) ==
    FlattenSeq([k \in DOMAIN links |->
        IF links[k].group = "" THEN <<>> ELSE <<links[k].group>>])

(* What a derivation asks for, from the outermost link inwards: every      *)
(* attribute under the groups opened before it, the record's under all;    *)
(* and the context's id in place of whatever has its name at the top.      *)
Kept(path, list, id) ==
    IF id = NoId THEN list
    ELSE IF path = <<>> THEN WithoutID(list)
    ELSE IF path[1] = correlationIDAttr THEN <<>>
    ELSE list

Said(path, list, id) == Under(path, Written(Kept(path, list, id)))

Asked(links, attrs, id) ==
    FlattenSeq([k \in 1..Len(links) + 1 |->
        Said(PathOf(SubSeq(links, 1, k - 1)),
             IF k > Len(links) THEN attrs ELSE links[k].attrs, id)])
      \o (IF id = NoId THEN <<>> ELSE Plain(correlationIDAttr, id).fields)

(* A record carries what its own logger was derived with, each attribute   *)
(* in its groups and in order, and nothing of a logger derived from the    *)
(* same parent before or after; and no group is opened for nothing.        *)
RecordIsAsDerived ==
    \A l \in DOMAIN loggers, attrs \in AttrLists, id \in {NoId, Id} :
        Written(Handle(l, attrs, id)) = Asked(derived[l], attrs, id)

(* With an id in the context, the last field of a record is the context's, *)
(* at the top level, and no other has its name there: a caller cannot      *)
(* shadow it, except by a group with no name that the base handler inlines.*)
ContextIdWins ==
    \A l \in DOMAIN loggers, attrs \in AttrLists :
        LET out == Handle(l, attrs, Id)
        IN  /\ out[Len(out)] = Plain(correlationIDAttr, Id)
            /\ \A k \in 1..Len(out) - 1 : \A n \in DOMAIN out[k].fields :
                    /\ out[k].fields[n].path = <<>>
                    /\ out[k].fields[n].key = correlationIDAttr
                    => out[k].key = ""

============================================================================
