------------------------------- MODULE Codec -------------------------------
(***************************************************************************)
(* What the generated code does with a message, over the tables of         *)
(* Messages.  A message is the set of its has-bits and its memory; a       *)
(* stream is the sequence of the fields written, a field its tag byte and  *)
(* its value, or the fields of a nested message.  The last field of a      *)
(* stream that was cut may be incomplete.                                  *)
(***************************************************************************)
EXTENDS Messages, Integers, FiniteSets, SequencesExt

Torn == 99  \* what a parser leaves in a member whose field is cut: anything

Types == DOMAIN Schema
Members(T) == ToSet(Schema[T].impl)
Bit(T, f) == Schema[T].bits[f]
Mask(n) == {b \in {1, 2, 4, 8, 16, 32, 64, 128} : (n \div b) % 2 = 1}

\* The wire types of a tag byte: 2 is a length and as many bytes.
Delimited(T, f) ==
    \E i \in DOMAIN Schema[T].wire :
        Schema[T].wire[i][2] = f /\ Schema[T].wire[i][1] % 8 = 2

-----------------------------------------------------------------------------
(* Objects.  The two nested types have no nested members themselves.       *)

Flat(T) == [has |-> {}, mem |-> [f \in Members(T) |-> 0]]

\* A null conf_record reads as its default instance.
Zero(f) ==
    CASE f = "entries"     -> <<>>
      [] f = "conf_record" -> Flat("ConfRecord")
      [] OTHER             -> 0

New(T) == [has |-> {}, mem |-> [f \in Members(T) |-> Zero(f)]]

\* A new message after the setters of the members in DOMAIN values were called.
Filled(T, values) ==
    [has |-> {Bit(T, f) : f \in DOMAIN values},
     mem |-> [f \in Members(T) |-> IF f \in DOMAIN values THEN values[f] ELSE Zero(f)]]

Clear(T, m) ==
    LET reset == {f \in Members(T) : \E i \in DOMAIN Schema[T].clear :
                    LET group == Schema[T].clear[i]
                    IN  /\ f \in group[2]
                        /\ group[1] = 0 \/ Mask(group[1]) \cap m.has # {}}
    IN  [has |-> {}, mem |-> [f \in Members(T) |-> IF f \in reset THEN Zero(f) ELSE m.mem[f]]]

FlatMerge(T, to, from) ==
    [has |-> to.has \cup from.has,
     mem |-> [f \in Members(T) |-> IF Bit(T, f) \in from.has THEN from.mem[f] ELSE to.mem[f]]]

MergeFrom(T, to, from) ==
    [has |-> to.has \cup from.has,
     mem |-> [f \in Members(T) |->
        CASE f = "entries"                 -> to.mem[f] \o from.mem[f]
          [] f = "conf_record"             -> FlatMerge("ConfRecord", to.mem[f], from.mem[f])
          [] f \notin {"entries", "conf_record"} ->
                IF Bit(T, f) \in from.has THEN from.mem[f] ELSE to.mem[f]]]

CopyFrom(T, m, from) == MergeFrom(T, Clear(T, m), from)

\* The copy constructor: strings and messages if their bit is set, the
\* repeated ones and the memory of the numbers as they are.
CopyOf(T, from) ==
    [has |-> from.has,
     mem |-> [f \in Members(T) |->
        IF f # "entries" /\ Delimited(T, f) /\ Bit(T, f) \notin from.has
        THEN Zero(f) ELSE from.mem[f]]]

\* What InternalSwap(other) leaves in the message: bits, strings and repeated
\* members of the other, and its memory from the first to the last swapped.
SwapIn(T, m, other) ==
    LET impl == Schema[T].impl
        at(f) == CHOOSE i \in DOMAIN impl : impl[i] = f
        inBlock(f) == at(f) \in at(Schema[T].swapped[1]) .. at(Schema[T].swapped[2])
        exchanged(f) == inBlock(f) \/ (Delimited(T, f) /\ f # "conf_record")
    IN  [has |-> other.has,
         mem |-> [f \in Members(T) |-> IF exchanged(f) THEN other.mem[f] ELSE m.mem[f]]]

Complete(T, m) == Mask(Schema[T].required) \subseteq m.has

IsInitialized(T, m) ==
    /\ Complete(T, m)
    /\ "entries" \in Members(T) =>
        \A i \in DOMAIN m.mem.entries : Complete("LogEntry", m.mem.entries[i])
    /\ ("conf_record" \in Members(T) /\ Bit("PersistRecord", "conf_record") \in m.has) =>
        Complete("ConfRecord", m.mem.conf_record)

-----------------------------------------------------------------------------
(* Writing.                                                                *)

Field(tag, v) == [tag |-> tag, val |-> v, whole |-> TRUE]

\* A member that is neither repeated nor a message is written if it has its bit.
FlatField(T, m, w) == IF Bit(T, w[2]) \in m.has THEN << Field(w[1], m.mem[w[2]]) >> ELSE <<>>

FlatFields(T, m) ==
    FlattenSeq([i \in DOMAIN Schema[T].wire |-> FlatField(T, m, Schema[T].wire[i])])

FieldsOf(T, m, w) ==
    CASE w[2] = "entries" ->
            [i \in DOMAIN m.mem.entries |-> Field(w[1], FlatFields("LogEntry", m.mem.entries[i]))]
      [] w[2] = "conf_record" ->
            IF Bit(T, w[2]) \in m.has
            THEN << Field(w[1], FlatFields("ConfRecord", m.mem.conf_record)) >> ELSE <<>>
      [] OTHER -> FlatField(T, m, w)

Serialize(T, m) ==
    FlattenSeq([i \in DOMAIN Schema[T].wire |-> FieldsOf(T, m, Schema[T].wire[i])])

-----------------------------------------------------------------------------
(* Reading.                                                                *)

\* The member a field belongs to; "" is an unknown field, which is kept apart.
MemberOf(T, u) ==
    IF \E w \in ToSet(Schema[T].wire) : w[1] = u.tag
    THEN (CHOOSE w \in ToSet(Schema[T].wire) : w[1] = u.tag)[2]
    ELSE ""

\* The fields of one member, in the order of the stream.
FieldsFor(T, s, f) ==
    FlattenSeq([i \in DOMAIN s |-> IF MemberOf(T, s[i]) = f THEN << s[i] >> ELSE <<>>])

Failed(s) == s # <<>> /\ ~ Last(s).whole

\* Faulty variant: a parse that fails forgets the bits it has collected.
ParsedBitsIfDone(T, s) ==
    IF Failed(s) THEN {}
    ELSE {Bit(T, f) : f \in {g \in DOMAIN Schema[T].bits : FieldsFor(T, s, g) # <<>>}}
\* _has_bits_.Or(has_bits) at message_done, which a failure reaches as well.
ParsedBits(T, s) ==
    {Bit(T, f) : f \in {g \in DOMAIN Schema[T].bits : FieldsFor(T, s, g) # <<>>}}

\* The last field of a member counts.
LastOf(T, m, s, f) ==
    LET fields == FieldsFor(T, s, f) IN IF fields = <<>> THEN m.mem[f] ELSE Last(fields).val

FlatParse(T, m, s) ==
    [has |-> m.has \cup ParsedBits(T, s),
     mem |-> [f \in Members(T) |-> LastOf(T, m, s, f)]]

\* Faulty variant: an entry is parsed over the ones before it.
ParsedEntriesOver(old, fields) ==
    old \o [i \in DOMAIN fields |->
              FlatParse("LogEntry", Flat("LogEntry"),
                        FlattenSeq([j \in 1 .. i |-> fields[j].val]))]
\* Each field of a repeated member adds a message and parses into it.
ParsedEntries(old, fields) ==
    old \o [i \in DOMAIN fields |-> FlatParse("LogEntry", Flat("LogEntry"), fields[i].val)]

ParsedConf(old, fields) ==
    FlatParse("ConfRecord", old, FlattenSeq([i \in DOMAIN fields |-> fields[i].val]))

MergeFromStream(T, m, s) ==
    [has |-> m.has \cup ParsedBits(T, s),
     mem |-> [f \in Members(T) |->
        CASE f = "entries"     -> ParsedEntries(m.mem[f], FieldsFor(T, s, f))
          [] f = "conf_record" -> ParsedConf(m.mem[f], FieldsFor(T, s, f))
          [] OTHER             -> LastOf(T, m, s, f)]]

\* ParseFromIstream: the message it leaves, and the result it returns.
Parse(T, m, s) ==
    LET parsed == MergeFromStream(T, Clear(T, m), s)
    IN  [msg |-> parsed, ok |-> ~ Failed(s) /\ IsInitialized(T, parsed)]

-----------------------------------------------------------------------------
(* A stream cut anywhere: behind a field, or within it.                    *)

Within(u, vals) == {[u EXCEPT !.val = v, !.whole = FALSE] : v \in vals}

FlatCuts(s) ==
    Prefixes(s) \cup UNION {{Append(SubSeq(s, 1, i - 1), u) : u \in Within(s[i], {Torn})} :
                            i \in DOMAIN s}

Cuts(T, s) ==
    Prefixes(s) \cup
    UNION {{Append(SubSeq(s, 1, i - 1), u) :
              u \in Within(s[i], IF MemberOf(T, s[i]) \in {"entries", "conf_record"}
                                 THEN FlatCuts(s[i].val) \ {s[i].val} ELSE {Torn})} :
           i \in DOMAIN s}

-----------------------------------------------------------------------------
(* The messages over which the properties below are evaluated: every set of *)
(* has-bits, the members set to their position or to zero.                  *)

Painted(T, has, c) ==
    [has |-> has,
     mem |-> [f \in Members(T) |->
        IF f \in DOMAIN Schema[T].bits /\ Bit(T, f) \in has THEN c * Bit(T, f) ELSE 0]]

Bits(T) == {Bit(T, f) : f \in DOMAIN Schema[T].bits}
FlatObjects(T) == {Painted(T, has, c) : has \in SUBSET Bits(T), c \in {0, 1}}

FullEntry == Painted("LogEntry", Bits("LogEntry"), 1)
HalfEntry == Painted("LogEntry", Mask(10), 2)

Nest(m, entries, conf) ==
    [m EXCEPT !.mem = [f \in DOMAIN m.mem |->
        CASE f = "entries"     -> entries
          [] f = "conf_record" -> IF Bit("PersistRecord", f) \in m.has THEN conf ELSE Flat("ConfRecord")
          [] OTHER             -> m.mem[f]]]

Objects(T) ==
    IF Members(T) \cap {"entries", "conf_record"} = {} THEN FlatObjects(T)
    ELSE {Nest(m, entries, conf) :
            m \in FlatObjects(T),
            entries \in {<<>>, <<FullEntry>>, <<FullEntry, HalfEntry>>},
            conf \in {Painted("ConfRecord", has, 1) : has \in {{}, {1, 4}, Mask(15)}}}

\* Some messages of a type: nothing, everything, and half of it.
Samples(T) ==
    {Nest(Painted(T, has, 3), <<HalfEntry>>, Painted("ConfRecord", {2}, 3)) :
        has \in {{}, Bits(T), Bits(T) \cap Mask(42)}}

\* A message is read as it was written, and accepted just if it is complete;
\* two messages written one behind the other are read as the merged one.  (The
\* tables of the accessors, the writer, the parser and the required masks are
\* separate pieces of the generated code.)
CodecRoundTrip ==
    \A T \in Types : \A m \in Objects(T) :
        /\ Parse(T, New(T), Serialize(T, m)) = [msg |-> m, ok |-> IsInitialized(T, m)]
        /\ \A n \in Samples(T) :
            Parse(T, New(T), Serialize(T, m) \o Serialize(T, n)).msg = MergeFrom(T, m, n)

\* A message object that was used, and left by a parse that broke off anywhere,
\* keeps nothing of that use: cleared it is new, copied it is the same, and an
\* assignment or a swap makes it the other message.
NothingSurvives ==
    \A T \in Types : \A n \in Samples(T) : \A s \in Cuts(T, Serialize(T, n)) :
        LET used == Parse(T, New(T), s).msg
        IN  /\ Clear(T, used) = New(T)
            /\ CopyOf(T, used) = used
            /\ \A other \in Samples(T) :
                /\ CopyFrom(T, used, other) = other
                /\ SwapIn(T, used, other) = other

=============================================================================
