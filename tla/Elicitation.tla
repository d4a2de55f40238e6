----------------------------- MODULE Elicitation -----------------------------
(***************************************************************************)
(* One elicitation: a schema is made with the Builder or by reflection     *)
(* from a struct's tags, sent to the client, and the client's answer is    *)
(* checked and stored (elicitation, internal/engine).  InFlight has the    *)
(* exchange itself.                                                        *)
(*                                                                         *)
(* A value is a record: a string is known by its length, a number is in    *)
(* halves (3 is 1.5), so that fractions exist.  min and max are the        *)
(* lengths of a string or the bounds of a number.  A property is added     *)
(* once and gets options of its own type; titles, formats and names of     *)
(* enum values are left out, and so is which of several errors is          *)
(* reported.                                                               *)
(***************************************************************************)
EXTENDS Integers, FiniteSets

CONSTANTS
    Names,        \* names of properties, and keys of answers
    Types,        \* the types Builder may give each name
    Structs,      \* structs to bind: a field for each name
    Contents,     \* what a client may answer: partial functions on Names
    BoundValues,  \* values for min, max and defaults
    Width,        \* bits of the struct's integer fields
    MaxEdits      \* bound: properties added and edits applied

NoMin == -100
NoMax == 100
NoValue == [type |-> "none", v |-> 0]   \* no default; no key; a nil pointer
OldValue == [type |-> "old", v |-> 0]   \* what was there before
Null == [type |-> "null", v |-> 0]
NoField == [kind |-> "none", ptr |-> FALSE]
NoType == "absent"                      \* of a name without a property
Undefined == [type |-> NoType, required |-> FALSE, enum |-> {}, min |-> NoMin,
              max |-> NoMax, default |-> NoValue]

ASSUME ElicitationAssumption ==
    /\ Width \in Nat \ {0} /\ MaxEdits \in Nat /\ BoundValues \subseteq Int
    /\ 2 ^ Width \in Nat \ {0} /\ 2 ^ (Width - 1) \in Nat
    /\ \A n \in Names : Types[n] \subseteq {"string", "number", "integer", "boolean"}
    /\ \A s \in Structs : DOMAIN s = Names /\ \A n \in Names : s[n].kind # "any"
    /\ \A c \in Contents :
          /\ DOMAIN c \subseteq Names
          /\ \A n \in DOMAIN c : c[n] \in [type : {"string", "number", "boolean", "null"}, v : Int]

VARIABLES
    maker,     \* "builder" or "reflection"
    field,     \* the destination's field for each name; "any" in a map
    props,     \* the properties
    edits,     \* how many steps went into them
    late,      \* whether an option came after a default or after Build
    phase,     \* "define", "bound", "asked", "decoding" or "done"
    published, \* the properties when Build was called
    told,      \* the schema on the wire
    given,     \* the answer
    todo,      \* keys of it that Decode has not looked at
    fresh,     \* the copy that Decode fills
    dst,       \* the destination
    outcome    \* the action Elicit returns, "error" with an error

elicitVars == <<maker, field, props, edits, late, phase, published, told,
                given, todo, fresh, dst, outcome>>

AnyField == [n \in Names |-> [kind |-> "any", ptr |-> FALSE]]
IsMap == field = AnyField

\* The type of a struct field's property; other kinds are skipped.
ReflectedType(kind) ==
    CASE kind = "string"          -> "string"
      [] kind \in {"int", "uint"} -> "integer"
      [] kind = "float"           -> "number"
      [] kind = "bool"            -> "boolean"
      [] OTHER                    -> NoType

ElicitationInit ==
    /\ \/ maker = "builder" /\ field \in Structs \cup {AnyField}
          /\ props = [n \in Names |-> Undefined]
       \/ maker = "reflection" /\ field \in Structs
          /\ props = [n \in Names |->
                LET t == ReflectedType(field[n].kind)
                IN [Undefined EXCEPT !.type = t, !.required = t # NoType /\ ~field[n].ptr]]
    /\ edits = 0 /\ late = FALSE /\ phase = "define"
    /\ published = props /\ told = props
    /\ given = [n \in {} |-> NoValue] /\ todo = {}
    /\ fresh = [n \in Names |-> NoValue]
    /\ dst = [n \in Names |-> OldValue]
    /\ outcome = "none"

-----------------------------------------------------------------------------
\* The options change the property; Build has shared it with the schema and
\* nothing stops a caller who goes on.
Change(n, p) ==
    /\ edits < MaxEdits /\ phase # "done"
    /\ maker = "reflection" => phase = "define"
    /\ edits' = edits + 1
    /\ props' = [props EXCEPT ![n] = p]
    /\ late' = (late \/ phase # "define"
                     \/ (maker = "builder" /\ props[n].default # NoValue))
    /\ UNCHANGED <<maker, field, phase, published, told, given, todo, fresh, dst, outcome>>

\* String, Number, Integer and Boolean.
Add(n, t) ==
    /\ maker = "builder" /\ props[n].type = NoType
    /\ Change(n, [props[n] EXCEPT !.type = t])

Required(n, r) ==
    /\ maker = "builder" /\ props[n].type # NoType /\ props[n].required # r
    /\ Change(n, [props[n] EXCEPT !.required = r])

EnumString(n, vs) ==
    /\ props[n].type = "string" /\ props[n].enum = {}
    /\ Change(n, [props[n] EXCEPT !.enum = vs])

Minimum(n, v) ==
    /\ props[n].type \in {"string", "number", "integer"}
    /\ Change(n, [props[n] EXCEPT !.min = v])
Maximum(n, v) ==
    /\ props[n].type \in {"string", "number", "integer"}
    /\ Change(n, [props[n] EXCEPT !.max = v])

\* Fault: the upper bound is forgotten.
WithinMin(p, v) == v.v >= p.min

\* Fault: the bounds are exclusive.
WithinStrict(p, v) == v.v > p.min /\ v.v < p.max

Within(p, v) == v.v >= p.min /\ v.v <= p.max

InEnum(p, v) == p.enum = {} \/ v \in p.enum

\* A default that may stand: its type, the enum and the bounds of the moment.
DefaultOk(p, v) ==
    CASE p.type = "string"  -> v.type = "string" /\ InEnum(p, v) /\ Within(p, v)
      [] p.type = "number"  -> v.type = "number" /\ Within(p, v)
      [] p.type = "integer" -> v.type = "number" /\ v.v % 2 = 0 /\ Within(p, v)
      [] p.type = "boolean" -> v.type = "boolean"
      [] OTHER              -> FALSE

\* The builder checks at once, and panics; a tag is looked at when it is bound.
Default(n, v) ==
    /\ props[n].type # NoType /\ props[n].default = NoValue
    /\ maker = "builder" => ~props[n].required /\ DefaultOk(props[n], v)
    /\ Change(n, [props[n] EXCEPT !.default = v])

-----------------------------------------------------------------------------
compatibleKind(t, kind) ==
    CASE t = "number"  -> kind \in {"int", "uint", "float"}
      [] t = "boolean" -> kind = "bool"
      [] OTHER         -> kind = "string"

\* A tag with a default must be consistent, and only pointers and booleans
\* may have one; buildReflectedSchema panics otherwise.
TagsOk ==
    \A n \in Names : props[n].default # NoValue =>
        /\ field[n].ptr \/ props[n].type = "boolean"
        /\ DefaultOk(props[n], props[n].default)

\* Every property has its field, or is optional and has none.
FieldsOk ==
    \A n \in Names : props[n].type # NoType =>
        IF field[n].kind = "none" THEN ~props[n].required
        ELSE compatibleKind(props[n].type, field[n].kind)

\* Build and Bind or BindStruct.  A builder can be built once.
Bind ==
    /\ phase = "define"
    /\ phase' = IF IsMap \/ (maker = "builder" /\ FieldsOk) \/ (maker = "reflection" /\ TagsOk)
                THEN "bound" ELSE "done"
    /\ outcome' = IF phase' = "bound" THEN outcome ELSE "error"
    /\ published' = props
    /\ UNCHANGED <<maker, field, props, edits, late, told, given, todo, fresh, dst>>

\* The schema passes through mcp.PrimitiveSchemaDefinition, which has no
\* lengths and no default, and leaves out a bound that is zero.
Wire(p) ==
    [p EXCEPT !.default = NoValue,
              !.min = IF p.type = "string" \/ @ = 0 THEN NoMin ELSE @,
              !.max = IF p.type = "string" \/ @ = 0 THEN NoMax ELSE @]

Elicit ==
    /\ phase = "bound"
    /\ phase' = "asked"
    /\ told' = [n \in Names |-> Wire(published[n])]
    /\ UNCHANGED <<maker, field, props, edits, late, published, given, todo, fresh, dst, outcome>>

\* No write, no answer, an error or nonsense for an answer, or the context
\* has ended: Cancel and an error.
ElicitFails ==
    /\ phase \in {"bound", "asked"}
    /\ phase' = "done" /\ outcome' = "error"
    /\ UNCHANGED <<maker, field, props, edits, late, published, told, given, todo, fresh, dst>>

\* Any other action counts as cancel.
NotAccepted(action) ==
    /\ phase = "asked"
    /\ phase' = "done"
    /\ outcome' = IF action = "decline" THEN "decline" ELSE "cancel"
    /\ UNCHANGED <<maker, field, props, edits, late, published, told, given, todo, fresh, dst>>

Accepted(c) ==
    /\ phase = "asked"
    /\ phase' = "decoding"
    /\ given' = c /\ todo' = DOMAIN c
    /\ UNCHANGED <<maker, field, props, edits, late, published, told, fresh, dst, outcome>>

-----------------------------------------------------------------------------
\* validateDynamicValue does not know "integer".
validateDynamicValue(p, v) ==
    /\ InEnum(p, v)
    /\ CASE p.type = "string"  -> v.type = "string" /\ Within(p, v)
         [] p.type = "number"  -> v.type = "number" /\ Within(p, v)
         [] p.type = "boolean" -> v.type = "boolean"
         [] OTHER              -> FALSE

\* assignPrimitive takes any number for an integer.
assignPrimitive(p, v) ==
    /\ InEnum(p, v)
    /\ CASE p.type = "string"               -> v.type = "string" /\ Within(p, v)
         [] p.type \in {"number", "integer"} -> v.type = "number" /\ Within(p, v)
         [] p.type = "boolean"              -> v.type = "boolean"

Valuable(p, v) == IF maker = "builder" THEN validateDynamicValue(p, v) ELSE assignPrimitive(p, v)

TowardZero(h) == IF h >= 0 THEN h \div 2 ELSE -((-h) \div 2)
Wrapped(i) == ((i + 2 ^ (Width - 1)) % 2 ^ Width) - 2 ^ (Width - 1)

\* convertAssignNumber and its twin: fractions are cut, what does not fit into
\* the field wraps, a negative number for an unsigned field is 0.
Convert(kind, v) ==
    IF v.type # "number" THEN v ELSE
    CASE kind = "int"    -> [v EXCEPT !.v = 2 * Wrapped(TowardZero(@))]
      [] kind = "uint"   -> [v EXCEPT !.v = IF @ < 0 THEN 0 ELSE 2 * (TowardZero(@) % 2 ^ Width)]
      [] kind = "string" -> [type |-> "string", v |-> 0]
      [] OTHER           -> v

\* A key that is decoded: for a struct one with a property and a field.
Mapped(n) == IF IsMap THEN props[n].type # NoType
             ELSE published[n].type # NoType /\ field[n].kind # "none"

\* Fault: the destination is filled directly.
DecodeInPlace(n) ==
    /\ phase = "decoding" /\ n \in todo
    /\ todo' = todo \ {n}
    /\ IF Mapped(n) /\ ~Valuable(props[n], given[n])
       THEN phase' = "done" /\ outcome' = "error" /\ UNCHANGED <<fresh, dst>>
       ELSE /\ fresh' = [fresh EXCEPT ![n] = Convert(field[n].kind, given[n])]
            /\ dst' = [dst EXCEPT ![n] = fresh'[n]]
            /\ UNCHANGED <<phase, outcome>>
    /\ UNCHANGED <<maker, field, props, edits, late, published, told, given>>

\* One round of Decode's loop over the answer, in Go's random order.  A map
\* keeps unknown keys, a struct has no place for them.
DecodeKey(n) ==
    /\ phase = "decoding" /\ n \in todo
    /\ todo' = todo \ {n}
    /\ IF Mapped(n) /\ ~Valuable(props[n], given[n])
       THEN phase' = "done" /\ outcome' = "error" /\ UNCHANGED fresh
       ELSE /\ fresh' = [fresh EXCEPT ![n] = Convert(field[n].kind, given[n])]
            /\ UNCHANGED <<phase, outcome>>
    /\ UNCHANGED <<maker, field, props, edits, late, published, told, given, dst>>

Zero(n) ==
    IF field[n].ptr \/ IsMap THEN NoValue ELSE
    CASE field[n].kind = "string"                   -> [type |-> "string", v |-> 0]
      [] field[n].kind \in {"int", "uint", "float"} -> [type |-> "number", v |-> 0]
      [] field[n].kind = "bool"                     -> [type |-> "boolean", v |-> 0]
      [] OTHER                                      -> NoValue

\* What is stored for a name: the answer, or the default, or nothing.  A
\* struct takes a default only for a pointer.
StoredInMap(n) == IF n \in DOMAIN given THEN fresh[n] ELSE props[n].default

StoredInStruct(n) ==
    IF ~Mapped(n) THEN Zero(n)
    ELSE IF n \in DOMAIN given THEN fresh[n]
    ELSE IF field[n].ptr /\ props[n].default # NoValue
    THEN Convert(field[n].kind, props[n].default)
    ELSE Zero(n)

Decoded ==
    /\ phase = "decoding" /\ todo = {}
    /\ phase' = "done"
    /\ IF \E n \in Names : published[n].required /\ n \notin DOMAIN given
       THEN outcome' = "error" /\ UNCHANGED dst
       ELSE outcome' = "accept" /\ dst' = [n \in Names |-> IF IsMap THEN StoredInMap(n) ELSE StoredInStruct(n)]
    /\ UNCHANGED <<maker, field, props, edits, late, published, told, given, todo, fresh>>

DefineProperty(n) ==
    \/ \E t \in Types[n] : Add(n, t)
    \/ \E r \in BOOLEAN : Required(n, r)
    \/ \E l \in BoundValues : EnumString(n, {[type |-> "string", v |-> l]})
    \/ \E v \in BoundValues : Minimum(n, v) \/ Maximum(n, v)
    \/ \E t \in {"string", "number", "boolean"}, v \in BoundValues :
          Default(n, [type |-> t, v |-> v])

ElicitationNext ==
    \/ \E n \in Names : DefineProperty(n) \/ DecodeKey(n)
    \/ Bind \/ Elicit \/ ElicitFails \/ Decoded
    \/ \E action \in {"decline", "cancel", "other"} : NotAccepted(action)
    \/ \E c \in Contents : Accepted(c)

ElicitationSpec == ElicitationInit /\ [][ElicitationNext]_elicitVars

-----------------------------------------------------------------------------
\* What JSON Schema means by a property.
Fulfils(p, v) ==
    /\ v.type = IF p.type = "integer" THEN "number" ELSE p.type
    /\ p.type = "integer" => v.v % 2 = 0
    /\ p.enum # {} => v \in p.enum
    /\ p.type # "boolean" => v.v \in p.min..p.max

Fits(n, v) == Convert(field[n].kind, v) = v

\* Elicit writes the caller's destination only when it reports accept, and
\* then every field of it: nothing of an earlier answer and nothing of a
\* refused one is left.
AllOrNothing ==
    LET touched == {n \in Names : dst[n] # OldValue}
    IN touched = IF outcome = "accept" THEN Names ELSE {}

\* What ends up in the destination meets the schema that was published: every
\* value the field can hold is the client's, and every absent one was
\* optional.  (A number the field cannot hold is stored as another, and an
\* option given after a default or after Build escapes: both are excluded.)
DecodedMeetsSchema ==
    outcome = "accept" /\ ~late =>
        \A n \in Names : published[n].type # NoType /\ Mapped(n) =>
            IF n \in DOMAIN given
            THEN Fits(n, given[n]) =>
                    Fulfils(published[n], given[n]) /\ dst[n] = given[n]
            ELSE /\ ~published[n].required
                 /\ dst[n] = Zero(n) \/ Fulfils(published[n], dst[n])
                    \/ ~Fits(n, published[n].default)

\* accept means a complete, valid destination, and anything else an old one.
AcceptMeansValid == AllOrNothing /\ DecodedMeetsSchema

\* A client that keeps to the schema it was sent is not refused: unless the
\* wire left out a bound, or the schema has an integer of the builder.
TruthfulAnswerIsDecoded ==
    LET Truthful(n) == IF n \in DOMAIN given
                       THEN told[n].type # NoType => Fulfils(told[n], given[n])
                       ELSE ~told[n].required
        Told(n) == told[n] = [published[n] EXCEPT !.default = NoValue]
    IN phase = "done" /\ outcome = "error" /\ DOMAIN given # {} /\ ~late =>
          \E n \in Names :
             ~Truthful(n) \/ ~Told(n) \/ (maker = "builder" /\ published[n].type = "integer")
=============================================================================
