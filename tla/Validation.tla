----------------------------- MODULE Validation -----------------------------
(***************************************************************************)
(* The checks a tool call's arguments go through before the tool runs:     *)
(* the parameter schema the graph derives from a tool (llms/schema.go),    *)
(* the two builds of ValidateAgainstJSONSchema (tools/) and the validators *)
(* a WrappedTool puts in front of a tool (tools/validation.go).            *)
(*                                                                         *)
(* A value is what encoding/json decodes into an any: its dynamic type,    *)
(* the text "%v" prints and, for strings, the length.  Arguments are a     *)
(* function from keys to values; the nil map has no keys.  A property's type  *)
(* outside CheckedTypes stands for one without a type.                     *)
(***************************************************************************)
EXTENDS Naturals, SequencesExt

CheckedTypes == {"string", "number", "boolean", "array", "object"}
Value(type, text, length) == [type |-> type, text |-> text, length |-> length]
EmptyString == Value("string", "", 0)
NoArgs == <<>>

(***************************************************************************)
(* Schemas.  goType is the Go type of the "required" list: a schema decoded *)
(* from JSON holds []any, one written in Go []string.  typed stands for    *)
(* "type": "object", closed for "additionalProperties": false.             *)
(***************************************************************************)
Schema(props, required, goType, typed, closed) ==
    [props |-> props, required |-> required, goType |-> goType,
     typed |-> typed, closed |-> closed]

\* The field of a parameter struct: the json tag as it is written, the type of
\* its schema and whether it is tagged required:"true".
Field(tag, type, required) == [tag |-> tag, type |-> type, required |-> required]

\* The properties are keyed by the whole tag, ",omitempty" included.
StructSchema(fields) ==
    LET listed == {f \in fields : f.tag \notin {"", "-"}}
    IN  Schema([tag \in {f.tag : f \in listed} |->
                  (CHOOSE f \in listed : f.tag = tag).type],
               {f.tag : f \in {g \in listed : g.required}}, "strings", TRUE, FALSE)

\* Tool.Parameters: nothing, a schema, a struct, or something else.
ParametersSchema(p) ==
    CASE p.form = "schema" -> p.schema
      [] p.form = "struct" -> StructSchema(p.fields)
      [] OTHER -> Schema(<<>>, {}, "strings", TRUE, FALSE)

HasType(args, key, type) == args[key].type = type
TypesHold(props, args) ==
    \A key \in DOMAIN props \cap DOMAIN args :
        props[key] \in CheckedTypes => HasType(args, key, props[key])

(***************************************************************************)
(* ValidateAgainstSchema, the default build: a schema without a type, a    *)
(* required list that is not []any and surplus keys are passed over.       *)
(***************************************************************************)
Recognised(schema) == IF schema.goType = "anys" THEN schema.required ELSE {}

\* Mutant: every property of the schema is taken to be required.
LightAccepts_AllRequired(schema, args) ==
    schema.typed => DOMAIN schema.props \subseteq DOMAIN args /\ TypesHold(schema.props, args)

LightAccepts(schema, args) ==
    schema.typed => Recognised(schema) \subseteq DOMAIN args /\ TypesHold(schema.props, args)

(***************************************************************************)
(* The jsonschema build hands the same schema to a JSON Schema library:    *)
(* the meaning of the keywords, whatever Go types spell them.              *)
(***************************************************************************)
FullAccepts(schema, args) ==
    /\ schema.required \subseteq DOMAIN args
    /\ schema.closed => DOMAIN args \subseteq DOMAIN schema.props
    /\ TypesHold(schema.props, args)

SchemaAccepts(build, schema, args) ==
    IF build = "jsonschema" THEN FullAccepts(schema, args) ELSE LightAccepts(schema, args)

(***************************************************************************)
(* The validators of a WrappedTool.  Each passes, refuses or panics.       *)
(***************************************************************************)
Verdict(ok) == IF ok THEN "pass" ELSE "refuse"

ValidateRequired(keys, args) ==
    Verdict(\A key \in keys : key \in DOMAIN args /\ args[key] # EmptyString)

\* The branch for arrays calls reflect.TypeOf(val).Kind(), which panics on nil.
ValidateType(key, type, args) ==
    CASE key \notin DOMAIN args -> "pass"
      [] type = "array" /\ args[key].type = "null" -> "panic"
      [] OTHER -> Verdict(type \in CheckedTypes /\ HasType(args, key, type))

\* A maximum of 0 means no maximum.
ValidateLength(key, min, max, args) ==
    Verdict(key \in DOMAIN args =>
              /\ HasType(args, key, "string")
              /\ args[key].length >= min
              /\ max > 0 => args[key].length <= max)

\* Values are compared as they print, so 1 and "1" are the same.
ValidateEnum(key, texts, args) == Verdict(key \in DOMAIN args => args[key].text \in texts)

Validate(v, args) ==
    CASE v.check = "required" -> ValidateRequired(v.keys, args)
      [] v.check = "type" -> ValidateType(v.key, v.type, args)
      [] v.check = "length" -> ValidateLength(v.key, v.min, v.max, args)
      [] v.check = "enum" -> ValidateEnum(v.key, v.texts, args)

\* ChainValidators: the first one that does not pass decides.
ChainVerdict(validators, args) ==
    LET stops == {i \in DOMAIN validators : Validate(validators[i], args) # "pass"}
    IN  IF stops = {} THEN "pass" ELSE Validate(validators[Min(stops)], args)

=============================================================================
