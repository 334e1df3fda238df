---------------------------- MODULE MCToolCalls -----------------------------
(* Tools and requests of the model-checking instances of ToolCalls.        *)
EXTENDS ToolCalls

CONSTANTS r1, r2

AllCalls == Calls

Text == Value("string", "x", 1)
Number == Value("number", "1", 0)
Null == Value("null", "<nil>", 0)
Args1(key, v) == [k \in {key} |-> v]
Args2(key1, v1, key2, v2) == [k \in {key1, key2} |-> IF k = key1 THEN v1 ELSE v2]

SchemaForm(schema) == [form |-> "schema", schema |-> schema]

\* Like write_file behind WithTimeout: its schema is written in Go, and it
\* checks its arguments itself and does not watch its context.
WriteFile ==
    [gated |-> FALSE, timed |-> TRUE, heeds |-> FALSE, validators |-> <<>>,
     needs |-> {"path", "content"}, filled |-> {"path"},
     parameters |-> SchemaForm(Schema(Args2("path", "string", "content", "string"),
                                      {"path", "content"}, "strings", TRUE, TRUE))]

\* Like execute: gated, without a timeout of its own, watching its context.
Execute ==
    [gated |-> TRUE, timed |-> FALSE, heeds |-> TRUE, validators |-> <<>>,
     needs |-> {"command"}, filled |-> {"command"},
     parameters |-> SchemaForm(Schema(Args1("command", "string"), {"command"}, "strings", TRUE, TRUE))]

\* A gated custom tool behind a timeout, its schema decoded from JSON.
Deploy ==
    [gated |-> TRUE, timed |-> TRUE, heeds |-> FALSE, validators |-> <<>>,
     needs |-> {}, filled |-> {},
     parameters |-> SchemaForm(Schema(Args1("target", "string"), {"target"}, "anys", TRUE, FALSE))]

\* A wrapped custom tool with a parameter struct.
Search ==
    [gated |-> FALSE, timed |-> FALSE, heeds |-> FALSE,
     validators |-> <<[check |-> "required", keys |-> {"text"}],
                      [check |-> "type", key |-> "tags", type |-> "array"],
                      [check |-> "length", key |-> "text", min |-> 1, max |-> 2],
                      [check |-> "enum", key |-> "limit", texts |-> {"1", "2"}]>>,
     needs |-> {}, filled |-> {},
     parameters |-> [form |-> "struct",
                     fields |-> {Field("text", "string", FALSE), Field("-", "string", FALSE),
                                 Field("limit,omitempty", "number", FALSE),
                                 Field("tags,omitempty", "array", FALSE)}]]

Call(tool, args) == [tool |-> tool, args |-> args]

MixedRequests ==
    [write |-> Call(WriteFile, Args2("path", Text, "content", EmptyString)),
     writeNoContent |-> Call(WriteFile, Args1("path", Text)),
     writeNumber |-> Call(WriteFile, Args2("path", Number, "content", Text)),
     execute |-> Call(Execute, Args1("command", Text)),
     executeNothing |-> Call(Execute, NoArgs),
     deploy |-> Call(Deploy, Args1("target", Text)),
     deployNothing |-> Call(Deploy, NoArgs),
     search |-> Call(Search, Args2("text", Text, "limit", Number)),
     searchText |-> Call(Search, Args2("text", Text, "limit", Text)),
     searchNull |-> Call(Search, Args2("text", Text, "tags", Null))]

\* A run with its round; the other one has nothing to do.
Alone(calls) == [r \in {r1, r2} |-> IF r = r1 THEN calls ELSE <<>>]
Both(calls1, calls2) == [r \in {r1, r2} |-> IF r = r1 THEN calls1 ELSE calls2]

Scenario(validator, asks, rounds) == [build |-> validator, approver |-> asks, round |-> rounds]

\* Arguments of every kind with both validators, calls that follow one another,
\* prompts that meet on the console, and the approving service.
MixedScenarios ==
    {Scenario(validator, "console", Alone(<<name>>)) :
        validator \in {"default", "jsonschema"},
        name \in DOMAIN MixedRequests \ {"execute", "deploy"}}
    \cup {Scenario("default", "console", rounds) :
             rounds \in {Alone(<<"write", "write">>), Alone(<<"deploy", "execute">>),
                        Both(<<"execute">>, <<"deploy">>), Both(<<"write">>, <<"searchNull">>)}}
    \cup {Scenario("jsonschema", "http", rounds) :
             rounds \in {Alone(<<"write", "deploy">>), Both(<<"execute">>, <<"deploy">>)}}

=============================================================================
