--------------------------- MODULE ProviderSettings ---------------------------
\* The global settings document: the AI provider, and what a test of it proved.
\*
\* A test reads the settings, asks the provider for as long as that takes and
\* then writes its own fields.  Settings saved meanwhile stay as saved, and what
\* the test proved counts only for the provider it asked.
EXTENDS Integers, FiniteSets

CONSTANTS
    Requests,   \* API requests in progress
    Endpoints,  \* base URLs of providers
    Models,     \* model names; "none" is an unset one
    Supports(_, _), \* the structured-output modes an endpoint honours for a model
    MaxKeys     \* bound on the API keys saved

VARIABLES
    conf,    \* the stored document
    keys,    \* API keys saved so far
    kept,    \* the key saved or cleared last
    request  \* each request's locals

vars == <<conf, keys, kept, request>>

NoRecord == [mode |-> "none", endpoint |-> "none", model |-> "none"]
\* probe order: the JSON schema first.
Modes == <<"json_schema", "json_object">>
Unset == [endpoint |-> "none", model |-> "none", key |-> 0, proved |-> NoRecord]
Idle == [pc |-> "idle", endpoint |-> "none", model |-> "none", sent |-> "keep", key |-> 0,
         draft |-> FALSE, proved |-> NoRecord, probed |-> FALSE]

Init ==
    /\ conf = Unset
    /\ keys = 0 /\ kept = 0
    /\ request = [r \in Requests |-> Idle]

Set(r, l) == request' = [request EXCEPT ![r] = l]
Done(r) == Set(r, Idle)

------------------------
\* Saving.
\* update_ai_settings and update_impact_ai read the document, then write what
\* they were sent; the second refuses to enable a provider with no key.
Submit(r, endpoint, model, key, required) ==
    /\ request[r] = Idle
    /\ key = "new" => keys < MaxKeys
    /\ ~(required /\ (key = "clear" \/ (key = "keep" /\ conf.key = 0)))
    /\ Set(r, [Idle EXCEPT !.pc = "save", !.sent = key, !.endpoint = endpoint, !.model = model, !.key = conf.key])
    /\ UNCHANGED <<conf, keys, kept>>

KeyWrittenSlip(l) == CASE l.sent = "new" -> keys + 1 [] l.sent = "clear" -> 0 [] OTHER -> l.key
\* _api_key_fields: a request that neither sends nor clears a key names none.
KeyWritten(l) == CASE l.sent = "new" -> keys + 1 [] l.sent = "clear" -> 0 [] OTHER -> conf.key

Save(r) ==
    LET l == request[r] IN
    /\ l.pc = "save"
    /\ conf' = [conf EXCEPT !.endpoint = l.endpoint, !.model = l.model, !.key = KeyWritten(l)]
    /\ keys' = IF l.sent = "new" THEN keys + 1 ELSE keys
    /\ kept' = IF l.sent = "keep" THEN kept ELSE KeyWritten(l)
    /\ Done(r)

------------------------
\* Testing.
\* test_ai_connection: a draft that names the saved provider tests that one;
\* another uses the saved key only at the saved endpoint.
Test(r, endpoint, model, own) ==
    LET saved == ~own /\ model # "none" /\ endpoint = conf.endpoint /\ model = conf.model IN
    /\ request[r] = Idle /\ endpoint # "none"
    /\ Set(r, [Idle EXCEPT !.pc = "check", !.endpoint = endpoint, !.model = model, !.draft = ~saved,
                           !.key = IF ~own /\ endpoint = conf.endpoint THEN conf.key ELSE 0])
    /\ UNCHANGED <<conf, keys, kept>>
\* Without a body the stored provider is tested, and must be complete.
TestSaved(r) ==
    /\ request[r] = Idle /\ conf.endpoint # "none" /\ conf.model # "none"
    /\ Set(r, [Idle EXCEPT !.pc = "check", !.endpoint = conf.endpoint, !.model = conf.model,
                           !.key = conf.key])
    /\ UNCHANGED <<conf, keys, kept>>

\* _check_provider: any provider may fail to answer.
Check(r, ok) ==
    LET l == request[r] IN
    /\ l.pc = "check"
    /\ Set(r, [l EXCEPT !.pc = IF ok /\ l.model # "none" /\ ~l.draft THEN "probe" ELSE "record"])
    /\ UNCHANGED <<conf, keys, kept>>

\* _probe_structured_output keeps the first mode whose answer validated; a
\* probe may fail though the provider honours the mode.
Probe(r, answered) ==
    LET l == request[r]
        honored == {i \in 1..2 : Modes[i] \in answered} IN
    /\ l.pc = "probe" /\ answered \subseteq Supports(l.endpoint, l.model)
    /\ Set(r, [l EXCEPT !.pc = "record", !.probed = TRUE,
                        !.proved = IF honored = {} THEN NoRecord
                                   ELSE [mode |-> Modes[CHOOSE i \in honored : \A j \in honored : i <= j],
                                         endpoint |-> l.endpoint, model |-> l.model]])
    /\ UNCHANGED <<conf, keys, kept>>

\* A draft's outcome is not stored; another's writes the fields of a test,
\* of which a test that probed nothing leaves the last mode alone.
Record(r) ==
    LET l == request[r] IN
    /\ l.pc = "record"
    /\ conf' = IF l.probed THEN [conf EXCEPT !.proved = l.proved] ELSE conf
    /\ Done(r)
    /\ UNCHANGED <<keys, kept>>

ProvedModeSlip(c) == c.proved.mode
\* structured_output_mode: only while it still fits this provider and model.
ProvedMode(c) ==
    IF c.proved.endpoint = c.endpoint /\ c.proved.model = c.model THEN c.proved.mode ELSE "none"

Next ==
    \E r \in Requests :
        \/ \E e \in Endpoints, m \in Models, key \in {"new", "clear", "keep"}, required \in BOOLEAN :
               Submit(r, e, m, key, required)
        \/ Save(r)
        \/ \E e \in Endpoints, m \in Models, own \in BOOLEAN : Test(r, e, m, own)
        \/ TestSaved(r)
        \/ \E ok \in BOOLEAN : Check(r, ok)
        \/ \E answered \in SUBSET {"json_schema", "json_object"} : Probe(r, answered)
        \/ Record(r)

Spec == Init /\ [][Next]_vars

------------------------
\* Properties.
\* The Guardian agent is given a structured-output mode only where the saved
\* provider honours it, though the provider may be changed while a test asks
\* the one before it (test_ai_connection, structured_output_mode).
ProvedModeIsHonored ==
    ProvedMode(conf) # "none" => ProvedMode(conf) \in Supports(conf.endpoint, conf.model)

\* The stored key is the one saved or cleared last: no save that leaves it out
\* and no test that read the document earlier puts another back
\* (_api_key_fields, _write_fields).
RotationSurvives == conf.key = kept
=============================================================================
