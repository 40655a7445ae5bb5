---------------------------- MODULE PolicyDocument ----------------------------
(***************************************************************************)
(* A policy document and what is computed from one: its schema             *)
(* (app/policy/models.py), what a request sees of it (PolicySnapshot),     *)
(* what publishing demands and what a diff shows (app/policy/authoring.py),*)
(* the view the API gives of it (app/api/v1/policies.py), and what the     *)
(* browser makes of that view (frontend/lib/policies.ts).                  *)
(*                                                                         *)
(* A document is a record [schema, ttl, budget, providers, unknown,        *)
(* entities]; its entities are a function from entity types to rules       *)
(* [action, score, enabled, priority, recognizer, description]; its        *)
(* providers one from aliases to sets of models.                           *)
(***************************************************************************)
EXTENDS Integers, FiniteSets

CONSTANTS
    Supported,          \* SUPPORTED_ENTITY_TYPES
    CustomTypes,        \* CUSTOM_RECOGNIZER_TYPES
    HighRisk,           \* HIGH_RISK_ENTITIES
    DefaultThreshold,   \* DEFAULT_ENTITY_THRESHOLDS, of each supported type
    MaxScore,           \* a score of 1.0
    Digit,              \* how many scores are written alike, in six digits
    Jump,               \* THRESHOLD_JUMP
    MaxTtl, MaxBudget,  \* MAX_SESSION_TTL_SECONDS, MAX_POLICY_ENTITY_BUDGET
    ProvidersText(_),   \* _providers_text: names joined by separators they may hold
    Nothing             \* an absent value

ASSUME VocabularyAssumption ==
    /\ CustomTypes \subseteq Supported
    /\ DefaultThreshold \in [Supported -> 0..MaxScore]
    /\ MaxScore \in Nat \ {0} /\ Digit \in Nat \ {0} /\ Jump \in Nat \ {0}
    /\ MaxTtl \in Nat \ {0} /\ MaxBudget \in Nat \ {0}

\* EntityAction, with the order that PROTECTIVE_ORDER gives it.
Protection == [allow |-> 0, tokenize |-> 1, pseudonymize |-> 2, redact |-> 3, block |-> 4]
Actions == DOMAIN Protection
SchemaVersion == 1

\* The schema.  A document that breaks it is refused wherever one is read or written.
WellformedRule(r) == r.action \in Actions /\ r.score \in 0..MaxScore
Wellformed(d) ==
    /\ d.schema = SchemaVersion
    /\ d.ttl \in 1..MaxTtl /\ d.budget \in 1..MaxBudget
    /\ DOMAIN d.providers # {} /\ \A p \in DOMAIN d.providers : d.providers[p] # {}
    /\ DOMAIN d.entities # {} /\ \A t \in DOMAIN d.entities : WellformedRule(d.entities[t])

-----------------------------------------------------------------------------
\* PolicySnapshot: rules that are not enabled are not there, and a type without a rule
\* is tokenized at any score.
Snapshot(d) == [t \in {u \in DOMAIN d.entities : d.entities[u].enabled} |-> d.entities[t]]
ActionFor(d, t) == IF t \in DOMAIN Snapshot(d) THEN Snapshot(d)[t].action ELSE "tokenize"
MinScoreFor(d, t) == IF t \in DOMAIN Snapshot(d) THEN Snapshot(d)[t].score ELSE 0

\* What is done with a hit.
Treatment(d, t, score) == IF score >= MinScoreFor(d, t) THEN ActionFor(d, t) ELSE "allow"

-----------------------------------------------------------------------------
\* validate_draft: problems, each naming its field, and warnings.
Recognizer(t) == IF t \in CustomTypes THEN "custom-regex" ELSE "presidio-builtin"
KnownRecognizers == {"custom-regex", "presidio-builtin"}
UnknownEntities(d) == {<<t, "unsupported_entity">> : t \in DOMAIN d.entities \ Supported}
UnknownRecognizers(d) ==
    {<<t, "unsupported_recognizer">> : t \in
        {u \in DOMAIN d.entities : d.entities[u].recognizer \notin KnownRecognizers \cup {Nothing}}}
Problems(d) ==
    IF Wellformed(d) THEN UnknownEntities(d) \cup UnknownRecognizers(d)
    ELSE {<<"document", "invalid">>}
Warnings(d) ==
    LET risky == DOMAIN d.entities \cap HighRisk
    IN  {<<t, "high_risk_disabled">> : t \in {u \in risky : ~d.entities[u].enabled}}
        \cup {<<t, "high_risk_allowed">> : t \in
                {u \in risky : d.entities[u].enabled /\ d.entities[u].action = "allow"}}
Validated(d) == [valid |-> Problems(d) = {}, problems |-> Problems(d),
                 warnings |-> IF Wellformed(d) THEN Warnings(d) ELSE {}]

-----------------------------------------------------------------------------
\* diff_documents.  Everything is compared as it is written: scores in six digits,
\* an empty recognizer like an absent one, and all the providers as one text.
Written(score) == score \div Digit
WrittenRecognizer(name) == IF name = "" THEN Nothing ELSE name
RuleFieldsButEnabled(r) ==                                                  \* mutant
    [action |-> r.action, score |-> Written(r.score), priority |-> r.priority,
     recognizer |-> WrittenRecognizer(r.recognizer)]
RuleFields(r) ==
    [action |-> r.action, score |-> Written(r.score), enabled |-> r.enabled,
     priority |-> r.priority, recognizer |-> WrittenRecognizer(r.recognizer)]

EntityChanges(a, b) ==
    LET common == DOMAIN a.entities \cap DOMAIN b.entities
        old(t) == RuleFields(a.entities[t])
        new(t) == RuleFields(b.entities[t])
    IN  {<<t, "added">> : t \in DOMAIN b.entities \ DOMAIN a.entities}
        \cup {<<t, "removed">> : t \in DOMAIN a.entities \ DOMAIN b.entities}
        \cup UNION {{<<t, f>> : f \in {g \in DOMAIN old(t) : old(t)[g] # new(t)[g]}} : t \in common}
SettingChanges(a, b) ==
    {f \in {"ttl", "budget", "unknown"} : a[f] # b[f]}
    \cup {f \in {"providers"} : ProvidersText(a.providers) # ProvidersText(b.providers)}
Diff(a, b) == [entities |-> EntityChanges(a, b), settings |-> SettingChanges(a, b)]

-----------------------------------------------------------------------------
\* _version_view: the rules as a list, each with the name of its type; the rest as it is.
RulesOf(d) == {[type |-> t, rule |-> d.entities[t]] : t \in DOMAIN d.entities}
View(d) ==
    [rules |-> RulesOf(d), ttl |-> d.ttl, budget |-> d.budget, unknown |-> d.unknown,
     providers |-> d.providers]

\* documentFrom, in the browser: a version, with edited rules.
TypesOf(rules) == {r.type : r \in rules}
RuleOf(rules, t) == (CHOOSE r \in rules : r.type = t).rule
DocumentFrom(view, rules) ==
    [schema |-> SchemaVersion, ttl |-> view.ttl, budget |-> view.budget,
     providers |-> view.providers, unknown |-> view.unknown,
     entities |-> [t \in TypesOf(rules) |-> RuleOf(rules, t)]]

\* list_detector_entities, as the page seeds a new rule from it.
CatalogRule(t) ==
    [action |-> "tokenize", score |-> DefaultThreshold[t], enabled |-> TRUE,
     priority |-> Nothing, recognizer |-> Recognizer(t), description |-> t]

\* riskyChanges and changeSummary.
Common(original, edited) == TypesOf(original) \cap TypesOf(edited)
RiskyChanges(original, edited) ==
    LET was(t) == RuleOf(original, t)
        is(t) == RuleOf(edited, t)
        kept == {t \in Common(original, edited) : ~(was(t).enabled /\ ~is(t).enabled)}
    IN  {<<t, "disabled">> : t \in Common(original, edited) \ kept}
        \cup {<<t, "action">> : t \in {u \in kept : Protection[is(u).action] < Protection[was(u).action]}}
        \cup {<<t, "threshold">> : t \in {u \in kept : is(u).score - was(u).score >= Jump}}
        \cup {<<t, "removed">> : t \in TypesOf(original) \ TypesOf(edited)}
ChangeSummary(original, edited) ==
    LET differ(f) == {t \in Common(original, edited) :
                        RuleOf(original, t)[f] # RuleOf(edited, t)[f]}
    IN  [added |-> Cardinality(TypesOf(edited) \ TypesOf(original)),
         removed |-> Cardinality(TypesOf(original) \ TypesOf(edited)),
         thresholds |-> Cardinality(differ("score")),
         actions |-> Cardinality(differ("action")),
         toggles |-> Cardinality(differ("enabled")),
         changed |-> Cardinality(differ("score") \cup differ("action") \cup differ("enabled"))]
=============================================================================
