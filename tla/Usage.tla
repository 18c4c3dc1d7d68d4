-------------------------------- MODULE Usage -------------------------------
(***************************************************************************)
(* The opt-in usage statistics (utils/usage_stats.py): the answer the user *)
(* gave, the kill switch of the environment and the events that encodes    *)
(* record (gui/services/pipeline_runner.py) while the answer changes.      *)
(***************************************************************************)
EXTENDS Naturals, FiniteSets

CONSTANTS
    Encodes,        \* the encodes that record their outcome
    Details,        \* what an encode may know of itself: [preset, mode, codec, source, failure]
    MaxAnswers      \* bound: the answers the user gives

VARIABLES
    disabled,       \* SVCS_DISABLE_USAGE_STATS
    url,            \* SVCS_USAGE_STATS_URL is set
    consent,        \* usage_consent.json: absent, torn, yes, no
    answers, saving,    \* the answers given, and the one being written
    pc, wished,     \* the step of each encode's record, and whether the user agreed meanwhile
    detail,         \* what each encode knows of itself
    local, sent     \* the events of usage_events.jsonl and those posted

vars == <<disabled, url, consent, answers, saving, pc, wished, detail, local, sent>>

Nothing == "nothing"
Goto(e, from, to) == pc[e] = from /\ pc' = [pc EXCEPT ![e] = to]
Agreed(file) == ~disabled /\ file = "yes"

(* set_consent, in place; a reset deletes the answer and the events.          *)
Answer ==
    /\ saving = {} /\ answers < MaxAnswers /\ answers' = answers + 1
    /\ \E a \in {"yes", "no"} : saving' = {a}
    /\ consent' = "torn"
    /\ UNCHANGED <<disabled, url, pc, wished, detail, local, sent>>
Answered ==
    /\ saving # {} /\ consent' \in saving /\ saving' = {}
    /\ wished' = [e \in Encodes |-> wished[e] \/ Agreed(consent')]
    /\ UNCHANGED <<disabled, url, answers, pc, detail, local, sent>>
ResetState ==
    /\ saving = {} /\ answers < MaxAnswers /\ answers' = answers + 1
    /\ consent' = "absent" /\ local' = {}
    /\ UNCHANGED <<disabled, url, saving, pc, wished, detail, sent>>

-----------------------------------------------------------------------------
(* _record_encode_stat: what an encode tells of itself, in categories.        *)
Modes  == {"mode0", "mode1", "mode2", "mode3"}
Codecs == {"auto", "libx264", "libsvtav1", "libaom-av1"}
Category(failure) == IF failure \in {"none", "timeout", "io"} THEN failure ELSE "encode"
Path(source) == IF source = "rtsp" THEN "rtsp" ELSE "file"
Fields(d) == [preset |-> d.preset, mode |-> d.mode, codec |-> d.codec,
              success |-> d.failure = "none", error_category |-> Category(d.failure), ingestion_path |-> Path(d.source)]
Begin(e) ==
    /\ Goto(e, "runs", "asks")
    /\ \E d \in Details : detail' = [detail EXCEPT ![e] = d]
    /\ wished' = [wished EXCEPT ![e] = Agreed(consent)]
    /\ UNCHANGED <<disabled, url, consent, answers, saving, local, sent>>

(* is_enabled, read_consent: a missing or a torn answer is none.              *)
ReadConsentLenient(file) == file # "no"
ReadConsent(file) == file = "yes"
IsEnabledAlways == ReadConsent(consent)
IsEnabled == ~disabled /\ ReadConsent(consent)
AskConsent(e) ==
    /\ Goto(e, "asks", IF IsEnabled THEN "records" ELSE "over")
    /\ UNCHANGED <<disabled, url, consent, answers, saving, wished, detail, local, sent>>

(* sanitize_event: each field from its vocabulary, a preset from the registry, *)
(* a field that is missing or unknown left out or made "other".                *)
Presets == {"doorbell", "other"}
SanitizedRaw(d) == Fields(d)
Sanitized(d) ==
    [Fields(d) EXCEPT !.preset = IF @ \in Presets \union {Nothing} THEN @ ELSE "other",
                      !.mode   = IF @ \in Modes THEN @ ELSE "other",
                      !.codec  = IF @ \in Codecs THEN @ ELSE "other"]
\* _default_emit: a write or a post that fails loses the event and nothing else.
Emit(e) ==
    /\ Goto(e, "records", "over")
    /\ LET event == [by |-> e, fields |-> Sanitized(detail[e])]
       IN  /\ local' \in {local, local \union {event}}
           /\ sent' \in {sent} \union (IF url THEN {sent \union {event}} ELSE {})
    /\ UNCHANGED <<disabled, url, consent, answers, saving, wished, detail>>

Init ==
    /\ disabled \in BOOLEAN /\ url \in BOOLEAN /\ consent \in {"absent", "torn", "yes", "no"}
    /\ answers = 0 /\ saving = {}
    /\ pc = [e \in Encodes |-> "runs"] /\ wished = [e \in Encodes |-> FALSE]
    /\ detail = [e \in Encodes |-> CHOOSE d \in Details : TRUE]
    /\ local = {} /\ sent = {}
Next ==
    \/ Answer \/ Answered \/ ResetState
    \/ \E e \in Encodes : Begin(e) \/ AskConsent(e) \/ Emit(e)
Spec == Init /\ [][Next]_vars

-----------------------------------------------------------------------------
\* An encode is recorded only if the user's answer was yes at some time between its start
\* and its record and the kill switch was off, it is posted only to an address that was
\* set, and it tells nothing but categories, wherever its words came from
\* (usage_stats.py:11-23).
UsageConsented ==
    /\ \A event \in local \union sent :
          /\ wished[event.by]
          /\ event.fields.preset \in Presets \union {Nothing}
          /\ event.fields.mode \in Modes \union {"other"} /\ event.fields.codec \in Codecs \union {"other"}
    /\ disabled => local \union sent = {}
    /\ ~url => sent = {}
=============================================================================
