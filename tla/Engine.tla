------------------------------- MODULE Engine -------------------------------
(***************************************************************************)
(* One exchange through the inspection engine (inspection/engine.py): the   *)
(* request is validated, scanned, redacted, its attestation verified and    *)
(* the access broker asked (inspect_request); then its response is          *)
(* inspected under the PII policy the request selected (inspect_response).  *)
(* "inline" decides, "mirror" only reports.                                 *)
(*                                                                         *)
(* A request body is one field and the resource it names.  What scanners,   *)
(* mapping, attestation and backend answer is chosen when their step runs.  *)
(***************************************************************************)
EXTENDS SseStream

CONSTANTS
    Contents,  \* request bodies: [field, resource: texts, redactable: route.redact_fields has them]
    Settings,  \* PII actions: [tool, route: or "unset", global]
    Texts      \* bodies of responses that are not event streams

ASSUME ConfigAssumption ==
    /\ Texts \subseteq Seq(STRING)
    /\ \A c \in Contents :
        c \in [field : Seq(STRING), resource : Seq(STRING), redactable : BOOLEAN]
    /\ \A s \in Settings :
        /\ s.global \in {"redact", "block"}
        /\ {s.tool, s.route} \subseteq {"redact", "block", "unset"}

VARIABLES
    phase,     \* the step inspect_request or inspect_response is at
    mode,
    settings,  \* the PII actions configured for the tool, its route and globally
    request,   \* the request's content
    modified,  \* its content after redaction
    verdict,   \* the request's verdict
    nonce,     \* whether the attestation was consumed
    broker,    \* whether there is an access broker, what it was asked and answered
    media,     \* content type of the response
    body,      \* text of a response that is not an event stream
    response   \* the response's verdict

config == <<mode, settings>>
vars == <<sse, phase, config, request, modified, verdict, nonce, broker, media, body, response>>

NoContent == [field |-> <<>>, resource |-> <<>>]
NoVerdict == [action |-> "none", reason |-> "none", body |-> NoContent, entities |-> FALSE,
              complete |-> TRUE, pii |-> "unset"]
NoBroker == [enabled |-> FALSE, asked |-> "no", digest |-> NoContent, resource |-> <<>>, answer |-> "none"]
NoResponse == [action |-> "none", reason |-> "none", body |-> <<>>, complete |-> TRUE]

NoRequest == [field |-> <<>>, resource |-> <<>>, redactable |-> FALSE]

Content(r) == [field |-> r.field, resource |-> r.resource]

Init ==
    /\ SseInit
    /\ phase = "validate" /\ mode \in {"inline", "mirror"}
    /\ settings \in Settings /\ request \in Contents
    /\ modified = NoContent /\ verdict = NoVerdict /\ nonce = "unused"
    /\ broker \in {NoBroker, [NoBroker EXCEPT !.enabled = TRUE]}
    /\ media = "none" /\ body = <<>> /\ response = NoResponse

-----------------------------------------------------------------------------
(* inspect_request.                                                         *)

\* _pii_policy: the tool's action, else the route's, else the global one.
RoutePolicy == IF settings.route # "unset" THEN settings.route ELSE settings.global
PiiPolicy == IF settings.tool # "unset" THEN settings.tool ELSE RoutePolicy

\* What the steps may raise: validate_message, route_for, inspect_metadata, strict_json,
\* validate_llm, semantics, the scanners and check_egress.
MessageReasons ==
    {"incomplete_capture", "body_limit_exceeded", "unsupported_content_encoding",
     "unsupported_upgrade", "invalid_target"}
RouteReasons == {"ambiguous_path", "unmapped_route", "unmapped_action_override_header"}
ScanReasons == {"secret_detected", "suspicious_instruction", "signature_timeout", "inspection_deadline"}
MetadataReasons ==
    ScanReasons \cup {"pii_in_http_header", "request_query_limit_exceeded", "pii_in_request_target"}
JsonReasons ==
    {"invalid_json", "duplicate_json_key", "nonfinite_json_number", "json_node_limit_exceeded",
     "json_depth_exceeded"}
LlmReasons ==
    {"unsupported_llm_envelope", "model_not_allowed", "unsupported_llm_content", "unsupported_llm_tools"}
SemanticsReasons ==
    {"unsupported_mcp_envelope", "unsupported_mcp_version", "invalid_mcp_arguments",
     "invalid_mcp_metadata", "mcp_header_body_mismatch", "invalid_mcp_method", "unmapped_tool",
     "unmapped_http_action", "missing_resource", "invalid_resource", "invalid_resource_mapping",
     "invalid_mcp_header_mapping", "invalid_mcp_header_parameter"}
\* Findings that _redact_json cannot hide: in a key, in a number.
StructureReasons == {"pii_in_structural_field", "pii_in_numeric_field"}
EgressReasons ==
    {"ambiguous_nested_url", "unsupported_nested_url_scheme", "invalid_nested_url", "egress_not_allowed"}

\* The reasons of each step of inspect_request.  Redaction parses nested arguments, scans
\* them, and maps the modified value to its action and resource once more.
Reasons ==
    [validate |-> MessageReasons \cup RouteReasons,
     metadata |-> MetadataReasons,
     parse    |-> JsonReasons \cup LlmReasons \cup SemanticsReasons \cup {"unsupported_request_media_type"},
     scan     |-> ScanReasons \cup EgressReasons \cup {"local_policy_denied"},
     redact   |-> StructureReasons \cup JsonReasons \cup ScanReasons \cup SemanticsReasons,
     verify   |-> {"untrusted_or_mismatched_identity", "attestation_replay"},
     trust    |-> {"untrusted_source"},
     ask      |-> {"inspection_deadline"}]

Unmapped == {"unmapped_route", "unmapped_tool", "unmapped_http_action"}

Uncertain ==
    {"incomplete_capture", "body_limit_exceeded", "invalid_json", "unsupported_content_encoding",
     "unsupported_request_media_type", "untrusted_or_mismatched_identity", "unmapped_route",
     "unmapped_tool", "inspection_deadline", "signature_timeout"}

\* validate_message and route_for, inspect_metadata, parsing and semantics, and the
\* scans of the value let the request pass.
Order == [validate |-> "metadata", metadata |-> "parse", parse |-> "scan", scan |-> "redact"]

PassCheck ==
    /\ phase \in DOMAIN Order
    /\ phase' = Order[phase]
    /\ verdict' = IF phase = "parse"
                  THEN [verdict EXCEPT !.pii = PiiPolicy]
                  ELSE verdict
    /\ UNCHANGED <<sse, config, request, modified, nonce, broker, media, body, response>>

\* The except branch: an error is a block; only a mirror may answer "unknown".
Failed(v, reason) ==
    IF mode = "mirror" /\ v.entities /\ reason = "untrusted_or_mismatched_identity"
    THEN [v EXCEPT !.action = "redact", !.reason = "pii_detected_identity_unverified",
                   !.body = NoContent, !.complete = FALSE]
    ELSE [v EXCEPT !.action = IF mode = "mirror" /\ reason \in Uncertain THEN "unknown" ELSE "block",
                   !.reason = reason, !.body = NoContent, !.complete = reason \notin Uncertain]

\* The attestation is consumed by the INSERT whose conflict is a replay; a replayed
\* one was consumed before.
Raise(reason) ==
    /\ phase \in DOMAIN Reasons /\ reason \in Reasons[phase]
    /\ ~(mode = "mirror" /\ reason \in Unmapped)
    /\ reason = "attestation_replay" => mode = "inline"
    /\ verdict' = Failed(verdict, reason)
    /\ phase' = "decided"
    /\ UNCHANGED <<sse, config, request, modified, nonce, broker, media, body, response>>

\* A failure of a scanner or a store.
Unavailable ==
    /\ phase \in DOMAIN Reasons
    /\ verdict' = [NoVerdict EXCEPT !.action = IF mode = "inline" THEN "block" ELSE "unknown",
                                    !.reason = "inspection_unavailable", !.complete = FALSE]
    /\ phase' = "decided"
    /\ UNCHANGED <<sse, config, request, modified, nonce, broker, media, body, response>>

Masked(text) == Mask(text, Findings(text))
HasFindings(c) == Findings(c.field) # {} \/ Findings(c.resource) # {}

\* _redact_json and the second call of semantics: why the content is refused.
RedactChecks(r, pii) ==
    << <<HasFindings(Content(r)) /\ pii = "block", "pii_block_policy">>,
       <<HasFindings(Content(r)) /\ ~r.redactable, "pii_in_nonredactable_field">>,
       <<Masked(r.resource) # r.resource, "redaction_changed_authorized_action">> >>

Redact ==
    /\ phase = "redact"
    /\ LET found  == [verdict EXCEPT !.entities = HasFindings(Content(request))]
           reason == FirstReason(RedactChecks(request, verdict.pii))
           new    == [field |-> Masked(request.field), resource |-> Masked(request.resource)]
       IN IF reason = "none"
          THEN /\ modified' = new
               /\ verdict' = [found EXCEPT !.body = IF new = Content(request) THEN NoContent ELSE new]
               /\ phase' = "verify"
          ELSE /\ verdict' = Failed(found, reason)
               /\ phase' = "decided"
               /\ UNCHANGED modified
    /\ UNCHANGED <<sse, config, request, nonce, broker, media, body, response>>

\* The attestation is verified, and consumed inline, once the content has passed.
Verify ==
    /\ phase = "verify"
    /\ nonce' = IF mode = "inline" THEN "consumed" ELSE nonce
    /\ phase' = IF broker.enabled THEN "ask" ELSE "trust"
    /\ UNCHANGED <<sse, config, request, modified, verdict, broker, media, body, response>>

\* allow, or redact when the body was changed.
Permitted(v) ==
    IF v.body = NoContent THEN [v EXCEPT !.action = "allow", !.reason = "policy_allowed"]
    ELSE [v EXCEPT !.action = "redact", !.reason = "pii_redacted"]

TrustSource ==
    /\ phase = "trust"
    /\ verdict' = Permitted(verdict)
    /\ phase' = "decided"
    /\ UNCHANGED <<sse, config, request, modified, nonce, broker, media, body, response>>

\* The broker is asked about the request as it arrived, before redaction.
AskUnredacted(answer) ==
    /\ phase = "ask"
    /\ broker' = [enabled |-> TRUE, asked |-> IF mode = "inline" THEN "authorize" ELSE "evaluate",
                  digest |-> Content(request), resource |-> request.resource, answer |-> answer]
    /\ verdict' = IF answer = "allow" THEN Permitted(verdict)
                  ELSE [verdict EXCEPT !.action = answer, !.reason = "broker", !.body = NoContent]
    /\ phase' = "decided"
    /\ UNCHANGED <<sse, config, request, modified, nonce, media, body, response>>

\* authorize inline, evaluate in mirror mode, with the digest of what will be sent.
Ask(answer) ==
    /\ phase = "ask"
    /\ broker' = [enabled |-> TRUE, asked |-> IF mode = "inline" THEN "authorize" ELSE "evaluate",
                  digest |-> modified, resource |-> request.resource, answer |-> answer]
    /\ verdict' = IF answer = "allow" THEN Permitted(verdict)
                  ELSE [verdict EXCEPT !.action = answer, !.reason = "broker", !.body = NoContent]
    /\ phase' = "decided"
    /\ UNCHANGED <<sse, config, request, modified, nonce, media, body, response>>

\* _inspect_unmapped_mirror: data findings are reported without a claim about access.
\* scan is what validation and the scanners find, "clean" if nothing.
InspectUnmapped(reason, scan) ==
    /\ mode = "mirror" /\ phase \in DOMAIN Reasons /\ reason \in Reasons[phase] \cap Unmapped
    /\ LET c == Content(request)
           v == [verdict EXCEPT !.action = "unknown", !.reason = reason, !.complete = FALSE,
                                !.pii = settings.global, !.entities = HasFindings(c)]
       IN verdict' =
            CASE scan = "unavailable" -> [v EXCEPT !.reason = "inspection_unavailable", !.entities = FALSE]
              [] scan \in {"suspicious_instruction", "invalid_json"} ->
                    [v EXCEPT !.action = "block", !.reason = scan, !.entities = FALSE]
              [] scan = "unsupported_media" -> [v EXCEPT !.entities = FALSE]
              [] scan = "clean" /\ ~HasFindings(c) -> v
              [] scan = "clean" /\ HasFindings(c) /\ settings.global = "block" ->
                    [v EXCEPT !.action = "block", !.reason = "pii_block_policy"]
              [] OTHER -> [v EXCEPT !.action = "redact", !.reason = "pii_detected_unmapped_context"]
    /\ phase' = "decided"
    /\ UNCHANGED <<sse, config, request, modified, nonce, broker, media, body, response>>

-----------------------------------------------------------------------------
(* inspect_response.                                                        *)

\* A response exists when the request was sent: inline if it was let through,
\* in mirror mode always.
Sent(v) == v.action \in {"allow", "redact"}

\* The policy the request selected.  If its inspection ended before one was selected, the
\* route's or the global one: the response may have a route or none, as it does not carry
\* the headers that a route may require.
ResponsePolicies ==
    IF verdict.pii # "unset" THEN {verdict.pii} ELSE {RoutePolicy, settings.global}

\* The calls are separate: of the request's inspection only the mode and the policy
\* reach inspect_response.
Respond(m, t) ==
    /\ phase = "decided" /\ (mode = "mirror" \/ Sent(verdict))
    /\ phase' = "response" /\ media' = m
    /\ body' = IF m \in {"json", "plain"} THEN t ELSE <<>>
    /\ request' = NoRequest /\ modified' = NoContent
    /\ \E p \in ResponsePolicies : verdict' = [NoVerdict EXCEPT !.pii = p]
    /\ nonce' = "unused" /\ broker' = NoBroker
    /\ UNCHANGED <<sse, config, response>>

\* The policy inspect_response works with.
ResponsePolicy == verdict.pii

\* Errors that are findings: the inspection did what it had to.
CompleteDetection ==
    {"pii_block_policy", "secret_detected", "suspicious_instruction", "pii_in_http_header",
     "pii_in_structural_field", "pii_in_numeric_field", "pii_in_sse_metadata",
     "pii_in_sse_structural_field", "pii_in_nonredactable_field"}

Refused(reason) ==
    [action |-> IF mode = "inline" \/ reason \in CompleteDetection THEN "block" ELSE "unknown",
     reason |-> reason, body |-> <<>>, complete |-> reason \in CompleteDetection]

Answer(r) ==
    /\ response' = r
    /\ phase' = "done"
    /\ UNCHANGED <<config, request, modified, verdict, nonce, broker, media, body>>

ResponseReasons ==
    MessageReasons \cup ScanReasons \cup JsonReasons \cup LlmReasons \cup StructureReasons \cup
    {"pii_in_http_header", "invalid_utf8", "unsupported_response_media_type", "inspection_unavailable"}

\* The deadline and a failing backend can strike while a stream is read, the others before.
Anytime == {"inspection_deadline", "inspection_unavailable"}
OnlyFor == [json |-> JsonReasons \cup LlmReasons \cup StructureReasons, plain |-> {"invalid_utf8"},
            other |-> {"unsupported_response_media_type"}]

\* validate_message and inspect_metadata, decoding, and what a backend raises.
RaiseResponse(reason) ==
    /\ phase = "response"
    /\ Reading /\ (reason \notin Anytime => input = <<>>)
    /\ \A m \in DOMAIN OnlyFor : reason \in OnlyFor[m] => media = m
    /\ RaiseSse(reason)
    /\ Answer(Refused(reason))

Clean == [action |-> "allow", reason |-> "response_clean", body |-> <<>>, complete |-> TRUE]

RespondEmpty == phase = "response" /\ media = "empty" /\ Answer(Clean) /\ UNCHANGED sse

\* A JSON or text body: signatures, findings, redaction.
RespondText ==
    /\ phase = "response" /\ media \in {"json", "plain"}
    /\ UNCHANGED sse
    /\ LET reason == FirstReason(<< <<Suspicious(body), "suspicious_instruction">>,
                                    <<Findings(body) # {} /\ ResponsePolicy = "block", "pii_block_policy">> >>)
       IN Answer(IF reason # "none" THEN Refused(reason)
                 ELSE IF Masked(body) = body THEN Clean
                 ELSE [action |-> "redact", reason |-> "response_pii_redacted",
                       body |-> Masked(body), complete |-> TRUE])

ReadStream ==
    /\ phase = "response" /\ media = "sse"
    /\ ReadSse(ResponsePolicy)
    /\ UNCHANGED <<phase, config, request, modified, verdict, nonce, broker, media, body, response>>

\* _redact_sse returned or raised.
RespondStream ==
    /\ phase = "response" /\ media = "sse" /\ ~Reading
    /\ UNCHANGED sse
    /\ Answer(IF ~Released THEN Refused(outcome)
              ELSE IF output = Received THEN Clean
              ELSE [Clean EXCEPT !.action = "redact", !.reason = "response_pii_redacted"])

Next ==
    \/ PassCheck
    \/ \E p \in DOMAIN Reasons : \E r \in Reasons[p] : Raise(r)
    \/ Unavailable
    \/ Redact \/ Verify \/ TrustSource
    \/ \E a \in {"allow", "block", "approval_required"} : Ask(a)
    \/ \E r \in Unmapped, s \in {"clean", "suspicious_instruction", "invalid_json",
                                "unsupported_media", "unavailable"} : InspectUnmapped(r, s)
    \/ \E m \in {"json", "plain", "sse", "other", "empty"}, t \in Texts : Respond(m, t)
    \/ \E r \in ResponseReasons : RaiseResponse(r)
    \/ RespondEmpty \/ RespondText \/ ReadStream \/ RespondStream

Spec == Init /\ [][Next]_vars

-----------------------------------------------------------------------------
SentContent == IF verdict.body = NoContent THEN Content(request) ELSE verdict.body

\* What is let through inline is what was authorized: the content that is sent holds no
\* finding, its attestation was consumed and the broker allowed exactly this digest and
\* this resource.  A mirror consumes and spends nothing, and content that is refused
\* does not cost the client its attestation (the order of steps in inspect_request).
AuthorizationMatchesRelease ==
    /\ phase = "decided" /\ mode = "inline" /\ Sent(verdict) =>
        /\ ~HasFindings(SentContent)
        /\ nonce = "consumed"
        /\ broker.enabled =>
                      /\ broker.asked = "authorize" /\ broker.answer = "allow"
                      /\ broker.digest = SentContent /\ broker.resource = SentContent.resource
    /\ mode = "mirror" => nonce = "unused" /\ broker.asked # "authorize"
    /\ phase = "decided" /\ nonce = "consumed" /\ ~Sent(verdict) =>
        verdict.reason \in {"broker", "untrusted_source", "inspection_deadline", "inspection_unavailable"}

\* The setting that applies: the most specific one.
Selected ==
    LET s == <<settings.tool, settings.route, settings.global>>
    IN s[SelectInSeq(s, LAMBDA a : a # "unset")]

\* A response is called clean exactly if upstream sent nothing sensitive, joined as the
\* client joins it, and inline one that was redacted was not to be blocked: the policy
\* the request selected (tool, route, global) governs its response, however many calls,
\* events and errors lie between (inspect_response, _redact_sse).
ResponseFollowsPolicy ==
    phase = "done" /\ Sent(response) =>
        LET dirty == IF media = "sse" THEN Sensitive(Received)
                     ELSE Findings(body) # {} \/ Suspicious(body)
        IN /\ response.action = "allow" <=> ~dirty
           /\ mode = "inline" /\ dirty => Selected = "redact"

=============================================================================
