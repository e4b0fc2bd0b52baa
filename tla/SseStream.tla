----------------------------- MODULE SseStream -----------------------------
(***************************************************************************)
(* Inspection of a buffered event stream (inspection/engine.py              *)
(* _redact_sse).  The engine reads the events of a complete body in order,  *)
(* follows the life cycle of the protocol family it recognises, collects    *)
(* every string into the lane it belongs to, and after the last event       *)
(* detects and hides sensitive text in the joined lanes, writing the result *)
(* back into the fragments the events carried.                              *)
(*                                                                         *)
(* An event is a record: the family its payload is recognised as            *)
(* ("comment" for events without data, "done" for the [DONE] marker), its   *)
(* type, the number of its content block, item or candidate, whether it     *)
(* finishes a candidate, its strings and the defect that the checks local   *)
(* to one event find.  Text is a sequence of characters in which "a" "b" is *)
(* personal data and "s" "t" a secret or a suspicious instruction; a JSON   *)
(* argument text is well formed when it is enclosed in braces.              *)
(***************************************************************************)
EXTENDS Naturals, Sequences, FiniteSets, SequencesExt

CONSTANTS
    Events,      \* the events an upstream may send
    MaxEvents,   \* bound: events of one stream
    MaxStrings,  \* bound: strings in the payloads of one stream
    MaxComments, \* bound: events without data in one stream
    RedactedMark \* what replaces a finding inside JSON and plain text ("[REDACTED]")

Families == {"chat", "responses", "anthropic", "gemini", "mcp"}
Strings == [field : STRING, index : Nat, text : Seq(STRING)]
Defects == {"none", "metadata", "json", "schema", "event_name", "key", "numeric"}

ASSUME EventAssumption ==
    /\ MaxEvents \in Nat /\ MaxStrings \in Nat /\ MaxComments \in Nat
    /\ Events \subseteq
        [family : Families \cup {"comment", "done"}, type : STRING, index : Nat,
         finish : BOOLEAN, strings : Seq(Strings), defect : Defects]
    /\ \A e \in Events :
        /\ e.family \in {"comment", "done"} => e.strings = <<>>
        /\ e.type \in {"completed", "failed"} => e.family = "responses"
        /\ e.type = "message_stop" => e.family = "anthropic"

VARIABLES
    input,     \* the events read so far
    family,    \* the protocol family of the stream, "none" before the first payload
    terminal,  \* whether the closing event was read
    started,   \* anthropic_started
    open,      \* anthropic_open: content blocks started and not stopped
    seen,      \* anthropic_seen: content blocks ever started
    candidates,\* gemini_seen
    finished,  \* gemini_finished
    refs,      \* all strings with their lanes, in the order they were collected
    outcome,   \* "reading", "released" or the reason that was raised
    output     \* the strings as they are written back, aligned with refs

sse == <<input, family, terminal, started, open, seen, candidates, finished,
         refs, outcome, output>>
parser == <<family, terminal, started, open, seen, candidates, finished, refs>>

SseInit ==
    /\ input = <<>> /\ family = "none" /\ terminal = FALSE /\ started = FALSE
    /\ open = {} /\ seen = {} /\ candidates = {} /\ finished = {}
    /\ refs = <<>> /\ outcome = "reading" /\ output = <<>>

\* An InspectionError ends _redact_sse: its locals are gone, the reason remains.
RaiseSse(reason) ==
    /\ outcome' = reason
    /\ input' = <<>> /\ family' = "none" /\ terminal' = FALSE /\ started' = FALSE
    /\ open' = {} /\ seen' = {} /\ candidates' = {} /\ finished' = {}
    /\ refs' = <<>> /\ output' = <<>>

-----------------------------------------------------------------------------
(* Detection and masking.                                                   *)

Pairs(text, c, d) == {k \in 1..(Len(text) - 1) : text[k] = c /\ text[k + 1] = d}

\* A finding covers the characters start + 1 .. end.
Findings(text) == {[start |-> k - 1, end |-> k + 1] : k \in Pairs(text, "a", "b")}

Suspicious(text) == Pairs(text, "s", "t") # {}

Covered(k, findings) == \E f \in findings : f.start < k /\ k <= f.end

\* _mask: overlapping and touching spans are merged, each is replaced by one mark.
Mask(text, findings) ==
    FlattenSeq([k \in 1..Len(text) |->
        IF ~Covered(k, findings) THEN <<text[k]>>
        ELSE IF k > 1 /\ Covered(k - 1, findings) THEN <<>>
        ELSE RedactedMark])

\* The mark is nothing to detect, and does not complete it with what stands around.
ASSUME MarkAssumption ==
    /\ RedactedMark \in Seq(STRING) /\ RedactedMark # <<>>
    /\ Findings(RedactedMark) = {} /\ ~Suspicious(RedactedMark)
    /\ RedactedMark[Len(RedactedMark)] \notin {"a", "s"} /\ RedactedMark[1] \notin {"b", "t"}

\* strict_json on the joined fragments of an argument text.
WellFormed(text) == Len(text) >= 2 /\ text[1] = "{" /\ text[Len(text)] = "}"

-----------------------------------------------------------------------------
(* Lanes: strings of different events that a client joins are one text.     *)

Structural == {"id", "name", "role", "thinking", "signature"}

\* The strings that continue a text, by family, event type and field.
Joined ==
    {<<"chat", "chunk", field>> : field \in {"content", "refusal", "arguments", "name", "id"}} \cup
    {<<"responses", "text_delta", "delta">>, <<"responses", "refusal_delta", "delta">>,
     <<"responses", "arguments_delta", "delta">>, <<"responses", "part_added", "text">>,
     <<"responses", "part_added", "refusal">>, <<"responses", "item_added", "arguments">>,
     <<"anthropic", "block_start", "text">>, <<"anthropic", "block_start", "thinking">>,
     <<"anthropic", "block_delta", "text">>, <<"anthropic", "block_delta", "thinking">>,
     <<"anthropic", "block_delta", "partial_json">>, <<"anthropic", "block_delta", "signature">>,
     <<"gemini", "chunk", "text">>, <<"mcp", "result", "content">>}

\* The strings that a client takes as they come.
Alone ==
    {<<"chat", "chunk", "role">>, <<"responses", "item_added", "name">>,
     <<"responses", "text_done", "text">>, <<"responses", "arguments_done", "arguments">>,
     <<"anthropic", "block_start", "id">>, <<"anthropic", "block_start", "name">>,
     <<"gemini", "chunk", "name">>, <<"mcp", "result", "message">>}

Place(e, s) == <<e.family, e.type, s.field>>

\* Strings that the protocols do not have are treated as those of Alone.
ASSUME StringAssumption ==
    \A e \in Events : \A k \in 1..Len(e.strings) : Place(e, e.strings[k]) \in Joined \cup Alone

\* The text a joined string continues, as select_lane names it.
Channel(e, field) ==
    CASE e.type = "text_delta" \/ (e.type = "part_added" /\ field = "text") -> "output_text.delta"
      [] e.type = "refusal_delta" \/ (e.type = "part_added" /\ field = "refusal") -> "refusal.delta"
      [] e.type = "arguments_delta" \/ e.type = "item_added" -> "function_call_arguments.delta"
      [] OTHER -> field

\* select_lane: the lane of the k-th string of the event read as number i.
Lane(e, i, k) ==
    LET s == e.strings[k]
    IN IF Place(e, s) \notin Joined
       THEN <<"event", i, k, "alone">>
       ELSE CASE e.family = "chat"   -> <<"chat", s.index, 0, s.field>>
              [] e.family = "gemini" -> <<"gemini", e.index, s.index, "text">>
              [] e.family = "mcp"    -> <<"mcp", i, 0, "content_text">>
              [] OTHER               -> <<e.family, e.index, 0, Channel(e, s.field)>>

Kind(e, field) ==
    CASE field \in {"arguments", "partial_json"} \/ e.type = "arguments_delta" -> "json"
      [] field \in Structural -> "structural"
      [] OTHER -> "text"

\* collect: the strings of the event read as number i, with their lanes.
Collected(e, i) ==
    [k \in 1..Len(e.strings) |->
        [lane |-> Lane(e, i, k), kind |-> Kind(e, e.strings[k].field),
         event |-> i, at |-> k, text |-> e.strings[k].text]]

-----------------------------------------------------------------------------
(* Reading one event.                                                       *)

HasData(e) == e.family # "comment"
HasPayload(e) == e.family \in Families
HasCandidate(e) == e.family = "gemini" /\ e.type = "chunk" \* not only usageMetadata
Duplicate(e) ==
    /\ e.family = "chat"
    /\ \E j, k \in 1..Len(e.strings) :
        j # k /\ e.strings[j].index = e.strings[k].index /\ e.strings[j].field = e.strings[k].field

\* The life cycle of a stream of content blocks, as conditions with reasons.
AnthropicChecks(e) ==
    LET block == e.type \in {"block_start", "block_delta", "block_stop"}
    IN << <<e.type = "message_start" /\ started, "unexpected_sse_message_start">>,
          <<e.type \notin {"message_start", "ping"} /\ ~started, "incomplete_sse_stream">>,
          <<e.type = "block_start" /\ e.index \in seen, "unexpected_sse_content_block">>,
          <<block /\ e.type # "block_start" /\ e.index \notin open, "incomplete_sse_stream">>,
          <<e.type = "message_stop" /\ open # {}, "incomplete_sse_stream">> >>

\* The conditions under which an event is refused, in the order they are tested.
EventChecks(e) ==
    << <<e.defect = "metadata", "pii_in_sse_metadata">>,
       <<HasData(e) /\ terminal, "sse_data_after_terminal">>,
       <<e.family = "done" /\ family \notin {"none", "chat"}, "unexpected_sse_terminal">>,
       <<e.defect = "json", "invalid_json">>,
       <<\E k \in 1..Len(e.strings) : Suspicious(e.strings[k].text), "suspicious_instruction">>,
       <<e.defect = "schema", "unsupported_sse_schema">> >>
    \o (IF e.family = "anthropic" THEN AnthropicChecks(e) ELSE <<>>)
    \o << <<HasCandidate(e) /\ e.index \in finished /\ e.strings # <<>>, "sse_data_after_terminal">>,
          <<HasPayload(e) /\ family \notin {"none", e.family}, "mixed_sse_protocols">>,
          <<e.defect = "event_name", "sse_event_type_mismatch">>,
          <<e.defect = "key", "pii_in_structural_field">>,
          <<Duplicate(e), "duplicate_sse_index">>,
          <<e.defect = "numeric", "pii_in_numeric_field">> >>

\* The first reason whose condition holds, "none" if there is none.
FirstReason(checks) ==
    LET k == SelectInSeq(checks, LAMBDA c : c[1])
    IN IF k = 0 THEN "none" ELSE checks[k][2]

Reading == outcome = "reading"

\* The body does not end in an empty line, or is not UTF-8: refused before any event.
Malformed(reason) ==
    /\ Reading /\ input = <<>>
    /\ RaiseSse(reason)

Refuse(e) ==
    /\ Reading /\ Len(input) < MaxEvents
    /\ FirstReason(EventChecks(e)) # "none"
    /\ RaiseSse(FirstReason(EventChecks(e)))

\* Comments, and events of metadata only, carry no payload.
ReadComment(e) ==
    /\ Reading /\ Len(input) < MaxEvents /\ e.family = "comment"
    /\ Cardinality({i \in 1..Len(input) : ~HasData(input[i])}) < MaxComments
    /\ FirstReason(EventChecks(e)) = "none"
    /\ input' = Append(input, e)
    /\ UNCHANGED <<parser, outcome, output>>

ReadDone(e) ==
    /\ Reading /\ Len(input) < MaxEvents /\ e.family = "done"
    /\ FirstReason(EventChecks(e)) = "none"
    /\ input' = Append(input, e)
    /\ family' = "chat" /\ terminal' = TRUE
    /\ UNCHANGED <<started, open, seen, candidates, finished, refs, outcome, output>>

Terminals == {"completed", "failed", "message_stop"}

ReadPayload(e) ==
    /\ Reading /\ Len(input) < MaxEvents /\ HasPayload(e)
    /\ Len(refs) + Len(e.strings) <= MaxStrings
    /\ FirstReason(EventChecks(e)) = "none"
    /\ input' = Append(input, e)
    /\ family' = e.family
    /\ terminal' = (e.type \in Terminals)
    /\ started' = (started \/ e.type = "message_start")
    /\ open' = CASE e.type = "block_start" -> open \cup {e.index}
                 [] e.type = "block_stop"  -> open \ {e.index}
                 [] OTHER -> open
    /\ seen' = IF e.type = "block_start" THEN seen \cup {e.index} ELSE seen
    /\ candidates' = IF HasCandidate(e) THEN candidates \cup {e.index} ELSE candidates
    /\ finished' = IF HasCandidate(e) /\ e.finish THEN finished \cup {e.index} ELSE finished
    /\ refs' = refs \o Collected(e, Len(input'))
    /\ UNCHANGED <<outcome, output>>

-----------------------------------------------------------------------------
(* After the last event.                                                    *)

\* What the first n strings add to a lane, one after the other.
LaneText(l, n) == FlattenSeq([i \in 1..n |-> IF refs[i].lane = l THEN refs[i].text ELSE <<>>])
JoinedText(l) == LaneText(l, Len(refs))

\* Why a lane is refused under a PII policy.
LaneChecks(i, policy) ==
    LET text == JoinedText(refs[i].lane)
    IN << <<Suspicious(text), "suspicious_instruction">>,
          <<refs[i].kind = "json" /\ ~WellFormed(text), "invalid_json">>,
          <<Findings(text) # {} /\ policy = "block", "pii_block_policy">>,
          <<Findings(text) # {} /\ refs[i].kind = "structural", "pii_in_sse_structural_field">> >>

\* The lanes only, whether or not the stream is complete.
EndChecksOfLanes(policy) == FlattenSeq([i \in 1..Len(refs) |-> LaneChecks(i, policy)])

\* The stream has to be complete; then the lanes are checked in the order they appeared.
EndChecks(policy) ==
    << <<family \in {"chat", "responses", "anthropic"} /\ ~terminal, "incomplete_sse_stream">>,
       <<family = "gemini" /\ (candidates = {} \/ candidates # finished), "incomplete_sse_stream">> >>
    \o FlattenSeq([i \in 1..Len(refs) |-> LaneChecks(i, policy)])

\* How many characters of its lane come before the i-th string.
Offset(i) == Len(LaneText(refs[i].lane, i - 1))

LastOfLane(i) == \A j \in (i + 1)..Len(refs) : refs[j].lane # refs[i].lane

\* Stars computed per fragment: a finding that spans two fragments is missed.
StarredAlone(i) ==
    [k \in 1..Len(refs[i].text) |->
        IF Covered(k, Findings(refs[i].text)) THEN "*" ELSE refs[i].text[k]]

\* A text fragment: the characters inside a finding of the joined text become stars.
Starred(i) ==
    LET findings == Findings(JoinedText(refs[i].lane))
    IN [k \in 1..Len(refs[i].text) |->
            IF Covered(Offset(i) + k, findings) THEN "*" ELSE refs[i].text[k]]

Shorter(m, n) == IF m < n THEN m ELSE n

\* Every fragment as long as before: the rest of a longer replacement is lost.
SlicedEvenly(i) ==
    LET joined      == JoinedText(refs[i].lane)
        replacement == Mask(joined, Findings(joined))
    IN SubSeq(replacement, Offset(i) + 1, Shorter(Offset(i) + Len(refs[i].text), Len(replacement)))

\* A fragment of redacted JSON: as many characters as before, the last one takes the rest.
Sliced(i) ==
    LET joined      == JoinedText(refs[i].lane)
        replacement == Mask(joined, Findings(joined))
        end         == IF LastOfLane(i) THEN Len(replacement)
                       ELSE Shorter(Offset(i) + Len(refs[i].text), Len(replacement))
    IN IF Findings(joined) = {} THEN refs[i].text ELSE SubSeq(replacement, Offset(i) + 1, end)

Release(policy) ==
    /\ Reading
    /\ FirstReason(EndChecks(policy)) = "none"
    /\ outcome' = "released"
    /\ output' = [i \in 1..Len(refs) |-> IF refs[i].kind = "json" THEN Sliced(i) ELSE Starred(i)]
    /\ UNCHANGED <<input, parser>>

RefuseStream(policy) ==
    /\ Reading
    /\ FirstReason(EndChecks(policy)) # "none"
    /\ RaiseSse(FirstReason(EndChecks(policy)))

ReadSse(policy) ==
    \/ \E r \in {"incomplete_sse_event", "invalid_utf8"} : Malformed(r)
    \/ \E e \in Events : Refuse(e) \/ ReadComment(e) \/ ReadDone(e) \/ ReadPayload(e)
    \/ Release(policy)
    \/ RefuseStream(policy)

-----------------------------------------------------------------------------
(* What a client makes of the stream, and what has to hold of it.           *)

Released == outcome = "released"

\* The text of the client that the i-th string belongs to: a choice's content, name
\* or arguments, an item's or a content block's text from its opening event on, a
\* part of a candidate, the texts of one tool result.  Other strings stand alone.
ClientText(i) ==
    LET e == input[refs[i].event]
        s == e.strings[refs[i].at]
    IN IF Place(e, s) \in Alone THEN <<refs[i].event, refs[i].at, "alone">>
       ELSE CASE e.family = "chat"   -> <<s.index, 0, s.field>>
              [] e.family = "gemini" -> <<e.index, s.index, s.field>>
              [] e.family = "mcp"    -> <<refs[i].event, 0, s.field>>
              [] e.family = "responses" ->
                    <<e.index, 0, CASE e.type = "text_delta" \/ s.field = "text" -> "text"
                                    [] e.type = "refusal_delta" \/ s.field = "refusal" -> "refusal"
                                    [] OTHER -> "arguments">>
              [] OTHER -> <<e.index, 0, s.field>>

\* texts, one per string, joined as the client joins them.
Reassembled(texts, t) ==
    FlattenSeq([i \in 1..Len(refs) |-> IF ClientText(i) = t THEN texts[i] ELSE <<>>])

Received == [i \in 1..Len(refs) |-> refs[i].text]
ClientTexts == {ClientText(i) : i \in 1..Len(refs)}

\* Personal data or a secret in what upstream sent, as the client would have joined it.
Sensitive(texts) ==
    \E t \in ClientTexts :
        LET text == Reassembled(texts, t) IN Findings(text) # {} \/ Suspicious(text)

\* Nothing sensitive reaches the client: however a finding is cut up over events and
\* interleaved with other choices, items or blocks, a released stream does not hold
\* it once the client has joined the fragments (_redact_sse lanes and write-back).
NothingDetectedIsReleased == Released => ~Sensitive(output)

\* Redaction hides findings and nothing else: plain fragments keep their length and
\* every character outside a finding; argument fragments join to exactly the
\* redacted arguments, whether these became longer or shorter (_redact_sse).
OnlyFindingsAreHidden ==
    Released =>
        /\ \A i \in 1..Len(refs) : refs[i].kind # "json" => Len(output[i]) = Len(refs[i].text)
        /\ \A t \in ClientTexts :
            LET before == Reassembled(Received, t)
                after  == Reassembled(output, t)
            IN IF \E i \in 1..Len(refs) : ClientText(i) = t /\ refs[i].kind = "json"
               THEN after = Mask(before, Findings(before))
               ELSE \A k \in 1..Len(before) :
                        after[k] # before[k] => Covered(k, Findings(before))

At(P(_)) == {i \in 1..Len(input) : P(input[i])}

\* A released stream is whole: a chat, response or message ends in its closing event
\* with no data behind it, every content block is opened once, closed, and written only
\* in between, and every candidate is finished and silent afterwards (the terminal,
\* anthropic_open, anthropic_seen, gemini_seen and gemini_finished of _redact_sse).
ReleasedIsWhole ==
    Released =>
        LET data  == At(HasData)
            close == At(LAMBDA e : e.family = "done" \/ e.type \in Terminals)
        IN /\ family \in {"chat", "responses", "anthropic"} =>
                \E i \in close : \A j \in data : j <= i
           /\ \A i \in close, j \in data : j <= i
           /\ family = "anthropic" => \A i \in data :
                LET e == input[i] IN
                e.type \in {"block_start", "block_delta", "block_stop"} =>
                    \E j, k \in data :
                        /\ j <= i /\ i <= k
                        /\ input[j].type = "block_start" /\ input[j].index = e.index
                        /\ input[k].type = "block_stop" /\ input[k].index = e.index
                        /\ \A m \in data \ {j} :
                            ~(input[m].type = "block_start" /\ input[m].index = e.index)
           /\ LET chunks == At(HasCandidate) IN
              \A i \in chunks :
                /\ \E j \in chunks : input[j].index = input[i].index /\ input[j].finish
                /\ \A j \in chunks :
                    (j < i /\ input[j].finish /\ input[j].index = input[i].index) =>
                        input[i].strings = <<>>

=============================================================================
