---------------------------- MODULE InlineStream ----------------------------
(***************************************************************************)
(* One ext_proc stream per proxied request (inspection/server.py Process,   *)
(* console/dataplane.py StreamInspection and ConsoleProcessor): Envoy sends *)
(* the parts of a request and of its response, each part is inspected in a  *)
(* worker thread while the stream waits, and every final reply is preceded  *)
(* by the evidence record.  Envoy may cancel and the stream may time out at *)
(* any await; the inspection and evidence threads then go on without it.    *)
(*                                                                         *)
(* Envoy's order of messages is not relied on: any message may arrive at    *)
(* any time.  Content is abstracted to the verdict: "allow" stands for      *)
(* allow and redact, "block" for every other action.                        *)
(***************************************************************************)
EXTENDS Naturals, Sequences, FiniteSets

CONSTANTS
    Streams,
    StreamSlots,  \* streams processed at a time (Semaphore(16))
    WorkerSlots,  \* inspection threads (InspectionWorkers)
    MaxFaults     \* bound: failing evidence writes in one behaviour

ASSUME SlotAssumption ==
    /\ StreamSlots \in Nat \ {0} /\ WorkerSlots \in Nat \ {0}
    /\ MaxFaults \in Nat

VARIABLES
    st,        \* per stream: Process's locals, the StreamInspection and its threads
    free,      \* free worker slots
    faults,
    passed,    \* history: the inspections of an inline stream that found nothing to block
    forwarded, \* what Envoy did: requests it was told to send upstream
    final,     \* the first final reply Envoy got for the stream
    events,    \* evidence records on disk
    failed     \* history: streams for which appending evidence raised

vars == <<st, free, faults, passed, forwarded, final, events, failed>>
outside == <<faults, passed, forwarded, final, events, failed>>

Kinds == {"request_headers", "request_body", "response_headers", "response_body", "other"}
Jobs == {"request", "metadata", "response"}

Off == [pc |-> "off", mode |-> "inline", seen |-> {}, noBody |-> FALSE,
        job |-> "none", thread |-> "idle", result |-> "none",
        verdict |-> "none", response |-> "none", upstream |-> "not_confirmed",
        completed |-> FALSE, finished |-> FALSE, reply |-> "none",
        saving |-> 0, draft |-> "none"]

Init ==
    /\ st = [s \in Streams |-> Off]
    /\ free = WorkerSlots /\ faults = 0
    /\ passed = [s \in Streams |-> {}]
    /\ forwarded = {}
    /\ final = [s \in Streams |-> "none"]
    /\ events = [s \in Streams |-> <<>>]
    /\ failed = {}

Update(s, r) == st' = [st EXCEPT ![s] = r]

-----------------------------------------------------------------------------
(* How a stream goes on.                                                    *)

\* A final reply is ready; evidence comes first.
Terminal(r, reply) ==
    [r EXCEPT !.completed = TRUE, !.reply = reply, !.pc = "finish", !.saving = 1]

\* InspectionError in Process: recorded as the stream's verdict, answered at once.
Transport(r) == Terminal([r EXCEPT !.verdict = "block"], "immediate")

\* The caller has taken the result of its inspection.
Taken(r) == [r EXCEPT !.thread = "idle", !.job = "none", !.result = "none"]

\* Process ends, by return, abort or cancellation: the finally clause persists once
\* more.  A job that still waits for a worker is withdrawn with its caller; a
\* running one is shielded.
Ended(r) ==
    LET q == IF r.thread = "running" THEN r ELSE Taken(r)
    IN  [q EXCEPT !.pc = "closing", !.saving = @ + 1, !.reply = "none"]

-----------------------------------------------------------------------------
(* Messages.                                                                *)

\* The stream takes the policy of this moment and keeps it.  There is one: processes
\* listen only after their first snapshot, and never lose it (stream_snapshot raises
\* policy_snapshot_unavailable before that).
Open(s, mode) ==
    /\ st[s].pc = "off"
    /\ Update(s, [Off EXCEPT !.pc = "queued", !.mode = mode])
    /\ UNCHANGED <<free, outside>>

Inside(s) == st[s].pc \in {"open", "await", "finish"}

\* async with self.slots
Enter(s) ==
    /\ st[s].pc = "queued"
    /\ Cardinality({t \in Streams : Inside(t)}) < StreamSlots
    /\ Update(s, [st[s] EXCEPT !.pc = "open"])
    /\ UNCHANGED <<free, outside>>

ExpectedAnytime(r, kind) ==
    CASE kind = "request_headers"  -> "request_headers" \notin r.seen
      [] kind = "request_body"     -> "request_headers" \in r.seen /\ "request" \notin r.seen
      [] kind = "response_headers" -> "response_headers" \notin r.seen
      [] kind = "response_body"    -> "response_headers" \in r.seen /\ "response" \notin r.seen
      [] kind = "other"            -> FALSE

\* The checks for unexpected_protocol_sequence.
Expected(r, kind) ==
    CASE kind = "request_headers"  -> "request_headers" \notin r.seen
      [] kind = "request_body"     -> "request_headers" \in r.seen /\ "request" \notin r.seen
      [] kind = "response_headers" -> "request" \in r.seen /\ "response_headers" \notin r.seen
      [] kind = "response_body"    -> "response_headers" \in r.seen /\ "response" \notin r.seen
      [] kind = "other"            -> FALSE

\* What has to be inspected before the message is answered.
JobFor(kind, eos) ==
    CASE kind = "request_headers"  -> IF eos THEN "request" ELSE "none"
      [] kind = "request_body"     -> "request"
      [] kind = "response_headers" -> "metadata"
      [] kind = "response_body"    -> "response"

\* A message in order.  Headers without an inspection are answered at once.
Receive(s, kind, eos) ==
    /\ st[s].pc = "open" /\ Expected(st[s], kind)
    /\ LET job == JobFor(kind, eos)
           r == [st[s] EXCEPT
                   !.seen = IF kind \in {"request_headers", "response_headers"}
                            THEN @ \cup {kind} ELSE @,
                   !.noBody = IF kind = "response_headers" THEN eos ELSE @]
       IN  Update(s, IF job = "none" THEN r
                     ELSE [r EXCEPT !.pc = "await", !.job = job, !.thread = "queued"])
    /\ UNCHANGED <<free, outside>>

\* A message that Envoy sends for observation only (observability_mode, which is looked
\* at first), out of order, of an unknown kind, or with ambiguous headers.
Reject(s, kind, observed) ==
    /\ st[s].pc = "open"
    /\ observed \/ ~Expected(st[s], kind) \/ kind \in {"request_headers", "response_headers"}
    /\ Update(s, Transport(st[s]))
    /\ UNCHANGED <<free, outside>>

\* Envoy closes its side: a complete stream ends, an incomplete one is aborted.
HalfClose(s) ==
    /\ st[s].pc = "open"
    /\ Update(s, Ended(st[s]))
    /\ UNCHANGED <<free, outside>>

LeaveBetweenMessages(s) ==
    /\ st[s].pc \in {"queued", "open", "finish"}
    /\ Update(s, Ended(st[s]))
    /\ UNCHANGED <<free, outside>>

\* Envoy cancels the call, or the stream's timeout fires, at any await.
Leave(s) ==
    /\ st[s].pc = "queued" \/ Inside(s)
    /\ Update(s, Ended(st[s]))
    /\ UNCHANGED <<free, outside>>

-----------------------------------------------------------------------------
(* Inspection threads.                                                      *)

\* A worker slot is acquired and the thread runs.
StartJob(s) ==
    /\ st[s].thread = "queued" /\ free > 0
    /\ free' = free - 1
    /\ Update(s, [st[s] EXCEPT !.thread = "running",
                               !.upstream = IF st[s].job = "metadata" THEN "received" ELSE @])
    /\ UNCHANGED outside

\* What an inspection may find; headers are not looked at in mirror mode.
Results(r) ==
    IF r.job # "metadata" THEN {"allow", "block"}
    ELSE IF r.mode = "mirror" THEN {"allow"} ELSE {"allow", "block", "error"}

\* What the StreamInspection keeps of a result.
Stored(r, result) ==
    CASE r.job = "request"  ->
           [r EXCEPT !.verdict = result,
                     !.upstream = IF r.mode = "inline" /\ result = "block"
                                  THEN "not_forwarded" ELSE @]
      [] r.job = "metadata" -> r
      [] r.job = "response" -> [r EXCEPT !.response = result]

\* The thread ends, stores what it found and frees its slot, whether or not anybody
\* waits for it.
EndJob(s, result) ==
    /\ st[s].thread = "running" /\ result \in Results(st[s])
    /\ free' = free + 1
    /\ LET r == Stored(st[s], result) IN
       Update(s, IF r.pc = "await" THEN [r EXCEPT !.thread = "done", !.result = result] ELSE Taken(r))
    /\ passed' = IF result = "allow" /\ st[s].mode = "inline"
                 THEN [passed EXCEPT ![s] = @ \cup {st[s].job}] ELSE passed
    /\ UNCHANGED <<faults, forwarded, final, events, failed>>

\* What Process is told: mirror mode observes and lets everything pass.
Told(s) == IF st[s].mode = "mirror" THEN "allow" ELSE st[s].result

Waiting(s, job) == st[s].pc = "await" /\ st[s].thread = "done" /\ st[s].job = job

\* The request's verdict: final if it blocks, otherwise Envoy forwards the request.
ResumeRequest(s) ==
    /\ Waiting(s, "request")
    /\ LET r == [Taken(st[s]) EXCEPT !.seen = @ \cup {"request"}] IN
       IF Told(s) = "block"
       THEN Update(s, Terminal(r, "immediate")) /\ UNCHANGED forwarded
       ELSE Update(s, [r EXCEPT !.pc = "open"]) /\ forwarded' = forwarded \cup {s}
    /\ UNCHANGED <<free, faults, passed, final, events, failed>>

\* The response's headers: final if no body follows.
ResumeMetadata(s) ==
    /\ Waiting(s, "metadata")
    /\ LET r == Taken(st[s]) IN
       Update(s, CASE Told(s) = "error" -> Ended(r)
                   [] Told(s) = "block" -> Transport(r)
                   [] Told(s) = "allow" ->
                        IF r.noBody THEN Terminal([r EXCEPT !.seen = @ \cup {"response"}], "deliver")
                        ELSE [r EXCEPT !.pc = "open"])
    /\ UNCHANGED <<free, outside>>

\* The response's body: final in any case.
ResumeResponse(s) ==
    /\ Waiting(s, "response")
    /\ LET r == [Taken(st[s]) EXCEPT !.seen = @ \cup {"response"}] IN
       Update(s, Terminal(r, IF Told(s) = "block" THEN "immediate" ELSE "deliver"))
    /\ UNCHANGED <<free, outside>>

-----------------------------------------------------------------------------
(* Evidence.  finish() runs in threads of its own, one at a time.           *)

ActionAsInspected(r) ==
    IF r.response = "block" THEN "block"
    ELSE IF r.verdict = "none" THEN "unknown" ELSE r.verdict

\* persist: the response's objection counts before the request's verdict; without a
\* final reply nothing is recorded as allowed.
Action(r) ==
    LET verdict == IF r.response = "block" THEN "block"
                   ELSE IF r.verdict = "none" THEN "unknown" ELSE r.verdict
    IN  IF ~r.completed /\ verdict = "allow" THEN "unknown" ELSE verdict

SaveBeginAgain(s) ==
    /\ st[s].saving > 0 /\ st[s].draft = "none"
    /\ Update(s, [st[s] EXCEPT !.draft = Action(st[s])])
    /\ UNCHANGED <<free, outside>>

\* persist reads the verdicts; a late inspection thread may still write the rest.
SaveBegin(s) ==
    /\ st[s].saving > 0 /\ st[s].draft = "none" /\ ~st[s].finished
    /\ Update(s, [st[s] EXCEPT !.draft = Action(st[s])])
    /\ UNCHANGED <<free, outside>>

\* finish() finds the record written.
SaveSkip(s) ==
    /\ st[s].saving > 0 /\ st[s].draft = "none" /\ st[s].finished
    /\ Update(s, [st[s] EXCEPT !.saving = @ - 1])
    /\ UNCHANGED <<free, outside>>

Record(s) ==
    [action |-> st[s].draft, enforced |-> st[s].completed /\ st[s].mode = "inline",
     upstream |-> st[s].upstream]

SaveOk(s) ==
    /\ st[s].draft # "none"
    /\ events' = [events EXCEPT ![s] = Append(@, Record(s))]
    /\ Update(s, [st[s] EXCEPT !.finished = TRUE, !.saving = @ - 1, !.draft = "none"])
    /\ UNCHANGED <<free, faults, passed, forwarded, final, failed>>

\* Appending raises, before or after the line reached the disk.  Mirror mode goes on
\* without evidence; otherwise the reply is dropped and the call ends with an error,
\* after another attempt to persist.
SaveFail(s, written) ==
    /\ st[s].draft # "none" /\ faults < MaxFaults
    /\ faults' = faults + 1
    /\ failed' = failed \cup {s}
    /\ events' = IF written THEN [events EXCEPT ![s] = Append(@, Record(s))] ELSE events
    /\ LET r == [st[s] EXCEPT !.saving = @ - 1, !.draft = "none"] IN
       Update(s, IF r.mode = "mirror" THEN [r EXCEPT !.finished = TRUE]
                 ELSE IF r.pc = "finish" THEN Ended(r)
                 ELSE r)
    /\ UNCHANGED <<free, passed, forwarded, final>>

ReplyFirst(s) ==
    /\ st[s].pc = "finish"
    /\ final' = IF final[s] = "none" THEN [final EXCEPT ![s] = st[s].reply] ELSE final
    /\ Update(s, IF st[s].reply = "immediate" THEN Ended(st[s])
                 ELSE [st[s] EXCEPT !.pc = "open", !.reply = "none"])
    /\ UNCHANGED <<free, faults, passed, forwarded, events, failed>>

\* Evidence is stored, so the final reply goes out; an immediate one ends Process.
Reply(s) ==
    /\ st[s].pc = "finish" /\ st[s].saving = 0
    /\ final' = IF final[s] = "none" THEN [final EXCEPT ![s] = st[s].reply] ELSE final
    /\ Update(s, IF st[s].reply = "immediate" THEN Ended(st[s])
                 ELSE [st[s] EXCEPT !.pc = "open", !.reply = "none"])
    /\ UNCHANGED <<free, faults, passed, forwarded, events, failed>>

Close(s) ==
    /\ st[s].pc = "closing" /\ st[s].saving = 0
    /\ Update(s, [st[s] EXCEPT !.pc = "closed"])
    /\ UNCHANGED <<free, outside>>

-----------------------------------------------------------------------------
Save(s) == SaveBegin(s) \/ SaveSkip(s) \/ SaveOk(s)
Work(s) == \E result \in {"allow", "block", "error"} : EndJob(s, result)
Resume(s) == ResumeRequest(s) \/ ResumeMetadata(s) \/ ResumeResponse(s)

Step(s) ==
    \/ \E mode \in {"inline", "mirror"} : Open(s, mode)
    \/ Enter(s) \/ HalfClose(s) \/ Leave(s)
    \/ \E kind \in Kinds, eos \in BOOLEAN : Receive(s, kind, eos)
    \/ \E kind \in Kinds, observed \in BOOLEAN : Reject(s, kind, observed)
    \/ StartJob(s) \/ Work(s) \/ Resume(s)
    \/ Save(s) \/ \E written \in BOOLEAN : SaveFail(s, written)
    \/ Reply(s) \/ Close(s)

Next == \E s \in Streams : Step(s)

Spec == Init /\ [][Next]_vars

\* Every stream is under a timeout, evidence threads end, replies are sent.  Nothing
\* is assumed of inspection threads: one may hang for ever.
FairSpec ==
    Spec /\ \A s \in Streams : WF_vars(Leave(s)) /\ WF_vars(Save(s)) /\ WF_vars(Reply(s) \/ Close(s))

-----------------------------------------------------------------------------
(* Properties.                                                              *)

Running == {s \in Streams : st[s].thread = "running"}

\* Every variable holds a value of its kind, and a worker slot is taken exactly by
\* each thread that still runs, also when nobody waits for it any more ("Timeout
\* does not release a worker slot", InspectionWorkers).
TypeOK ==
    /\ \A s \in Streams :
         /\ st[s].pc \in {"off", "queued", "open", "await", "finish", "closing", "closed"}
         /\ st[s].thread \in {"idle", "queued", "running", "done"}
         /\ st[s].saving \in 0 .. 2
         /\ passed[s] \subseteq Jobs
         /\ final[s] \in {"none", "deliver", "immediate"}
    /\ free = WorkerSlots - Cardinality(Running)
    /\ forwarded \subseteq Streams /\ failed \subseteq Streams

Inline(s) == st[s].mode = "inline"

\* In inline mode nothing passes uninspected, whatever order the messages come in: a
\* request goes upstream only after its inspection, an answer goes to the client
\* only after the inspections of its request, its headers and its body, if any.
InspectedBeforeRelease ==
    \A s \in Streams : Inline(s) =>
      /\ s \in forwarded => "request" \in passed[s]
      /\ final[s] = "deliver" =>
           /\ {"request", "metadata"} \subseteq passed[s]
           /\ "response" \in passed[s] \/ st[s].noBody

\* Evidence first: once Envoy has a final reply, a record on disk says the same, in
\* spite of failing writes ("commit evidence first", ConsoleProcessor.Process).
RepliesAreRecorded ==
    \A s \in Streams : (Inline(s) /\ final[s] # "none") =>
      \E i \in DOMAIN events[s] :
        /\ events[s][i].action = IF final[s] = "deliver" THEN "allow" ELSE "block"
        /\ events[s][i].enforced

\* A record never claims more than what happened, also when inspection threads write
\* their results while it is put together: "allow" only if every inspection passed,
\* "not_forwarded" only if the request never goes upstream, "received" only if the
\* destination answered.
NeverOverclaims ==
    \A s \in Streams : \A i \in DOMAIN events[s] :
      LET e == events[s][i] IN
      /\ (Inline(s) /\ e.action = "allow") =>
           /\ {"request", "metadata"} \subseteq passed[s]
           /\ "response" \in passed[s] \/ st[s].noBody
      /\ e.upstream = "not_forwarded" => s \notin forwarded
      /\ e.upstream = "received" => "response_headers" \in st[s].seen

\* Every stream leaves one record, no matter how its final reply races with its
\* cancellation ("Persist exactly once", StreamInspection.finish); streams for which
\* the spool raised are excepted, because the first attempt may have reached the
\* disk and the second is not suppressed.
RecordedOnce ==
    \A s \in Streams \ failed :
      Len(events[s]) <= 1 /\ (st[s].pc = "closed" => Len(events[s]) = 1)

\* Every stream ends, although an inspection thread may hang, keep its worker slot
\* and make the others queue behind it.
EveryStreamEnds == \A s \in Streams : st[s].pc # "off" ~> st[s].pc = "closed"
=============================================================================
