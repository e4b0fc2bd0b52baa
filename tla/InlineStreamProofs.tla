-------------------------- MODULE InlineStreamProofs --------------------------
(***************************************************************************)
(* Nothing passes uninspected, evidence comes before every final reply and  *)
(* never claims too much, each stream is recorded once, and a worker slot is *)
(* taken by each thread that runs: for every number of streams, slots and   *)
(* failing writes, and whatever order messages, threads, cancellations and  *)
(* evidence writes come in.                                                 *)
(*                                                                         *)
(* A stream is touched by its own steps only, so the invariant is one about *)
(* a single stream, and the only thing streams share are worker slots.      *)
(***************************************************************************)
EXTENDS InlineStream, FiniteSetTheorems, SequenceTheorems, TLAPS

\* The fields' values are named: where a proof copies a record, no prover needs to
\* look into them.
Pcs == {"off", "queued", "open", "await", "finish", "closing", "closed"}
Modes == {"inline", "mirror"}
Seen == SUBSET {"request_headers", "request", "response_headers", "response"}
JobOrNone == Jobs \cup {"none"}
Threads == {"idle", "queued", "running", "done"}
Found == {"none", "allow", "block", "error"}
Judged == {"none", "allow", "block"}
Upstreams == {"not_confirmed", "not_forwarded", "received"}
Replies == {"none", "immediate", "deliver"}
Attempts == 0 .. 2
Drafts == {"none", "allow", "block", "unknown"}

StreamState ==
    [pc : Pcs, mode : Modes, seen : Seen, noBody : BOOLEAN, job : JobOrNone, thread : Threads,
     result : Found, verdict : Judged, response : Judged, upstream : Upstreams,
     completed : BOOLEAN, finished : BOOLEAN, reply : Replies, saving : Attempts,
     draft : Drafts]

Records ==
    [action : Drafts \ {"none"}, enforced : BOOLEAN, upstream : Upstreams]

Typed ==
    /\ st \in [Streams -> StreamState]
    /\ passed \in [Streams -> SUBSET Jobs]
    /\ final \in [Streams -> Replies]
    /\ events \in [Streams -> Seq(Records)]
    /\ forwarded \subseteq Streams /\ failed \subseteq Streams

\* A stream whose parts were not looked at yet has left no trace.
Fresh(s) ==
    st[s].pc \in {"off", "queued"} =>
      /\ st[s].seen = {} /\ st[s].job = "none" /\ st[s].thread = "idle" /\ st[s].result = "none"
      /\ st[s].verdict = "none" /\ st[s].response = "none" /\ st[s].upstream = "not_confirmed"
      /\ ~st[s].completed /\ ~st[s].finished /\ st[s].saving = 0 /\ st[s].draft = "none"
      /\ passed[s] = {} /\ final[s] = "none" /\ events[s] = <<>>
      /\ s \notin forwarded /\ s \notin failed

\* Which messages have come, and what follows from that.
Ordered(s) ==
    /\ "request" \in st[s].seen => "request_headers" \in st[s].seen
    /\ "response_headers" \in st[s].seen => "request" \in st[s].seen
    /\ "response" \in st[s].seen => "response_headers" \in st[s].seen
    /\ s \in forwarded => "request" \in st[s].seen
    /\ st[s].upstream = "received" => "response_headers" \in st[s].seen
    /\ st[s].job = "request" => "request_headers" \in st[s].seen /\ "request" \notin st[s].seen
    /\ st[s].job \in {"metadata", "response"} =>
         "response_headers" \in st[s].seen /\ "response" \notin st[s].seen

\* A thread runs for a stream that waits for it or has left; evidence is saved for a
\* stream that has a final reply or has left.
Phases(s) ==
    /\ st[s].thread = "idle" <=> st[s].job = "none"
    /\ st[s].thread = "idle" => st[s].result = "none"
    /\ st[s].pc = "await" => st[s].thread # "idle"
    /\ st[s].thread \in {"queued", "done"} => st[s].pc = "await"
    /\ st[s].thread = "running" => st[s].pc \in {"await", "closing", "closed"}
    /\ st[s].thread = "done" => st[s].result \in Results(st[s])
    /\ st[s].saving > 0 => st[s].pc \in {"finish", "closing"}
    /\ st[s].pc = "finish" => st[s].saving <= 1 /\ st[s].completed /\ st[s].reply # "none"
    /\ st[s].draft # "none" => st[s].saving > 0 /\ ~st[s].finished
    /\ st[s].completed => st[s].pc \in {"open", "finish", "closing", "closed"} /\ st[s].thread = "idle"
    /\ (st[s].completed /\ st[s].pc = "open") => final[s] # "none" /\ "response" \in st[s].seen
    /\ (st[s].pc = "finish" /\ st[s].reply = "deliver") => "response" \in st[s].seen
    /\ final[s] # "none" => st[s].completed

\* Everything an answer needs was inspected and passed.
AllPassed(s) ==
    /\ {"request", "metadata"} \subseteq passed[s]
    /\ "response" \in passed[s] \/ st[s].noBody
    /\ "response_headers" \in st[s].seen

\* What has been seen and did not end the stream has passed.
Passing(s) ==
    Inline(s) =>
      /\ (st[s].thread = "done" /\ st[s].result = "allow") => st[s].job \in passed[s]
      /\ ("request" \in st[s].seen /\ st[s].pc \in {"open", "await"}) => "request" \in passed[s]
      /\ ("response_headers" \in st[s].seen /\
            (st[s].pc = "open" \/ (st[s].pc = "await" /\ st[s].job # "metadata"))) =>
               "metadata" \in passed[s]
      /\ (st[s].pc = "finish" /\ st[s].reply = "deliver") => AllPassed(s)
      /\ final[s] = "deliver" => AllPassed(s)
      /\ s \in forwarded => "request" \in passed[s]
      /\ st[s].completed => AllPassed(s) \/ st[s].verdict = "block" \/ st[s].response = "block"

\* What a stream without a final reply keeps of its inspections.
Verdicts(s) ==
    /\ (st[s].thread = "done" /\ st[s].job = "request") => st[s].verdict = st[s].result
    /\ (st[s].thread = "done" /\ st[s].job = "response") => st[s].response = st[s].result
    /\ (final[s] = "none" /\ st[s].pc \in {"open", "await"} /\
          ~(st[s].job = "response" /\ st[s].thread = "done")) => st[s].response = "none"
    /\ (Inline(s) /\ final[s] = "none" /\ "request" \in st[s].seen /\ st[s].pc \in {"open", "await"}) =>
          st[s].verdict = "allow"

\* The action a record must have to say the same as the reply.
Matching(reply) == IF reply = "deliver" THEN "allow" ELSE "block"
OnDisk(s, reply) ==
    \E i \in DOMAIN events[s] : events[s][i].action = Matching(reply) /\ events[s][i].enforced

\* Evidence first.
Recorded(s) ==
    Inline(s) =>
      /\ final[s] # "none" => OnDisk(s, final[s])
      /\ (st[s].pc = "finish" /\ final[s] = "none") =>
           /\ Action(st[s]) = Matching(st[s].reply)
           /\ st[s].draft # "none" => st[s].draft = Action(st[s])
           /\ st[s].saving = 0 => st[s].finished
           /\ st[s].finished => OnDisk(s, st[s].reply)
      /\ st[s].finished => final[s] # "none" \/ st[s].pc \in {"finish", "closing", "closed"}

\* Records, and what is about to become one, claim no more than what happened.
Claims(s) ==
    /\ (Inline(s) /\ st[s].draft = "allow") => AllPassed(s)
    /\ st[s].upstream = "not_forwarded" =>
         /\ s \notin forwarded /\ Inline(s)
         /\ \/ st[s].pc \in {"closing", "closed"}
            \/ st[s].pc = "finish" /\ st[s].reply = "immediate"
            \/ st[s].pc = "await" /\ st[s].job = "request" /\ st[s].thread = "done"
                                  /\ st[s].result = "block"
    /\ \A i \in DOMAIN events[s] :
         /\ (Inline(s) /\ events[s][i].action = "allow") => AllPassed(s)
         /\ events[s][i].upstream = "not_forwarded" => st[s].upstream = "not_forwarded"
         /\ events[s][i].upstream = "received" => "response_headers" \in st[s].seen

\* One record, once the stream is finished.
Once(s) ==
    /\ s \notin failed => Len(events[s]) = IF st[s].finished THEN 1 ELSE 0
    /\ (st[s].pc = "closed" \/ (st[s].pc = "closing" /\ st[s].saving = 0)) =>
         st[s].finished \/ s \in failed

StreamInv(s) ==
    Fresh(s) /\ Ordered(s) /\ Phases(s) /\ Passing(s) /\ Verdicts(s) /\ Recorded(s)
             /\ Claims(s) /\ Once(s)

\* Every worker slot is free or taken by a running thread.
SlotsTaken ==
    /\ IsFiniteSet(Running) /\ free \in Nat
    /\ free + Cardinality(Running) = WorkerSlots

IInv == Typed /\ SlotsTaken /\ \A s \in Streams : StreamInv(s)

-----------------------------------------------------------------------------
(* One stream's record.                                                     *)

\* What an update leaves alone.
SameMessages(q, r) == q.mode = r.mode /\ q.seen = r.seen /\ q.noBody = r.noBody
SameJob(q, r) == q.job = r.job /\ q.thread = r.thread /\ q.result = r.result
SameVerdicts(q, r) == q.verdict = r.verdict /\ q.response = r.response /\ q.upstream = r.upstream
SameReply(q, r) == q.pc = r.pc /\ q.reply = r.reply /\ q.completed = r.completed
SameEvidence(q, r) == q.saving = r.saving /\ q.draft = r.draft /\ q.finished = r.finished

\* What is left of a job when its stream goes on, or ends.
Idle(q) == q.job = "none" /\ q.thread = "idle" /\ q.result = "none"

\* A final reply is ready.
Concluded(q, reply) == q.pc = "finish" /\ q.completed /\ q.reply = reply /\ q.saving = 1

\* The stream's inspection occupies a worker.
ThreadRuns(s) == st[s].thread = "running"

\* A stream keeps its invariant if no step touches it.
LEMMA Untouched ==
    ASSUME NEW t, StreamInv(t),
           st'[t] = st[t], passed'[t] = passed[t], final'[t] = final[t], events'[t] = events[t],
           (t \in forwarded') <=> (t \in forwarded), (t \in failed') <=> (t \in failed)
    PROVE  StreamInv(t)'
  BY DEF StreamInv, Fresh, Ordered, Phases, Passing, Verdicts, Recorded, Claims, Once,
         Off, Results, AllPassed, Inline, OnDisk, Matching, Action

\* Whenever a stream ends, its job is withdrawn unless a thread runs it.
LEMMA Ending ==
    ASSUME NEW r \in StreamState, r.saving + 1 \in Attempts
    PROVE  /\ Ended(r) \in StreamState
           /\ SameMessages(Ended(r), r) /\ SameVerdicts(Ended(r), r)
           /\ Ended(r).pc = "closing" /\ Ended(r).reply = "none"
           /\ Ended(r).completed = r.completed
           /\ Ended(r).saving = r.saving + 1
           /\ Ended(r).draft = r.draft /\ Ended(r).finished = r.finished
           /\ IF r.thread = "running" THEN SameJob(Ended(r), r) ELSE Idle(Ended(r))
<1>1. /\ "closing" \in Pcs /\ "none" \in Replies /\ "idle" \in Threads
      /\ "none" \in JobOrNone /\ "none" \in Found
  BY DEF Pcs, Replies, Threads, JobOrNone, Found
<1>2. Ended(r) \in StreamState
  BY <1>1 DEF StreamState, Ended, Taken
<1> QED
  BY <1>2 DEF StreamState, Ended, Taken, SameMessages, SameJob, SameVerdicts, Idle

\* A stream takes the result of its inspection.
LEMMA Taking ==
    ASSUME NEW r \in StreamState
    PROVE  /\ Taken(r) \in StreamState
           /\ SameMessages(Taken(r), r) /\ SameVerdicts(Taken(r), r)
           /\ SameReply(Taken(r), r) /\ SameEvidence(Taken(r), r) /\ Idle(Taken(r))
<1>1. "idle" \in Threads /\ "none" \in JobOrNone /\ "none" \in Found
  BY DEF Threads, JobOrNone, Found
<1> QED
  BY <1>1 DEF StreamState, Taken, SameMessages, SameVerdicts, SameReply, SameEvidence, Idle

\* One more record.
Grown(f, e, rec) ==
    /\ Len(e) \in Nat /\ Len(f) = Len(e) + 1
    /\ DOMAIN f = DOMAIN e \cup {Len(e) + 1}
    /\ \A i \in DOMAIN e : f[i] = e[i]
    /\ f[Len(e) + 1] = rec

LEMMA Growing ==
    ASSUME NEW e \in Seq(Records), NEW rec \in Records
    PROVE  Grown(Append(e, rec), e, rec)
  BY DEF Grown

\* A final reply is put in place.
LEMMA Concluding ==
    ASSUME NEW r \in StreamState, NEW reply \in Replies
    PROVE  /\ Terminal(r, reply) \in StreamState
           /\ SameMessages(Terminal(r, reply), r) /\ SameJob(Terminal(r, reply), r)
           /\ SameVerdicts(Terminal(r, reply), r) /\ Concluded(Terminal(r, reply), reply)
           /\ Terminal(r, reply).draft = r.draft /\ Terminal(r, reply).finished = r.finished
<1>1. "finish" \in Pcs /\ 1 \in Attempts
  BY DEF Pcs, Attempts
<1> QED
  BY <1>1 DEF StreamState, Terminal, SameMessages, SameJob, SameVerdicts, Concluded

LEMMA Seeing ==
    ASSUME NEW r \in StreamState, NEW part \in {"request", "response"},
           NEW q, q = [r EXCEPT !.seen = @ \cup {part}]
    PROVE  /\ q \in StreamState /\ q.seen = r.seen \cup {part}
           /\ q.mode = r.mode /\ q.noBody = r.noBody
           /\ SameJob(q, r) /\ SameVerdicts(q, r) /\ SameReply(q, r) /\ SameEvidence(q, r)
<1>1. r.seen \cup {part} \in Seen
  BY DEF StreamState, Seen
<1> QED
  BY <1>1 DEF StreamState, SameJob, SameVerdicts, SameReply, SameEvidence

LEMMA Opening ==
    ASSUME NEW r \in StreamState, NEW q, q = [r EXCEPT !.pc = "open"]
    PROVE  /\ q \in StreamState /\ q.pc = "open" /\ q.reply = r.reply /\ q.completed = r.completed
           /\ SameMessages(q, r) /\ SameJob(q, r) /\ SameVerdicts(q, r) /\ SameEvidence(q, r)
<1>1. "open" \in Pcs
  BY DEF Pcs
<1> QED
  BY <1>1 DEF StreamState, SameMessages, SameJob, SameVerdicts, SameEvidence

\* A stream that has not ended can still persist once more.
LEMMA Room ==
    ASSUME NEW s, st[s] \in StreamState, Phases(s), st[s].pc # "closing"
    PROVE  st[s].saving + 1 \in Attempts
  BY DEF Phases, StreamState, Attempts

\* InspectionError in Process.
LEMMA Transporting ==
    ASSUME NEW r \in StreamState
    PROVE  /\ Transport(r) \in StreamState
           /\ SameMessages(Transport(r), r) /\ SameJob(Transport(r), r)
           /\ Transport(r).verdict = "block" /\ Transport(r).response = r.response
           /\ Transport(r).upstream = r.upstream /\ Concluded(Transport(r), "immediate")
           /\ Transport(r).draft = r.draft /\ Transport(r).finished = r.finished
<1>1. "finish" \in Pcs /\ 1 \in Attempts /\ "immediate" \in Replies /\ "block" \in Judged
  BY DEF Pcs, Attempts, Replies, Judged
<1> QED
  BY <1>1 DEF StreamState, Transport, Terminal, SameMessages, SameJob, Concluded

\* A record that is put together is still being saved.
LEMMA Saving ==
    ASSUME NEW s, st[s] \in StreamState, Phases(s), st[s].draft # "none"
    PROVE  st[s].saving - 1 \in Attempts
  BY DEF Phases, StreamState, Attempts

LEMMA RecordTyped ==
    ASSUME NEW s, st[s] \in StreamState, st[s].draft # "none"
    PROVE  Record(s) \in Records
  BY DEF StreamState, Record, Records

\* What a new record leaves on disk, and what it claims.
LEMMA OnDiskGrows ==
    ASSUME NEW s, NEW reply, NEW rec, Grown(events'[s], events[s], rec), OnDisk(s, reply)
    PROVE  \E i \in DOMAIN events'[s] :
             events'[s][i].action = Matching(reply) /\ events'[s][i].enforced
  BY DEF OnDisk, Grown

LEMMA RecordOnDisk ==
    ASSUME NEW s, NEW reply, Grown(events'[s], events[s], Record(s)),
           st[s].draft = Matching(reply), st[s].completed, Inline(s)
    PROVE  \E i \in DOMAIN events'[s] :
             events'[s][i].action = Matching(reply) /\ events'[s][i].enforced
<1>1. Len(events[s]) + 1 \in DOMAIN events'[s] /\ events'[s][Len(events[s]) + 1] = Record(s)
  BY DEF Grown
<1>2. Record(s).action = Matching(reply) /\ Record(s).enforced
  BY DEF Record, Inline
<1> QED
  BY <1>1, <1>2

LEMMA RecordClaims ==
    ASSUME NEW s, Ordered(s), Claims(s), Grown(events'[s], events[s], Record(s)),
           NEW i \in DOMAIN events'[s]
    PROVE  /\ Inline(s) /\ events'[s][i].action = "allow" => AllPassed(s)
           /\ events'[s][i].upstream = "not_forwarded" => st[s].upstream = "not_forwarded"
           /\ events'[s][i].upstream = "received" => "response_headers" \in st[s].seen
<1>1. CASE i \in DOMAIN events[s]
  BY <1>1 DEF Grown, Claims
<1>2. CASE i = Len(events[s]) + 1
  <2>1. events'[s][i] = Record(s)
    BY <1>2 DEF Grown
  <2> QED
    BY <2>1 DEF Record, Claims, Ordered
<1> QED
  BY <1>1, <1>2 DEF Grown

LEMMA SameAction ==
    ASSUME NEW q, NEW r, SameVerdicts(q, r), q.completed = r.completed
    PROVE  Action(q) = Action(r)
  BY DEF SameVerdicts, Action


-----------------------------------------------------------------------------
(* Each step of a stream keeps its invariant.  A step first says what it does *)
(* to the stream's record, field by field; the parts of the invariant follow. *)

\* Envoy opens the call.
LEMMA OpenKeeps ==
    ASSUME Typed, NEW s \in Streams, StreamInv(s), NEW mode \in Modes, Open(s, mode)
    PROVE  st'[s] \in StreamState /\ StreamInv(s)' /\ (ThreadRuns(s)' <=> ThreadRuns(s))
<1>1. /\ st[s].pc = "off" /\ st'[s] = [Off EXCEPT !.pc = "queued", !.mode = mode]
      /\ UNCHANGED outside
  BY DEF Open, Update, Typed
<1>2. /\ st'[s] \in StreamState /\ st'[s].pc = "queued" /\ st'[s].seen = {}
      /\ Idle(st'[s]) /\ st'[s].verdict = "none" /\ st'[s].response = "none"
      /\ st'[s].upstream = "not_confirmed" /\ ~st'[s].completed /\ ~st'[s].finished
      /\ st'[s].reply = "none" /\ st'[s].saving = 0 /\ st'[s].draft = "none"
  <2>1. /\ "queued" \in Pcs /\ {} \in Seen /\ "none" \in JobOrNone /\ "idle" \in Threads
        /\ "none" \in Found /\ "none" \in Judged /\ "not_confirmed" \in Upstreams
        /\ "none" \in Replies /\ 0 \in Attempts /\ "none" \in Drafts
    BY DEF Pcs, Seen, JobOrNone, Threads, Found, Judged, Upstreams, Replies, Attempts, Drafts
  <2>2. st'[s] \in StreamState
    BY <1>1, <2>1 DEF StreamState, Off
  <2> QED
    BY <1>1, <2>2 DEF Off, Idle
<1> USE <1>1, <1>2
        DEF outside, SameMessages, SameJob, SameVerdicts, SameReply, SameEvidence, Idle
<1>3. Fresh(s)'
  BY DEF StreamInv, Fresh
<1>4. Ordered(s)'
  BY DEF StreamInv, Ordered, Fresh
<1>5. Phases(s)'
  BY DEF StreamInv, Phases
<1>6. Passing(s)'
  BY DEF StreamInv, Passing, Fresh
<1>7. Verdicts(s)'
  BY DEF Verdicts
<1>8. Recorded(s)'
  BY DEF StreamInv, Recorded, Phases
<1>9. Claims(s)'
  BY DEF StreamInv, Claims, Fresh
<1>10. Once(s)'
  BY DEF StreamInv, Once, Fresh
<1>11. ThreadRuns(s)' <=> ThreadRuns(s)
  BY DEF StreamInv, Fresh, Phases, ThreadRuns
<1> HIDE <1>1, <1>2
<1> QED
  BY <1>2, <1>3, <1>4, <1>5, <1>6, <1>7, <1>8, <1>9, <1>10, <1>11 DEF StreamInv

\* A stream slot is taken.
LEMMA EnterKeeps ==
    ASSUME Typed, NEW s \in Streams, StreamInv(s), Enter(s)
    PROVE  st'[s] \in StreamState /\ StreamInv(s)' /\ (ThreadRuns(s)' <=> ThreadRuns(s))
<1>1. /\ st[s].pc = "queued" /\ st'[s] = [st[s] EXCEPT !.pc = "open"]
      /\ st[s] \in StreamState
      /\ UNCHANGED outside
  BY DEF Enter, Update, Typed
<1>2. /\ st'[s] \in StreamState /\ st'[s].pc = "open" /\ st'[s].completed = st[s].completed
      /\ SameMessages(st'[s], st[s]) /\ SameJob(st'[s], st[s]) /\ SameVerdicts(st'[s], st[s])
      /\ SameEvidence(st'[s], st[s])
  BY <1>1, Opening
<1> USE <1>1, <1>2
        DEF outside, SameMessages, SameJob, SameVerdicts, SameReply, SameEvidence
<1>3. Fresh(s)'
  BY DEF Fresh
<1>4. Ordered(s)'
  BY DEF StreamInv, Ordered
<1>5. Phases(s)'
  BY DEF StreamInv, Phases
<1>6. Passing(s)'
  BY DEF StreamInv, Passing, Fresh
<1>7. Verdicts(s)'
  BY DEF StreamInv, Verdicts, Fresh
<1>8. Recorded(s)'
  BY DEF StreamInv, Recorded, Phases, Inline
<1>9. Claims(s)'
  BY DEF StreamInv, Claims, Inline, AllPassed
<1>10. Once(s)'
  BY DEF StreamInv, Once
<1>11. ThreadRuns(s)' <=> ThreadRuns(s)
  BY DEF StreamInv, Fresh, Phases, ThreadRuns
<1> HIDE <1>1, <1>2
<1> QED
  BY <1>2, <1>3, <1>4, <1>5, <1>6, <1>7, <1>8, <1>9, <1>10, <1>11 DEF StreamInv

\* Envoy half-closes or cancels, or the stream times out: whatever thread runs goes on.
LEMMA LeaveKeeps ==
    ASSUME Typed, NEW s \in Streams, StreamInv(s), Leave(s) \/ HalfClose(s)
    PROVE  st'[s] \in StreamState /\ StreamInv(s)' /\ (ThreadRuns(s)' <=> ThreadRuns(s))
<1>1. /\ st[s].pc \in {"queued", "open", "await", "finish"} /\ st'[s] = Ended(st[s])
      /\ st[s] \in StreamState
      /\ UNCHANGED outside
  BY DEF Leave, HalfClose, Inside, Update, Typed
<1>2. /\ st'[s] \in StreamState /\ SameMessages(st'[s], st[s]) /\ SameVerdicts(st'[s], st[s])
      /\ st'[s].pc = "closing" /\ st'[s].reply = "none" /\ st'[s].completed = st[s].completed
      /\ st'[s].saving = st[s].saving + 1
      /\ st'[s].draft = st[s].draft /\ st'[s].finished = st[s].finished
      /\ IF st[s].thread = "running" THEN SameJob(st'[s], st[s]) ELSE Idle(st'[s])
  <2>1. st[s].saving + 1 \in Attempts
    BY <1>1, Room DEF StreamInv
  <2> QED
    BY <1>1, <2>1, Ending
<1> USE <1>1, <1>2
        DEF outside, SameMessages, SameJob, SameVerdicts, SameReply, SameEvidence, Idle
<1>3. Fresh(s)'
  BY DEF Fresh
<1>4. Ordered(s)'
  BY DEF StreamInv, Ordered
<1>5. Phases(s)'
  BY DEF StreamInv, Phases, StreamState, Attempts
<1>6. Passing(s)'
  BY DEF StreamInv, Passing, Inline, AllPassed
<1>7. Verdicts(s)'
  BY DEF Verdicts
<1>8. Recorded(s)'
  BY DEF StreamInv, Recorded, Inline, OnDisk
<1>9. Claims(s)'
  BY DEF StreamInv, Claims, Inline, AllPassed
<1>10. Once(s)'
  BY DEF StreamInv, Once, StreamState, Attempts
<1>11. ThreadRuns(s)' <=> ThreadRuns(s)
  BY DEF StreamInv, Fresh, Phases, ThreadRuns
<1> HIDE <1>1, <1>2
<1> QED
  BY <1>2, <1>3, <1>4, <1>5, <1>6, <1>7, <1>8, <1>9, <1>10, <1>11 DEF StreamInv

\* A message in order asks for an inspection, or is answered at once.
LEMMA ReceiveKeeps ==
    ASSUME Typed, NEW s \in Streams, StreamInv(s), NEW kind \in Kinds, NEW eos \in BOOLEAN,
           Receive(s, kind, eos)
    PROVE  st'[s] \in StreamState /\ StreamInv(s)' /\ (ThreadRuns(s)' <=> ThreadRuns(s))
<1>1. /\ st[s].pc = "open" /\ Expected(st[s], kind)
      /\ st[s] \in StreamState
      /\ UNCHANGED outside
  BY DEF Receive, Typed
<1>2. /\ st'[s] \in StreamState /\ st'[s].mode = st[s].mode
      /\ st'[s].seen = IF kind \in {"request_headers", "response_headers"} THEN st[s].seen \cup {kind}
                     ELSE st[s].seen
      /\ st'[s].noBody = IF kind = "response_headers" THEN eos ELSE st[s].noBody
      /\ SameVerdicts(st'[s], st[s]) /\ SameEvidence(st'[s], st[s])
      /\ st'[s].completed = st[s].completed /\ st'[s].reply = st[s].reply
      /\ IF JobFor(kind, eos) = "none" THEN st'[s].pc = "open" /\ SameJob(st'[s], st[s])
         ELSE /\ st'[s].pc = "await" /\ st'[s].job = JobFor(kind, eos)
              /\ st'[s].thread = "queued" /\ st'[s].result = st[s].result
  <2>1. "await" \in Pcs /\ "queued" \in Threads
    BY DEF Pcs, Threads
  <2>2. JobFor(kind, eos) \in JobOrNone
    BY <1>1 DEF Expected, JobFor, Kinds, JobOrNone, Jobs
  <2>3. kind \in {"request_headers", "response_headers"} => st[s].seen \cup {kind} \in Seen
    BY <1>1 DEF StreamState, Seen
  <2> DEFINE r == [st[s] EXCEPT
                     !.seen = IF kind \in {"request_headers", "response_headers"}
                              THEN @ \cup {kind} ELSE @,
                     !.noBody = IF kind = "response_headers" THEN eos ELSE @]
  <2>4. /\ r \in StreamState /\ r.mode = st[s].mode
        /\ r.seen = IF kind \in {"request_headers", "response_headers"} THEN st[s].seen \cup {kind}
                    ELSE st[s].seen
        /\ r.noBody = IF kind = "response_headers" THEN eos ELSE st[s].noBody
        /\ SameJob(r, st[s]) /\ SameVerdicts(r, st[s]) /\ SameEvidence(r, st[s])
        /\ SameReply(r, st[s])
    BY <1>1, <2>3 DEF StreamState, SameJob, SameVerdicts, SameEvidence, SameReply
  <2>5. st'[s] = IF JobFor(kind, eos) = "none" THEN r
                 ELSE [r EXCEPT !.pc = "await", !.job = JobFor(kind, eos), !.thread = "queued"]
    BY DEF Receive, Update, Typed
  <2> HIDE DEF r
  <2>6. CASE JobFor(kind, eos) = "none"
    BY <1>1, <2>4, <2>5, <2>6 DEF SameJob, SameVerdicts, SameEvidence, SameReply
  <2>7. CASE JobFor(kind, eos) # "none"
    <3>1. st'[s] = [r EXCEPT !.pc = "await", !.job = JobFor(kind, eos), !.thread = "queued"]
      BY <2>5, <2>7
    <3>2. /\ st'[s] \in StreamState /\ st'[s].pc = "await" /\ st'[s].thread = "queued"
          /\ st'[s].job = JobFor(kind, eos) /\ st'[s].result = r.result
          /\ SameMessages(st'[s], r) /\ SameVerdicts(st'[s], r) /\ SameEvidence(st'[s], r)
          /\ st'[s].completed = r.completed /\ st'[s].reply = r.reply
      BY <2>1, <2>2, <2>4, <3>1 DEF StreamState, SameMessages, SameVerdicts, SameEvidence
    <3> QED
      BY <2>4, <2>7, <3>2 DEF SameMessages, SameJob, SameVerdicts, SameEvidence, SameReply
  <2> QED
    BY <2>6, <2>7
<1>3. \/ /\ kind = "request_headers" /\ "request_headers" \notin st[s].seen
         /\ JobFor(kind, eos) \in {"none", "request"}
      \/ /\ kind = "request_body" /\ JobFor(kind, eos) = "request"
         /\ "request_headers" \in st[s].seen /\ "request" \notin st[s].seen
      \/ /\ kind = "response_headers" /\ JobFor(kind, eos) = "metadata"
         /\ "request" \in st[s].seen /\ "response_headers" \notin st[s].seen
      \/ /\ kind = "response_body" /\ JobFor(kind, eos) = "response"
         /\ "response_headers" \in st[s].seen /\ "response" \notin st[s].seen
  BY <1>1 DEF Expected, JobFor, Kinds
<1> USE <1>1, <1>2, <1>3
        DEF outside, SameMessages, SameJob, SameVerdicts, SameReply, SameEvidence
<1>4. Fresh(s)'
  BY DEF Fresh
<1>5. Ordered(s)'
  BY DEF StreamInv, Ordered
<1>6. Phases(s)'
  BY DEF StreamInv, Ordered, Phases
<1>7. Passing(s)'
  BY DEF StreamInv, Passing, Phases, Inline, Ordered
<1>8. Verdicts(s)'
  BY DEF StreamInv, Verdicts, Phases, Inline
<1>9. Recorded(s)'
  BY DEF StreamInv, Recorded, Phases, Ordered, Inline
<1>10. Claims(s)'
  BY DEF StreamInv, Claims, AllPassed, Inline
<1>11. Once(s)'
  BY DEF StreamInv, Once
<1>12. ThreadRuns(s)' <=> ThreadRuns(s)
  BY DEF StreamInv, Fresh, Phases, ThreadRuns
<1> HIDE <1>1, <1>2, <1>3
<1> QED
  BY <1>2, <1>4, <1>5, <1>6, <1>7, <1>8, <1>9, <1>10, <1>11, <1>12 DEF StreamInv

\* A message out of order ends in a refusal that is recorded as the verdict.
LEMMA RejectKeeps ==
    ASSUME Typed, NEW s \in Streams, StreamInv(s), NEW kind \in Kinds, NEW observed \in BOOLEAN,
           Reject(s, kind, observed)
    PROVE  st'[s] \in StreamState /\ StreamInv(s)' /\ (ThreadRuns(s)' <=> ThreadRuns(s))
<1>1. /\ st[s].pc = "open" /\ st'[s] = Transport(st[s])
      /\ st[s] \in StreamState
      /\ UNCHANGED outside
  BY DEF Reject, Update, Typed
<1>2. /\ st'[s] \in StreamState /\ SameMessages(st'[s], st[s]) /\ SameJob(st'[s], st[s])
      /\ st'[s].verdict = "block" /\ st'[s].response = st[s].response
      /\ st'[s].upstream = st[s].upstream
      /\ Concluded(st'[s], "immediate") /\ st'[s].draft = st[s].draft
      /\ st'[s].finished = st[s].finished
  BY <1>1, Transporting
<1> USE <1>1, <1>2
        DEF outside, SameMessages, SameJob, SameVerdicts, SameReply, SameEvidence, Concluded
<1>3. Fresh(s)'
  BY DEF Fresh
<1>4. Ordered(s)'
  BY DEF StreamInv, Ordered
<1>5. Phases(s)'
  BY DEF StreamInv, Phases, StreamState, Threads
<1>6. Passing(s)'
  BY DEF StreamInv, Passing, Inline, AllPassed
<1>7. Verdicts(s)'
  BY DEF StreamInv, Verdicts, Phases
<1>8. Recorded(s)'
  BY DEF StreamInv, Phases, Recorded, Inline, OnDisk, Matching, Action
<1>9. Claims(s)'
  BY DEF StreamInv, Claims, Inline, AllPassed
<1>10. Once(s)'
  BY DEF StreamInv, Once
<1>11. ThreadRuns(s)' <=> ThreadRuns(s)
  BY DEF StreamInv, Fresh, Phases, ThreadRuns
<1> HIDE <1>1, <1>2
<1> QED
  BY <1>2, <1>3, <1>4, <1>5, <1>6, <1>7, <1>8, <1>9, <1>10, <1>11 DEF StreamInv

\* A worker starts.
LEMMA StartJobKeeps ==
    ASSUME Typed, NEW s \in Streams, StreamInv(s), StartJob(s)
    PROVE  st'[s] \in StreamState /\ StreamInv(s)' /\ ~ThreadRuns(s) /\ ThreadRuns(s)'
<1>1. /\ st[s].thread = "queued"
      /\ st'[s] = [st[s] EXCEPT !.thread = "running",
                        !.upstream = IF st[s].job = "metadata" THEN "received" ELSE @]
      /\ st[s] \in StreamState
      /\ UNCHANGED outside
  BY DEF StartJob, Update, Typed
<1>2. /\ st'[s] \in StreamState /\ SameMessages(st'[s], st[s]) /\ SameReply(st'[s], st[s])
      /\ SameEvidence(st'[s], st[s])
      /\ st'[s].job = st[s].job /\ st'[s].thread = "running" /\ st'[s].result = st[s].result
      /\ st'[s].verdict = st[s].verdict /\ st'[s].response = st[s].response
      /\ st'[s].upstream = IF st[s].job = "metadata" THEN "received" ELSE st[s].upstream
  <2>1. "running" \in Threads /\ "received" \in Upstreams
    BY DEF Threads, Upstreams
  <2> QED
    BY <1>1, <2>1 DEF StreamState, SameMessages, SameReply, SameEvidence
<1> USE <1>1, <1>2
        DEF outside, SameMessages, SameJob, SameVerdicts, SameReply, SameEvidence
<1>3. Fresh(s)'
  BY DEF StreamInv, Fresh
<1>4. Ordered(s)'
  BY DEF StreamInv, Ordered
<1>5. Phases(s)'
  BY DEF StreamInv, Phases
<1>6. Passing(s)'
  BY DEF StreamInv, Passing, Phases, Inline
<1>7. Verdicts(s)'
  BY DEF StreamInv, Verdicts, Inline
<1>8. Recorded(s)'
  BY DEF StreamInv, Recorded, Phases, Inline
<1>9. Claims(s)'
  BY DEF StreamInv, Claims, Phases, Inline, AllPassed
<1>10. Once(s)'
  BY DEF StreamInv, Once
<1>11. ~ThreadRuns(s) /\ ThreadRuns(s)'
  BY DEF StreamInv, Fresh, Phases, ThreadRuns
<1> HIDE <1>1, <1>2
<1> QED
  BY <1>2, <1>3, <1>4, <1>5, <1>6, <1>7, <1>8, <1>9, <1>10, <1>11 DEF StreamInv

\* A worker ends and stores its result, awaited or not.
LEMMA EndJobKeeps ==
    ASSUME Typed, NEW s \in Streams, StreamInv(s), NEW result \in {"allow", "block", "error"},
           EndJob(s, result)
    PROVE  st'[s] \in StreamState /\ StreamInv(s)' /\ ThreadRuns(s) /\ ~ThreadRuns(s)'
<1>1. /\ st[s].thread = "running" /\ result \in Results(st[s])
      /\ st'[s] = IF Stored(st[s], result).pc = "await"
                THEN [Stored(st[s], result) EXCEPT !.thread = "done", !.result = result]
                ELSE Taken(Stored(st[s], result))
      /\ passed'[s] = IF result = "allow" /\ Inline(s) THEN passed[s] \cup {st[s].job} ELSE passed[s]
      /\ st[s] \in StreamState
      /\ UNCHANGED <<faults, forwarded, final, events, failed>>
  BY DEF EndJob, Inline, Update, Typed
<1>2. /\ st'[s] \in StreamState /\ SameMessages(st'[s], st[s]) /\ SameReply(st'[s], st[s])
      /\ SameEvidence(st'[s], st[s])
      /\ st'[s].verdict = IF st[s].job = "request" THEN result ELSE st[s].verdict
      /\ st'[s].response = IF st[s].job = "response" THEN result ELSE st[s].response
      /\ st'[s].upstream = IF st[s].job = "request" /\ Inline(s) /\ result = "block" THEN "not_forwarded"
                         ELSE st[s].upstream
      /\ IF st[s].pc = "await"
         THEN st'[s].job = st[s].job /\ st'[s].thread = "done" /\ st'[s].result = result
         ELSE Idle(st'[s])
  <2> DEFINE r == Stored(st[s], result)
  <2>1. st[s].job \in Jobs
    BY <1>1 DEF StreamInv, Phases, StreamState, JobOrNone
  <2>2. "done" \in Threads /\ "not_forwarded" \in Upstreams /\ result \in Found
    BY DEF Threads, Found, Upstreams
  <2>3. st[s].job # "metadata" => result \in Judged
    BY <1>1 DEF Results, Judged
  <2>4. /\ r \in StreamState /\ SameMessages(r, st[s]) /\ SameReply(r, st[s])
        /\ SameEvidence(r, st[s]) /\ SameJob(r, st[s])
        /\ r.verdict = IF st[s].job = "request" THEN result ELSE st[s].verdict
        /\ r.response = IF st[s].job = "response" THEN result ELSE st[s].response
        /\ r.upstream = IF st[s].job = "request" /\ Inline(s) /\ result = "block"
                        THEN "not_forwarded" ELSE st[s].upstream
    <3>1. CASE st[s].job = "request"
      BY <1>1, <2>2, <2>3, <3>1
        DEF StreamState, Stored, Inline, SameMessages, SameReply, SameEvidence, SameJob
    <3>2. CASE st[s].job = "metadata"
      BY <1>1, <3>2 DEF StreamState, Stored, SameMessages, SameReply, SameEvidence, SameJob
    <3>3. CASE st[s].job = "response"
      BY <1>1, <2>3, <3>3 DEF StreamState, Stored, SameMessages, SameReply, SameEvidence, SameJob
    <3> QED
      BY <2>1, <3>1, <3>2, <3>3 DEF Jobs
  <2>5. st'[s] = IF r.pc = "await" THEN [r EXCEPT !.thread = "done", !.result = result] ELSE Taken(r)
    BY <1>1
  <2> HIDE DEF r
  <2>6. CASE r.pc = "await"
    BY <2>2, <2>4, <2>5, <2>6 DEF StreamState, SameMessages, SameReply, SameEvidence, SameJob
  <2>7. CASE r.pc # "await"
    BY <2>4, <2>5, <2>7, Taking DEF SameMessages, SameReply, SameEvidence, SameVerdicts
  <2> QED
    BY <2>6, <2>7
<1> USE <1>1, <1>2
        DEF outside, SameMessages, SameJob, SameVerdicts, SameReply, SameEvidence, Idle
<1>3. Fresh(s)'
  BY DEF StreamInv, Fresh
<1>4. Ordered(s)'
  BY DEF StreamInv, Ordered
<1>5. Phases(s)'
  BY DEF StreamInv, Phases, Results
<1>6. Passing(s)'
  BY DEF StreamInv, Passing, Phases, Inline
<1>7. Verdicts(s)'
  BY DEF StreamInv, Verdicts, Phases, Ordered, Inline
<1>8. Recorded(s)'
  BY DEF StreamInv, Recorded, Phases, Inline
<1>9. Claims(s)'
  BY DEF StreamInv, Claims, Phases, Ordered, Inline, AllPassed
<1>10. Once(s)'
  BY DEF StreamInv, Once
<1>11. ThreadRuns(s) /\ ~ThreadRuns(s)'
  BY DEF StreamInv, Fresh, Phases, ThreadRuns
<1> HIDE <1>1, <1>2
<1> QED
  BY <1>2, <1>3, <1>4, <1>5, <1>6, <1>7, <1>8, <1>9, <1>10, <1>11 DEF StreamInv

\* The request's verdict: the request is refused, or forwarded after it passed.
LEMMA ResumeRequestKeeps ==
    ASSUME Typed, NEW s \in Streams, StreamInv(s), ResumeRequest(s)
    PROVE  st'[s] \in StreamState /\ StreamInv(s)' /\ (ThreadRuns(s)' <=> ThreadRuns(s))
<1>1. /\ Waiting(s, "request")
      /\ LET r == [Taken(st[s]) EXCEPT !.seen = @ \cup {"request"}]
         IN  st'[s] = IF Told(s) = "block" THEN Terminal(r, "immediate") ELSE [r EXCEPT !.pc = "open"]
      /\ forwarded' = IF Told(s) = "block" THEN forwarded ELSE forwarded \cup {s}
      /\ st[s] \in StreamState
      /\ UNCHANGED <<faults, passed, final, events, failed>>
  BY DEF ResumeRequest, Update, Typed
<1>2. /\ st'[s] \in StreamState /\ st'[s].mode = st[s].mode /\ st'[s].noBody = st[s].noBody
      /\ st'[s].seen = st[s].seen \cup {"request"} /\ SameVerdicts(st'[s], st[s]) /\ Idle(st'[s])
      /\ st'[s].draft = st[s].draft /\ st'[s].finished = st[s].finished
      /\ IF Told(s) = "block" THEN Concluded(st'[s], "immediate")
         ELSE /\ st'[s].pc = "open" /\ st'[s].completed = st[s].completed
              /\ st'[s].saving = st[s].saving
  <2> DEFINE q == Taken(st[s])
             r == [q EXCEPT !.seen = @ \cup {"request"}]
  <2>1. /\ q \in StreamState /\ SameMessages(q, st[s]) /\ SameVerdicts(q, st[s])
        /\ SameReply(q, st[s]) /\ SameEvidence(q, st[s]) /\ Idle(q)
    BY <1>1, Taking
  <2> HIDE DEF q
  <2>2. /\ r \in StreamState /\ r.seen = q.seen \cup {"request"} /\ r.mode = q.mode
        /\ r.noBody = q.noBody /\ SameJob(r, q) /\ SameVerdicts(r, q) /\ SameReply(r, q)
        /\ SameEvidence(r, q)
    BY <2>1, Seeing
  <2>3. /\ Told(s) = "block" => st'[s] = Terminal(r, "immediate")
        /\ Told(s) # "block" => st'[s] = [r EXCEPT !.pc = "open"]
    BY <1>1 DEF q
  <2> HIDE DEF r
  <2>4. CASE Told(s) = "block"
    <3>1. "immediate" \in Replies
      BY DEF Replies
    <3> QED
      BY <2>1, <2>2, <2>3, <2>4, <3>1, Concluding
        DEF SameMessages, SameJob, SameVerdicts, SameReply, SameEvidence, Idle
  <2>5. CASE Told(s) # "block"
    BY <2>1, <2>2, <2>3, <2>5, Opening
      DEF SameMessages, SameJob, SameVerdicts, SameReply, SameEvidence, Idle
  <2> QED
    BY <2>4, <2>5
<1> USE <1>1, <1>2
        DEF outside, SameMessages, SameJob, SameVerdicts, SameReply, SameEvidence,
           Idle, Waiting, Told, Concluded
<1>3. Fresh(s)'
  BY DEF Fresh
<1>4. Ordered(s)'
  BY DEF StreamInv, Ordered
<1>5. Phases(s)'
  BY DEF StreamInv, Phases
<1>6. Passing(s)'
  BY DEF StreamInv, Phases, Passing, Verdicts, Results, Inline
<1>7. Verdicts(s)'
  BY DEF StreamInv, Verdicts, Phases, Inline, Results
<1>8. Recorded(s)'
  BY DEF StreamInv, Phases, Verdicts, Recorded, Inline, Matching, Action
<1>9. Claims(s)'
  <2>1. AllPassed(s) => AllPassed(s)'
    BY DEF AllPassed
  <2>2. st[s].upstream = "not_forwarded" => Told(s) = "block" /\ s \notin forwarded /\ Inline(s)
    BY DEF StreamInv, Claims, Inline
  <2>3. "response_headers" \in st[s].seen => "response_headers" \in st'[s].seen
    OBVIOUS
  <2> QED
    BY <2>1, <2>2, <2>3 DEF StreamInv, Claims, Inline
<1>10. Once(s)'
  BY DEF StreamInv, Once
<1>11. ThreadRuns(s)' <=> ThreadRuns(s)
  BY DEF StreamInv, Fresh, Phases, ThreadRuns
<1> HIDE <1>1, <1>2
<1> QED
  BY <1>2, <1>3, <1>4, <1>5, <1>6, <1>7, <1>8, <1>9, <1>10, <1>11 DEF StreamInv

\* The response's verdict: what is delivered has passed.
LEMMA ResumeResponseKeeps ==
    ASSUME Typed, NEW s \in Streams, StreamInv(s), ResumeResponse(s)
    PROVE  st'[s] \in StreamState /\ StreamInv(s)' /\ (ThreadRuns(s)' <=> ThreadRuns(s))
<1>1. /\ Waiting(s, "response")
      /\ st'[s] = Terminal([Taken(st[s]) EXCEPT !.seen = @ \cup {"response"}],
                         IF Told(s) = "block" THEN "immediate" ELSE "deliver")
      /\ st[s] \in StreamState
      /\ UNCHANGED outside
  BY DEF ResumeResponse, Update, Typed
<1>2. /\ st'[s] \in StreamState /\ st'[s].mode = st[s].mode /\ st'[s].noBody = st[s].noBody
      /\ st'[s].seen = st[s].seen \cup {"response"} /\ SameVerdicts(st'[s], st[s]) /\ Idle(st'[s])
      /\ st'[s].draft = st[s].draft /\ st'[s].finished = st[s].finished
      /\ Concluded(st'[s], IF Told(s) = "block" THEN "immediate" ELSE "deliver")
  <2> DEFINE q == Taken(st[s])
             r == [q EXCEPT !.seen = @ \cup {"response"}]
  <2>1. /\ q \in StreamState /\ SameMessages(q, st[s]) /\ SameVerdicts(q, st[s])
        /\ SameReply(q, st[s]) /\ SameEvidence(q, st[s]) /\ Idle(q)
    BY <1>1, Taking
  <2> HIDE DEF q
  <2>2. /\ r \in StreamState /\ r.seen = q.seen \cup {"response"} /\ r.mode = q.mode
        /\ r.noBody = q.noBody /\ SameJob(r, q) /\ SameVerdicts(r, q) /\ SameReply(r, q)
        /\ SameEvidence(r, q)
    BY <2>1, Seeing
  <2>3. PICK reply \in Replies : /\ reply = IF Told(s) = "block" THEN "immediate" ELSE "deliver"
                                /\ st'[s] = Terminal(r, reply)
    BY <1>1 DEF q, Replies
  <2> HIDE DEF r
  <2> QED
    BY <2>1, <2>2, <2>3, Concluding
      DEF SameMessages, SameJob, SameVerdicts, SameReply, SameEvidence, Idle
<1> USE <1>1, <1>2
        DEF outside, SameMessages, SameJob, SameVerdicts, SameReply, SameEvidence,
           Idle, Waiting, Told, Concluded
<1>3. Fresh(s)'
  BY DEF Fresh
<1>4. Ordered(s)'
  BY DEF StreamInv, Ordered
<1>5. Phases(s)'
  BY DEF StreamInv, Phases
<1>6. Passing(s)'
  BY DEF StreamInv, Passing, Phases, AllPassed, Inline, Ordered, Verdicts, Results
<1>7. Verdicts(s)'
  BY DEF Verdicts
<1>8. Recorded(s)'
  BY DEF StreamInv, Ordered, Phases, Verdicts, Recorded, Inline, Matching, Action
<1>9. Claims(s)'
  BY DEF StreamInv, Claims, AllPassed, Inline
<1>10. Once(s)'
  BY DEF StreamInv, Once
<1>11. ThreadRuns(s)' <=> ThreadRuns(s)
  BY DEF StreamInv, Fresh, Phases, ThreadRuns
<1> HIDE <1>1, <1>2
<1> QED
  BY <1>2, <1>3, <1>4, <1>5, <1>6, <1>7, <1>8, <1>9, <1>10, <1>11 DEF StreamInv

\* The response's headers: an answer without a body is final here.
LEMMA ResumeMetadataKeeps ==
    ASSUME Typed, NEW s \in Streams, StreamInv(s), ResumeMetadata(s)
    PROVE  st'[s] \in StreamState /\ StreamInv(s)' /\ (ThreadRuns(s)' <=> ThreadRuns(s))
<1>1. /\ Waiting(s, "metadata") /\ Told(s) \in {"allow", "block", "error"}
      /\ Told(s) = "error" => st'[s] = Ended(Taken(st[s]))
      /\ Told(s) = "block" => st'[s] = Transport(Taken(st[s]))
      /\ Told(s) = "allow" => st'[s] = IF Taken(st[s]).noBody
                                      THEN Terminal([Taken(st[s]) EXCEPT !.seen = @ \cup {"response"}], "deliver")
                                      ELSE [Taken(st[s]) EXCEPT !.pc = "open"]
      /\ st[s] \in StreamState
      /\ UNCHANGED outside
  <2>1. Waiting(s, "metadata") /\ st[s] \in StreamState
    BY DEF ResumeMetadata, Typed
  <2>2. Told(s) \in {"allow", "block", "error"}
    BY <2>1 DEF StreamInv, Phases, Waiting, Told, Results
  <2> QED
    BY <2>1, <2>2 DEF ResumeMetadata, Update, Typed
<1>2. /\ st'[s] \in StreamState /\ st'[s].mode = st[s].mode /\ st'[s].noBody = st[s].noBody
      /\ st'[s].seen = IF Told(s) = "allow" /\ st[s].noBody THEN st[s].seen \cup {"response"}
                     ELSE st[s].seen
      /\ st'[s].verdict = IF Told(s) = "block" THEN "block" ELSE st[s].verdict
      /\ st'[s].response = st[s].response /\ st'[s].upstream = st[s].upstream /\ Idle(st'[s])
      /\ st'[s].draft = st[s].draft /\ st'[s].finished = st[s].finished
      /\ Told(s) = "error" =>
           /\ st'[s].pc = "closing" /\ st'[s].completed = st[s].completed
           /\ st'[s].saving = st[s].saving + 1
      /\ Told(s) = "block" => Concluded(st'[s], "immediate")
      /\ Told(s) = "allow" =>
           IF st[s].noBody THEN Concluded(st'[s], "deliver")
           ELSE /\ st'[s].pc = "open" /\ st'[s].completed = st[s].completed
                /\ st'[s].saving = st[s].saving
  <2> DEFINE r == Taken(st[s])
  <2>1. r \in StreamState /\ SameMessages(r, st[s]) /\ SameVerdicts(r, st[s]) /\ SameReply(r, st[s])
        /\ SameEvidence(r, st[s]) /\ Idle(r)
    BY <1>1, Taking
  <2>2. /\ Told(s) = "error" => st'[s] = Ended(r)
        /\ Told(s) = "block" => st'[s] = Transport(r)
        /\ Told(s) = "allow" => st'[s] = IF r.noBody THEN Terminal([r EXCEPT !.seen = @ \cup {"response"}], "deliver")
                                         ELSE [r EXCEPT !.pc = "open"]
    BY <1>1
  <2> HIDE DEF r
  <2>3. CASE Told(s) = "error"
    <3>1. st[s].saving + 1 \in Attempts
      BY <1>1, Room DEF StreamInv, Waiting
    <3>2. r.saving + 1 \in Attempts /\ r.thread # "running"
      BY <2>1, <3>1 DEF SameEvidence, Idle
    <3> QED
      BY <2>1, <2>2, <2>3, <3>2, Ending
        DEF SameMessages, SameVerdicts, SameReply, SameEvidence, Idle
  <2>4. CASE Told(s) = "block"
    BY <2>1, <2>2, <2>4, Transporting
      DEF SameMessages, SameJob, SameVerdicts, SameReply, SameEvidence, Idle
  <2>5. CASE Told(s) = "allow"
    <3>1. CASE r.noBody
      <4> DEFINE q == [r EXCEPT !.seen = @ \cup {"response"}]
      <4>1. /\ q \in StreamState /\ q.seen = r.seen \cup {"response"} /\ q.mode = r.mode
            /\ q.noBody = r.noBody /\ SameJob(q, r) /\ SameVerdicts(q, r) /\ SameReply(q, r)
            /\ SameEvidence(q, r)
        BY <2>1, Seeing
      <4>2. st'[s] = Terminal(q, "deliver") /\ "deliver" \in Replies
        BY <2>2, <2>5, <3>1 DEF Replies
      <4> HIDE DEF q
      <4>3. /\ st'[s] \in StreamState /\ SameMessages(st'[s], q) /\ SameJob(st'[s], q)
            /\ SameVerdicts(st'[s], q) /\ Concluded(st'[s], "deliver")
            /\ st'[s].draft = q.draft /\ st'[s].finished = q.finished
        BY <4>1, <4>2, Concluding
      <4>4. st'[s].seen = st[s].seen \cup {"response"} /\ st[s].noBody
        BY <2>1, <3>1, <4>1, <4>3 DEF SameMessages
      <4> QED
        BY <2>1, <2>5, <4>1, <4>3, <4>4
          DEF SameMessages, SameJob, SameVerdicts, SameReply, SameEvidence, Idle
    <3>2. CASE ~r.noBody
      BY <2>1, <2>2, <2>5, <3>2, Opening
        DEF SameMessages, SameJob, SameVerdicts, SameReply, SameEvidence, Idle
    <3> QED
      BY <3>1, <3>2
  <2> QED
    BY <1>1, <2>3, <2>4, <2>5
<1> USE <1>1, <1>2
        DEF outside, SameMessages, SameJob, SameVerdicts, SameReply, SameEvidence,
           Idle, Waiting, Told, Concluded
<1>3. Fresh(s)'
  BY DEF Fresh
<1>4. Ordered(s)'
  BY DEF StreamInv, Ordered
<1>5. Phases(s)'
  BY DEF StreamInv, Phases
<1>6. Passing(s)'
  BY DEF StreamInv, Passing, Ordered, Inline, AllPassed
<1>7. Verdicts(s)'
  BY DEF StreamInv, Verdicts, Inline
<1>8. Recorded(s)'
  BY DEF StreamInv, Ordered, Phases, Verdicts, Recorded, Inline, Matching, Action
<1>9. Claims(s)'
  BY DEF StreamInv, Claims, AllPassed, Inline
<1>10. Once(s)'
  BY DEF StreamInv, Once, StreamState, Attempts
<1>11. ThreadRuns(s)' <=> ThreadRuns(s)
  BY DEF StreamInv, Fresh, Phases, ThreadRuns
<1> HIDE <1>1, <1>2
<1> QED
  BY <1>2, <1>3, <1>4, <1>5, <1>6, <1>7, <1>8, <1>9, <1>10, <1>11 DEF StreamInv

\* A record is put together; from now on it must say what the reply will say.
LEMMA SaveBeginKeeps ==
    ASSUME Typed, NEW s \in Streams, StreamInv(s), SaveBegin(s)
    PROVE  st'[s] \in StreamState /\ StreamInv(s)' /\ (ThreadRuns(s)' <=> ThreadRuns(s))
<1>1. /\ st[s].saving > 0 /\ st[s].draft = "none" /\ ~st[s].finished
      /\ st'[s] = [st[s] EXCEPT !.draft = Action(st[s])]
      /\ st[s] \in StreamState
      /\ UNCHANGED outside
  BY DEF SaveBegin, Update, Typed
<1>2. /\ st'[s] \in StreamState /\ SameMessages(st'[s], st[s]) /\ SameJob(st'[s], st[s])
      /\ SameVerdicts(st'[s], st[s])
      /\ SameReply(st'[s], st[s]) /\ st'[s].saving = st[s].saving
      /\ st'[s].finished = st[s].finished
      /\ st'[s].draft = Action(st[s]) 
  <2>1. Action(st[s]) \in Drafts
    BY <1>1 DEF Action, Drafts, StreamState, Judged
  <2> QED
    BY <1>1, <2>1 DEF StreamState, SameMessages, SameJob, SameVerdicts, SameReply
<1>3. Action(st'[s]) = Action(st[s])
  BY <1>2, SameAction DEF SameReply
<1> USE <1>1, <1>2, <1>3
        DEF outside, SameMessages, SameJob, SameVerdicts, SameReply, SameEvidence
<1>4. Fresh(s)'
  BY DEF StreamInv, Fresh
<1>5. Ordered(s)'
  BY DEF StreamInv, Ordered
<1>6. Phases(s)'
  BY DEF StreamInv, Phases
<1>7. Passing(s)'
  BY DEF StreamInv, Passing, Inline, AllPassed
<1>8. Verdicts(s)'
  BY DEF StreamInv, Verdicts, Phases
<1>9. Recorded(s)'
  BY DEF StreamInv, Recorded, Inline, OnDisk
<1>10. Claims(s)'
  BY DEF StreamInv, Passing, Claims, AllPassed, Inline, Action
<1>11. Once(s)'
  BY DEF StreamInv, Once
<1>12. ThreadRuns(s)' <=> ThreadRuns(s)
  BY DEF StreamInv, Fresh, Phases, ThreadRuns
<1> HIDE <1>1, <1>2, <1>3
<1> QED
  BY <1>2, <1>4, <1>5, <1>6, <1>7, <1>8, <1>9, <1>10, <1>11, <1>12 DEF StreamInv

\* finish() finds the record written.
LEMMA SaveSkipKeeps ==
    ASSUME Typed, NEW s \in Streams, StreamInv(s), SaveSkip(s)
    PROVE  st'[s] \in StreamState /\ StreamInv(s)' /\ (ThreadRuns(s)' <=> ThreadRuns(s))
<1>1. /\ st[s].saving > 0 /\ st[s].draft = "none" /\ st[s].finished
      /\ st'[s] = [st[s] EXCEPT !.saving = @ - 1]
      /\ st[s] \in StreamState
      /\ UNCHANGED outside
  BY DEF SaveSkip, Update, Typed
<1>2. /\ st'[s] \in StreamState /\ SameMessages(st'[s], st[s]) /\ SameJob(st'[s], st[s])
      /\ SameVerdicts(st'[s], st[s])
      /\ SameReply(st'[s], st[s]) /\ st'[s].draft = st[s].draft
      /\ st'[s].finished = st[s].finished
      /\ st'[s].saving = st[s].saving - 1 
  <2>1. st[s].saving - 1 \in Attempts
    BY <1>1 DEF Attempts, StreamState
  <2>2. st[s] \in StreamState /\ st'[s] = [st[s] EXCEPT !.saving = @ - 1]
    BY <1>1
  <2>3. st'[s] \in StreamState
    BY <2>1, <2>2 DEF StreamState
  <2> QED
    BY <2>2, <2>3 DEF StreamState, SameMessages, SameJob, SameVerdicts, SameReply
<1>3. Action(st'[s]) = Action(st[s])
  BY <1>2, SameAction DEF SameReply
<1> USE <1>1, <1>2, <1>3
        DEF outside, SameMessages, SameJob, SameVerdicts, SameReply, SameEvidence
<1>4. Fresh(s)'
  BY DEF StreamInv, Fresh
<1>5. Ordered(s)'
  BY DEF StreamInv, Ordered
<1>6. Phases(s)'
  BY DEF StreamInv, Phases, StreamState, Attempts
<1>7. Passing(s)'
  BY DEF StreamInv, Passing, Inline, AllPassed
<1>8. Verdicts(s)'
  BY DEF StreamInv, Verdicts, Phases
<1>9. Recorded(s)'
  BY DEF StreamInv, Recorded, Inline, OnDisk
<1>10. Claims(s)'
  BY DEF StreamInv, Claims, Inline, AllPassed
<1>11. Once(s)'
  BY DEF StreamInv, Fresh, Ordered, Phases, Passing, Verdicts, Recorded, Claims, Once,
     Results, AllPassed, Inline, OnDisk, Matching, Action, StreamState, Pcs, Attempts,
     Threads, Judged, Found, Replies, JobOrNone, Jobs, Upstreams
<1>12. ThreadRuns(s)' <=> ThreadRuns(s)
  BY DEF StreamInv, Fresh, Phases, ThreadRuns
<1> HIDE <1>1, <1>2, <1>3
<1> QED
  BY <1>2, <1>4, <1>5, <1>6, <1>7, <1>8, <1>9, <1>10, <1>11, <1>12 DEF StreamInv

\* The record reaches the disk.
LEMMA SaveOkKeeps ==
    ASSUME Typed, NEW s \in Streams, StreamInv(s), SaveOk(s)
    PROVE  st'[s] \in StreamState /\ StreamInv(s)' /\ (ThreadRuns(s)' <=> ThreadRuns(s))
<1>1. /\ st[s].draft # "none" /\ events'[s] = Append(events[s], Record(s))
      /\ st'[s] = [st[s] EXCEPT !.finished = TRUE, !.saving = @ - 1, !.draft = "none"]
      /\ st[s] \in StreamState
      /\ UNCHANGED <<faults, passed, forwarded, final, failed>>
  BY DEF SaveOk, Update, Typed
<1>2. /\ st'[s] \in StreamState /\ SameMessages(st'[s], st[s]) /\ SameJob(st'[s], st[s])
      /\ SameVerdicts(st'[s], st[s])
      /\ SameReply(st'[s], st[s]) /\ st'[s].saving = st[s].saving - 1 /\ st'[s].draft = "none"
      /\ st'[s].finished
  <2>1. st[s].saving - 1 \in Attempts /\ "none" \in Drafts
    BY <1>1, Saving DEF StreamInv, Drafts
  <2> QED
    BY <1>1, <2>1 DEF StreamState, SameMessages, SameJob, SameVerdicts, SameReply
<1>3. Action(st'[s]) = Action(st[s]) /\ Grown(events'[s], events[s], Record(s))
  <2>1. Record(s) \in Records /\ events[s] \in Seq(Records)
    BY <1>1, RecordTyped DEF Typed
  <2> QED
    BY <1>1, <1>2, <2>1, Growing, SameAction DEF SameReply
<1> USE <1>1, <1>2, <1>3
        DEF outside, SameMessages, SameJob, SameVerdicts, SameReply, SameEvidence,
           Grown, Record
<1>4. Fresh(s)'
  BY DEF StreamInv, Fresh
<1>5. Ordered(s)'
  BY DEF StreamInv, Ordered
<1>6. Phases(s)'
  BY DEF StreamInv, Phases, StreamState, Attempts
<1>7. Passing(s)'
  BY DEF StreamInv, Passing, Inline, AllPassed
<1>8. Verdicts(s)'
  BY DEF StreamInv, Verdicts, Phases
<1>9. Recorded(s)'
  <2>1. \A reply : OnDisk(s, reply) => OnDisk(s, reply)'
    BY OnDiskGrows DEF OnDisk
  <2>2. \A reply : Inline(s) /\ st[s].completed /\ st[s].draft = Matching(reply) => OnDisk(s, reply)'
    BY RecordOnDisk DEF OnDisk
  <2>3. st'[s].pc \in {"finish", "closing"} /\ (st[s].pc = "finish" => st[s].completed)
    BY DEF StreamInv, Phases, StreamState
  <2>4. Inline(s)' => Inline(s)
    BY DEF Inline
  <2> HIDE DEF Grown
  <2> QED
    BY <2>1, <2>2, <2>3, <2>4 DEF StreamInv, Recorded
<1>10. Claims(s)'
  <2>1. AllPassed(s) => AllPassed(s)'
    BY DEF AllPassed
  <2>2. \A i \in DOMAIN events'[s] :
          /\ Inline(s) /\ events'[s][i].action = "allow" => AllPassed(s)
          /\ events'[s][i].upstream = "not_forwarded" => st[s].upstream = "not_forwarded"
          /\ events'[s][i].upstream = "received" => "response_headers" \in st[s].seen
    BY RecordClaims DEF StreamInv
  <2> HIDE DEF Grown
  <2> QED
    BY <2>1, <2>2 DEF StreamInv, Claims, Inline
<1>11. Once(s)'
  BY DEF StreamInv, Once, Phases
<1>12. ThreadRuns(s)' <=> ThreadRuns(s)
  BY DEF StreamInv, Fresh, Phases, ThreadRuns
<1> HIDE <1>1, <1>2, <1>3
<1> QED
  BY <1>2, <1>4, <1>5, <1>6, <1>7, <1>8, <1>9, <1>10, <1>11, <1>12 DEF StreamInv

\* Appending raises: an inline stream loses its reply, a mirrored one its record.
LEMMA SaveFailKeeps ==
    ASSUME Typed, NEW s \in Streams, StreamInv(s), NEW written \in BOOLEAN, SaveFail(s, written)
    PROVE  st'[s] \in StreamState /\ StreamInv(s)' /\ (ThreadRuns(s)' <=> ThreadRuns(s))
<1>1. /\ st[s].draft # "none" /\ events'[s] = IF written THEN Append(events[s], Record(s)) ELSE events[s]
      /\ LET r == [st[s] EXCEPT !.saving = @ - 1, !.draft = "none"]
         IN  st'[s] = IF r.mode = "mirror" THEN [r EXCEPT !.finished = TRUE]
                      ELSE IF r.pc = "finish" THEN Ended(r) ELSE r
      /\ st[s] \in StreamState
      /\ failed' = failed \cup {s} /\ UNCHANGED <<passed, forwarded, final>>
  BY DEF SaveFail, Update, Typed
<1>2. /\ st'[s] \in StreamState /\ SameMessages(st'[s], st[s]) /\ SameJob(st'[s], st[s])
      /\ SameVerdicts(st'[s], st[s])
      /\ st'[s].completed = st[s].completed /\ st'[s].draft = "none"
      /\ IF Inline(s) /\ st[s].pc = "finish"
         THEN st'[s].pc = "closing" /\ st'[s].saving = st[s].saving
         ELSE SameReply(st'[s], st[s]) /\ st'[s].saving = st[s].saving - 1
      /\ IF Inline(s) THEN st'[s].finished = st[s].finished ELSE st'[s].finished
  <2> DEFINE r == [st[s] EXCEPT !.saving = @ - 1, !.draft = "none"]
  <2>3. st[s].saving - 1 \in Attempts /\ "none" \in Drafts
    BY <1>1, Saving DEF StreamInv, Drafts
  <2>4. /\ r \in StreamState /\ SameMessages(r, st[s]) /\ SameJob(r, st[s])
        /\ SameVerdicts(r, st[s])
        /\ SameReply(r, st[s]) /\ r.saving = st[s].saving - 1 /\ r.draft = "none"
        /\ r.finished = st[s].finished
    BY <1>1, <2>3 DEF StreamState, SameMessages, SameJob, SameVerdicts, SameReply
  <2>5. /\ r.mode = "mirror" => st'[s] = [r EXCEPT !.finished = TRUE]
        /\ r.mode # "mirror" /\ r.pc = "finish" => st'[s] = Ended(r)
        /\ r.mode # "mirror" /\ r.pc # "finish" => st'[s] = r
    BY <1>1
  <2>6. st[s].mode = "mirror" <=> ~Inline(s)
    BY <1>1 DEF StreamState, Modes, Inline
  <2> HIDE DEF r
  <2>7. CASE r.mode = "mirror"
    <3>1. st'[s] \in StreamState /\ st'[s].finished /\ st'[s].saving = r.saving /\ st'[s].draft = r.draft
          /\ SameMessages(st'[s], r) /\ SameJob(st'[s], r) /\ SameVerdicts(st'[s], r)
          /\ SameReply(st'[s], r)
      BY <2>4, <2>5, <2>7 DEF StreamState, SameMessages, SameJob, SameVerdicts, SameReply
    <3> QED
      BY <2>4, <2>6, <2>7, <3>1 DEF SameMessages, SameJob, SameVerdicts, SameReply
  <2>8. CASE r.mode # "mirror" /\ r.pc = "finish"
    <3>1. st[s].thread = "idle" /\ st[s].job = "none" /\ st[s].result = "none"
      BY <2>4, <2>8 DEF StreamInv, Phases, SameReply
    <3>2. r.saving + 1 = st[s].saving /\ st[s].saving \in Attempts
      BY <1>1, <2>4 DEF StreamState, Attempts
    <3> QED
      <4>1. /\ st'[s] \in StreamState /\ SameMessages(st'[s], r) /\ SameVerdicts(st'[s], r)
            /\ st'[s].pc = "closing" /\ st'[s].completed = r.completed
            /\ st'[s].saving = st[s].saving /\ st'[s].draft = r.draft
            /\ st'[s].finished = r.finished
            /\ IF r.thread = "running" THEN SameJob(st'[s], r) ELSE Idle(st'[s])
        BY <2>4, <2>5, <2>8, <3>2, Ending
      <4> QED
        BY <2>4, <2>6, <2>8, <3>1, <4>1 DEF SameMessages, SameJob, SameVerdicts, SameReply, Idle
  <2>9. CASE r.mode # "mirror" /\ r.pc # "finish"
    BY <2>4, <2>5, <2>6, <2>9 DEF SameMessages, SameJob, SameVerdicts, SameReply
  <2> QED
    BY <2>7, <2>8, <2>9
<1>3. Action(st'[s]) = Action(st[s]) /\ (IF written THEN Grown(events'[s], events[s], Record(s))
                                                     ELSE events'[s] = events[s])
  <2>1. Record(s) \in Records /\ events[s] \in Seq(Records)
    BY <1>1, RecordTyped DEF Typed
  <2> QED
    BY <1>1, <1>2, <2>1, Growing, SameAction DEF SameReply
<1> USE <1>1, <1>2, <1>3
        DEF outside, SameMessages, SameJob, SameVerdicts, SameReply, SameEvidence,
           Grown, Record
<1>4. Fresh(s)'
  BY DEF StreamInv, Fresh
<1>5. Ordered(s)'
  BY DEF StreamInv, Ordered
<1>6. Phases(s)'
  BY DEF StreamInv, Phases, StreamState, Attempts
<1>7. Passing(s)'
  BY DEF StreamInv, Passing, Inline, AllPassed
<1>8. Verdicts(s)'
  BY DEF StreamInv, Verdicts, Phases
<1>9. Recorded(s)'
  <2>1. \A reply : OnDisk(s, reply) => OnDisk(s, reply)'
    <3>1. CASE written
      BY <3>1, OnDiskGrows DEF OnDisk
    <3>2. CASE ~written
      BY <3>2 DEF OnDisk
    <3> QED
      BY <3>1, <3>2
  <2> HIDE DEF Grown
  <2> QED
    BY <2>1 DEF StreamInv, Recorded, Phases, Inline
<1>10. Claims(s)'
  <2>1. AllPassed(s) => AllPassed(s)'
    BY DEF AllPassed
  <2>2. \A i \in DOMAIN events'[s] :
          /\ Inline(s) /\ events'[s][i].action = "allow" => AllPassed(s)
          /\ events'[s][i].upstream = "not_forwarded" => st[s].upstream = "not_forwarded"
          /\ events'[s][i].upstream = "received" => "response_headers" \in st[s].seen
    <3>1. CASE written
      BY <3>1, RecordClaims DEF StreamInv
    <3>2. CASE ~written
      BY <3>2 DEF StreamInv, Claims
    <3> QED
      BY <3>1, <3>2
  <2> HIDE DEF Grown
  <2> QED
    BY <2>1, <2>2 DEF StreamInv, Claims, Phases, Inline
<1>11. Once(s)'
  BY DEF Once
<1>12. ThreadRuns(s)' <=> ThreadRuns(s)
  BY DEF StreamInv, Fresh, Phases, ThreadRuns
<1> HIDE <1>1, <1>2, <1>3
<1> QED
  BY <1>2, <1>4, <1>5, <1>6, <1>7, <1>8, <1>9, <1>10, <1>11, <1>12 DEF StreamInv

\* The final reply goes out, after its record.
LEMMA ReplyKeeps ==
    ASSUME Typed, NEW s \in Streams, StreamInv(s), Reply(s)
    PROVE  st'[s] \in StreamState /\ StreamInv(s)' /\ (ThreadRuns(s)' <=> ThreadRuns(s))
<1>1. /\ st[s].pc = "finish" /\ st[s].saving = 0
      /\ final'[s] = IF final[s] = "none" THEN st[s].reply ELSE final[s]
      /\ st'[s] = IF st[s].reply = "immediate" THEN Ended(st[s])
                ELSE [st[s] EXCEPT !.pc = "open", !.reply = "none"]
      /\ st[s] \in StreamState
      /\ UNCHANGED <<faults, passed, forwarded, events, failed>>
  BY DEF Reply, Update, Typed
<1>2. /\ st'[s] \in StreamState /\ SameMessages(st'[s], st[s]) /\ SameJob(st'[s], st[s])
      /\ SameVerdicts(st'[s], st[s])
      /\ st'[s].completed = st[s].completed /\ st'[s].draft = st[s].draft
      /\ st'[s].finished = st[s].finished
      /\ IF st[s].reply = "immediate" THEN st'[s].pc = "closing" /\ st'[s].saving = 1
         ELSE st'[s].pc = "open" /\ st'[s].saving = 0
  <2>1. st[s].saving + 1 \in Attempts
    BY <1>1 DEF Attempts
  <2>2. CASE st[s].reply = "immediate"
    <3>1. st[s].thread = "idle" /\ st[s].job = "none" /\ st[s].result = "none"
      BY <1>1 DEF StreamInv, Phases
    <3>2. /\ st'[s] \in StreamState /\ SameMessages(st'[s], st[s]) /\ SameVerdicts(st'[s], st[s])
          /\ st'[s].pc = "closing" /\ st'[s].completed = st[s].completed
          /\ st'[s].saving = 0 + 1 /\ st'[s].draft = st[s].draft
          /\ st'[s].finished = st[s].finished
          /\ IF st[s].thread = "running" THEN SameJob(st'[s], st[s]) ELSE Idle(st'[s])
      BY <1>1, <2>1, <2>2, Ending
    <3> QED
      BY <2>2, <3>1, <3>2 DEF Idle, SameJob
  <2>3. CASE st[s].reply # "immediate"
    <3>1. "open" \in Pcs /\ "none" \in Replies
      BY DEF Pcs, Replies
    <3>2. st[s] \in StreamState /\ st'[s] = [st[s] EXCEPT !.pc = "open", !.reply = "none"]
      BY <1>1, <2>3
    <3>3. /\ st'[s] \in StreamState /\ SameMessages(st'[s], st[s]) /\ SameJob(st'[s], st[s])
          /\ SameVerdicts(st'[s], st[s]) /\ SameEvidence(st'[s], st[s])
          /\ st'[s].pc = "open" /\ st'[s].completed = st[s].completed
      BY <3>1, <3>2 DEF StreamState, SameMessages, SameJob, SameVerdicts, SameEvidence
    <3> QED
      BY <1>1, <2>3, <3>3 DEF SameEvidence
  <2> QED
    BY <2>2, <2>3
<1> USE <1>1, <1>2
        DEF outside, SameMessages, SameJob, SameVerdicts, SameReply, SameEvidence
<1>3. Fresh(s)'
  BY DEF Fresh
<1>4. Ordered(s)'
  BY DEF StreamInv, Ordered
<1>5. Phases(s)'
  BY DEF StreamInv, Phases, StreamState, Replies
<1>6. Passing(s)'
  BY DEF StreamInv, Phases, Passing, AllPassed, Inline, StreamState, Replies
<1>7. Verdicts(s)'
  BY DEF StreamInv, Verdicts, Phases
<1>8. Recorded(s)'
  BY DEF StreamInv, Recorded, Phases, Inline, OnDisk
<1>9. Claims(s)'
  BY DEF StreamInv, Claims, Inline, AllPassed
<1>10. Once(s)'
  BY DEF StreamInv, Once
<1>11. ThreadRuns(s)' <=> ThreadRuns(s)
  BY DEF StreamInv, Fresh, Phases, ThreadRuns
<1> HIDE <1>1, <1>2
<1> QED
  BY <1>2, <1>3, <1>4, <1>5, <1>6, <1>7, <1>8, <1>9, <1>10, <1>11 DEF StreamInv

\* The stream is done.
LEMMA CloseKeeps ==
    ASSUME Typed, NEW s \in Streams, StreamInv(s), Close(s)
    PROVE  st'[s] \in StreamState /\ StreamInv(s)' /\ (ThreadRuns(s)' <=> ThreadRuns(s))
<1>1. /\ st[s].pc = "closing" /\ st[s].saving = 0 /\ st'[s] = [st[s] EXCEPT !.pc = "closed"]
      /\ st[s] \in StreamState
      /\ UNCHANGED outside
  BY DEF Close, Update, Typed
<1>2. /\ st'[s] \in StreamState /\ SameMessages(st'[s], st[s]) /\ SameJob(st'[s], st[s])
      /\ SameVerdicts(st'[s], st[s])
      /\ SameEvidence(st'[s], st[s]) /\ st'[s].pc = "closed" /\ st'[s].completed = st[s].completed
  <2>1. "closed" \in Pcs
    BY DEF Pcs
  <2> QED
    BY <1>1, <2>1 DEF StreamState, SameMessages, SameJob, SameVerdicts, SameEvidence
<1> USE <1>1, <1>2
        DEF outside, SameMessages, SameJob, SameVerdicts, SameReply, SameEvidence
<1>3. Fresh(s)'
  BY DEF Fresh
<1>4. Ordered(s)'
  BY DEF StreamInv, Ordered
<1>5. Phases(s)'
  BY DEF StreamInv, Phases
<1>6. Passing(s)'
  BY DEF StreamInv, Passing, Inline, AllPassed
<1>7. Verdicts(s)'
  BY DEF StreamInv, Verdicts
<1>8. Recorded(s)'
  BY DEF StreamInv, Recorded, Inline, OnDisk
<1>9. Claims(s)'
  BY DEF StreamInv, Claims, Inline, AllPassed
<1>10. Once(s)'
  BY DEF StreamInv, Once
<1>11. ThreadRuns(s)' <=> ThreadRuns(s)
  BY DEF StreamInv, Fresh, Phases, ThreadRuns
<1> HIDE <1>1, <1>2
<1> QED
  BY <1>2, <1>3, <1>4, <1>5, <1>6, <1>7, <1>8, <1>9, <1>10, <1>11 DEF StreamInv


-----------------------------------------------------------------------------
(* A step of one stream.                                                    *)

LEMMA OwnStep ==
    ASSUME Typed, NEW s \in Streams, StreamInv(s), Step(s)
    PROVE  st'[s] \in StreamState /\ StreamInv(s)'
  BY OpenKeeps, EnterKeeps, LeaveKeeps, ReceiveKeeps, RejectKeeps, StartJobKeeps, EndJobKeeps,
     ResumeRequestKeeps, ResumeMetadataKeeps, ResumeResponseKeeps, SaveBeginKeeps,
     SaveSkipKeeps, SaveOkKeeps, SaveFailKeeps, ReplyKeeps, CloseKeeps
  DEF Step, Work, Resume, Save, Modes

LEMMA Updated ==
    ASSUME Typed, NEW s \in Streams, NEW r, Update(s, r)
    PROVE  /\ \A t \in Streams \ {s} : st'[t] = st[t]
           /\ st'[s] \in StreamState => st' \in [Streams -> StreamState]
  BY DEF Typed, Update

\* No step touches another stream.
OnlyFor(s) ==
    /\ \A t \in Streams \ {s} :
         /\ st'[t] = st[t] /\ passed'[t] = passed[t] /\ final'[t] = final[t]
         /\ events'[t] = events[t]
         /\ (t \in forwarded') <=> (t \in forwarded)
         /\ (t \in failed') <=> (t \in failed)
    /\ st'[s] \in StreamState => st' \in [Streams -> StreamState]
    /\ passed' \in [Streams -> SUBSET Jobs] /\ final' \in [Streams -> Replies]
    /\ events' \in [Streams -> Seq(Records)]
    /\ forwarded' \subseteq Streams /\ failed' \subseteq Streams

LEMMA OtherStreams ==
    ASSUME Typed, NEW s \in Streams, StreamInv(s), Step(s)
    PROVE  OnlyFor(s)
<1> USE DEF OnlyFor, outside
<1>1. ASSUME NEW mode \in {"inline", "mirror"}, Open(s, mode) PROVE OnlyFor(s)
  BY <1>1, Updated DEF Open, Typed
<1>2. CASE Enter(s) \/ HalfClose(s) \/ Leave(s)
  BY <1>2, Updated DEF Enter, HalfClose, Leave, Typed
<1>3. ASSUME NEW kind \in Kinds, NEW flag \in BOOLEAN,
             Receive(s, kind, flag) \/ Reject(s, kind, flag)
      PROVE  OnlyFor(s)
  BY <1>3, Updated DEF Receive, Reject, Typed
<1>4. CASE StartJob(s)
  BY <1>4, Updated DEF StartJob, Typed
<1>5. ASSUME NEW result \in {"allow", "block", "error"}, EndJob(s, result) PROVE OnlyFor(s)
  <2>1. st[s].job \in Jobs
    BY <1>5 DEF EndJob, StreamInv, Phases, Typed, StreamState, JobOrNone
  <2> QED
    BY <1>5, <2>1, Updated DEF EndJob, Typed
<1>6. CASE ResumeRequest(s)
  BY <1>6, Updated DEF ResumeRequest, Typed
<1>7. CASE ResumeMetadata(s) \/ ResumeResponse(s)
  BY <1>7, Updated DEF ResumeMetadata, ResumeResponse, Typed
<1>8. CASE SaveBegin(s) \/ SaveSkip(s)
  BY <1>8, Updated DEF SaveBegin, SaveSkip, Typed
<1>9. ASSUME st[s].draft # "none" PROVE Append(events[s], Record(s)) \in Seq(Records)
  <2>1. Record(s) \in Records /\ events[s] \in Seq(Records)
    BY <1>9, RecordTyped DEF Typed
  <2> QED
    BY <2>1
<1>10. CASE SaveOk(s)
  BY <1>9, <1>10, Updated DEF SaveOk, Typed
<1>11. ASSUME NEW written \in BOOLEAN, SaveFail(s, written) PROVE OnlyFor(s)
  BY <1>9, <1>11, Updated DEF SaveFail, Typed
<1>12. CASE Reply(s)
  <2>1. st[s].reply \in Replies
    BY DEF Typed, StreamState
  <2> QED
    BY <1>12, <2>1, Updated DEF Reply, Typed
<1>13. CASE Close(s)
  BY <1>13, Updated DEF Close, Typed
<1> HIDE DEF OnlyFor
<1> QED
  BY <1>1, <1>2, <1>3, <1>4, <1>5, <1>6, <1>7, <1>8, <1>10, <1>11, <1>12, <1>13
  DEF Step, Work, Resume, Save

\* Threads start on a free slot and give it back when they end, whoever waits.
LEMMA SlotStep ==
    ASSUME Typed, NEW s \in Streams, StreamInv(s), Step(s)
    PROVE  \/ free' = free /\ (ThreadRuns(s)' <=> ThreadRuns(s))
           \/ free > 0 /\ free' = free - 1 /\ ~ThreadRuns(s) /\ ThreadRuns(s)'
           \/ free' = free + 1 /\ ThreadRuns(s) /\ ~ThreadRuns(s)'
<1>1. CASE StartJob(s)
  BY <1>1, StartJobKeeps DEF StartJob, ThreadRuns
<1>2. CASE \E result \in {"allow", "block", "error"} : EndJob(s, result)
  BY <1>2, EndJobKeeps DEF EndJob, ThreadRuns
<1>3. CASE ~StartJob(s) /\ ~\E result \in {"allow", "block", "error"} : EndJob(s, result)
  <2>1. free' = free
    BY <1>3 DEF Step, Work, Resume, Save, Open, Enter, HalfClose, Leave, Receive, Reject,
       ResumeRequest, ResumeMetadata, ResumeResponse, SaveBegin, SaveSkip, SaveOk, SaveFail,
       Reply, Close
  <2>2. ThreadRuns(s)' <=> ThreadRuns(s)
    BY <1>3, OpenKeeps, EnterKeeps, LeaveKeeps, ReceiveKeeps, RejectKeeps,
       ResumeRequestKeeps, ResumeMetadataKeeps, ResumeResponseKeeps, SaveBeginKeeps,
       SaveSkipKeeps, SaveOkKeeps, SaveFailKeeps, ReplyKeeps, CloseKeeps
    DEF Step, Work, Resume, Save, Modes
  <2> QED
    BY <2>1, <2>2
<1> QED
  BY <1>1, <1>2, <1>3

-----------------------------------------------------------------------------
(* The invariant.                                                           *)

LEMMA InvariantInit ==
    ASSUME SlotAssumption, Init
    PROVE  IInv
<1>1. Off \in StreamState
  <2>1. /\ "off" \in Pcs /\ "inline" \in Modes /\ {} \in Seen /\ "none" \in JobOrNone
        /\ "idle" \in Threads /\ "none" \in Found /\ "none" \in Judged
        /\ "not_confirmed" \in Upstreams /\ "none" \in Replies /\ 0 \in Attempts
        /\ "none" \in Drafts
    BY DEF Pcs, Modes, Seen, JobOrNone, Threads, Found, Judged, Upstreams, Replies, Attempts,
       Drafts
  <2> QED
    BY <2>1 DEF Off, StreamState
<1>2. Typed
  <2>1. "none" \in Replies /\ <<>> \in Seq(Records)
    BY DEF Replies
  <2> QED
    BY <1>1, <2>1 DEF Init, Typed
<1>3. SlotsTaken
  <2>1. Running = {}
    BY DEF Init, Off, Running
  <2> QED
    BY <2>1, FS_EmptySet DEF SlotsTaken, SlotAssumption, Init
<1>4. ASSUME NEW s \in Streams PROVE StreamInv(s)
  <2>1. /\ st[s].pc = "off" /\ st[s].seen = {} /\ st[s].job = "none" /\ st[s].thread = "idle"
        /\ st[s].result = "none" /\ st[s].verdict = "none" /\ st[s].response = "none"
        /\ st[s].upstream = "not_confirmed" /\ ~st[s].completed /\ ~st[s].finished
        /\ st[s].saving = 0 /\ st[s].draft = "none"
        /\ passed[s] = {} /\ final[s] = "none" /\ events[s] = <<>>
        /\ s \notin forwarded /\ s \notin failed
    BY DEF Init, Off
  <2>2. Fresh(s) /\ Ordered(s) /\ Phases(s)
    BY <2>1 DEF Fresh, Ordered, Phases
  <2>3. Passing(s) /\ Verdicts(s) /\ Recorded(s)
    BY <2>1 DEF Passing, Verdicts, Recorded
  <2>4. Claims(s) /\ Once(s)
    BY <2>1 DEF Claims, Once
  <2> QED
    BY <2>2, <2>3, <2>4 DEF StreamInv
<1> QED
  BY <1>2, <1>3, <1>4 DEF IInv

LEMMA InvariantStep ==
    ASSUME IInv, [Next]_vars
    PROVE  IInv'
<1>1. CASE UNCHANGED vars
  <2>1. Typed' /\ SlotsTaken'
    BY <1>1 DEF IInv, Typed, SlotsTaken, Running, vars
  <2>2. ASSUME NEW t \in Streams PROVE StreamInv(t)'
    BY <1>1, Untouched DEF IInv, vars
  <2> QED
    BY <2>1, <2>2 DEF IInv
<1>2. CASE Next
  <2>1. PICK s \in Streams : Step(s)
    BY <1>2 DEF Next
  <2>2. Typed /\ StreamInv(s) /\ SlotsTaken
    BY DEF IInv
  <2>3. st'[s] \in StreamState /\ StreamInv(s)' /\ OnlyFor(s)
    BY <2>1, <2>2, OwnStep, OtherStreams
  <2>4. Typed'
    BY <2>3 DEF OnlyFor, Typed
  <2>5. ASSUME NEW t \in Streams PROVE StreamInv(t)'
    <3>1. CASE t = s
      BY <2>3, <3>1
    <3>2. CASE t # s
      BY <2>3, <3>2, Untouched DEF IInv, OnlyFor
    <3> QED
      BY <3>1, <3>2
  <2>6. SlotsTaken'
    <3>1. \A t \in Streams \ {s} : st'[t] = st[t]
      BY <2>3 DEF OnlyFor
    <3>2. CASE free' = free /\ (ThreadRuns(s)' <=> ThreadRuns(s))
      <4>1. Running' = Running
        BY <3>1, <3>2 DEF Running, ThreadRuns
      <4> QED
        BY <2>2, <3>2, <4>1 DEF SlotsTaken
    <3>3. CASE free > 0 /\ free' = free - 1 /\ ~ThreadRuns(s) /\ ThreadRuns(s)'
      <4>1. Running' = Running \cup {s} /\ s \notin Running
        BY <3>1, <3>3 DEF Running, ThreadRuns
      <4>2. IsFiniteSet(Running') /\ Cardinality(Running') = Cardinality(Running) + 1
        BY <2>2, <4>1, FS_AddElement DEF SlotsTaken
      <4>3. Cardinality(Running) \in Nat /\ free \in Nat
        BY <2>2, FS_CardinalityType DEF SlotsTaken
      <4> QED
        BY <2>2, <3>3, <4>2, <4>3 DEF SlotsTaken
    <3>4. CASE free' = free + 1 /\ ThreadRuns(s) /\ ~ThreadRuns(s)'
      <4>1. Running' = Running \ {s} /\ s \in Running
        BY <3>1, <3>4 DEF Running, ThreadRuns
      <4>2. IsFiniteSet(Running') /\ Cardinality(Running') = Cardinality(Running) - 1
        BY <2>2, <4>1, FS_RemoveElement DEF SlotsTaken
      <4>3. Cardinality(Running) \in Nat /\ free \in Nat
        BY <2>2, FS_CardinalityType DEF SlotsTaken
      <4> QED
        BY <2>2, <3>4, <4>2, <4>3 DEF SlotsTaken
    <3> QED
      BY <2>1, <2>2, <3>2, <3>3, <3>4, SlotStep
  <2> QED
    BY <2>4, <2>5, <2>6 DEF IInv
<1> QED
  BY <1>1, <1>2

\* The invariant holds for every number of streams, slots and failing writes.
THEOREM InvariantHolds == Spec => []IInv
<1>1. Init => IInv
  BY InvariantInit, SlotAssumption
<1>2. IInv /\ [Next]_vars => IInv'
  BY InvariantStep
<1> QED
  BY <1>1, <1>2, PTL DEF Spec

-----------------------------------------------------------------------------
(* What the runs check, for every value of the constants.                   *)

\* InspectionWorkers: every worker slot is free or held by a thread that still runs,
\* also when its caller was cancelled ("Timeout does not release a worker slot"), and
\* no stream ever persists more than twice at a time.
THEOREM WorkerSlotsAreConserved == Spec => []TypeOK
<1>1. IInv => TypeOK
  <2> SUFFICES ASSUME IInv PROVE TypeOK
    OBVIOUS
  <2>1. ASSUME NEW s \in Streams
        PROVE  /\ st[s].pc \in {"off", "queued", "open", "await", "finish", "closing", "closed"}
               /\ st[s].thread \in {"idle", "queued", "running", "done"}
               /\ st[s].saving \in 0 .. 2
               /\ passed[s] \subseteq Jobs
               /\ final[s] \in {"none", "deliver", "immediate"}
    BY DEF IInv, Typed, StreamState, Pcs, Threads, Attempts, Replies
  <2>2. free = WorkerSlots - Cardinality(Running)
    <3>1. Cardinality(Running) \in Nat /\ WorkerSlots \in Nat
      BY FS_CardinalityType, SlotAssumption DEF IInv, SlotsTaken, SlotAssumption
    <3> QED
      BY <3>1 DEF IInv, SlotsTaken
  <2> QED
    BY <2>1, <2>2 DEF IInv, Typed, TypeOK
<1> QED
  BY <1>1, InvariantHolds, PTL

\* Process, respond_body: a request goes upstream only after its inspection, an answer
\* goes to the client only after those of its request, its headers and its body.
THEOREM NothingPassesUninspected == Spec => []InspectedBeforeRelease
<1>1. IInv => InspectedBeforeRelease
  BY DEF IInv, StreamInv, Passing, AllPassed, InspectedBeforeRelease
<1> QED
  BY <1>1, InvariantHolds, PTL

\* ConsoleProcessor.Process: when Envoy has its final reply, a record on disk says the
\* same, in spite of failing writes and of the attempts to persist racing each other.
THEOREM EvidenceComesFirst == Spec => []RepliesAreRecorded
<1>1. IInv => RepliesAreRecorded
  <2> SUFFICES ASSUME IInv, NEW s \in Streams, Inline(s), final[s] # "none"
               PROVE  \E i \in DOMAIN events[s] :
                        /\ events[s][i].action = IF final[s] = "deliver" THEN "allow" ELSE "block"
                        /\ events[s][i].enforced
    BY DEF RepliesAreRecorded
  <2>1. OnDisk(s, final[s])
    BY DEF IInv, StreamInv, Recorded
  <2> QED
    BY <2>1 DEF OnDisk, Matching
<1> QED
  BY <1>1, InvariantHolds, PTL

\* StreamInspection.persist: a record claims no inspection that did not pass, no refusal
\* that Envoy did not get and no destination that did not answer.
THEOREM RecordsNeverOverclaim == Spec => []NeverOverclaims
<1>1. IInv => NeverOverclaims
  <2> SUFFICES ASSUME IInv, NEW s \in Streams, NEW i \in DOMAIN events[s]
               PROVE  /\ (Inline(s) /\ events[s][i].action = "allow") =>
                           /\ {"request", "metadata"} \subseteq passed[s]
                           /\ "response" \in passed[s] \/ st[s].noBody
                      /\ events[s][i].upstream = "not_forwarded" => s \notin forwarded
                      /\ events[s][i].upstream = "received" => "response_headers" \in st[s].seen
    BY DEF NeverOverclaims
  <2>1. Claims(s)
    BY DEF IInv, StreamInv
  <2> QED
    BY <2>1 DEF Claims, AllPassed
<1> QED
  BY <1>1, InvariantHolds, PTL

\* StreamInspection.finish: exactly one record for every stream that ended, unless the
\* spool raised for it.
THEOREM EachStreamIsRecordedOnce == Spec => []RecordedOnce
<1>1. IInv => RecordedOnce
  <2> SUFFICES ASSUME IInv, NEW s \in Streams \ failed
               PROVE  Len(events[s]) <= 1 /\ (st[s].pc = "closed" => Len(events[s]) = 1)
    BY DEF RecordedOnce
  <2>1. Len(events[s]) = IF st[s].finished THEN 1 ELSE 0
    BY DEF IInv, StreamInv, Once
  <2>2. st[s].pc = "closed" => st[s].finished
    BY DEF IInv, StreamInv, Once
  <2>3. Len(events[s]) \in {0, 1}
    BY <2>1
  <2> QED
    BY <2>1, <2>2, <2>3
<1> QED
  BY <1>1, InvariantHolds, PTL

=============================================================================
