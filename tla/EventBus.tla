------------------------------ MODULE EventBus ------------------------------
(***************************************************************************)
(* The typed event bus of the platform kernel                              *)
(* (apps/api/src/platform/kernel/event-bus.ts) with its two delivery       *)
(* tiers: the in-process fan-out and the reliable tier, in which a row of  *)
(* the outbox collection is relayed to a BullMQ queue and every consumer   *)
(* is guarded by a marker in processed_events.                             *)
(*                                                                         *)
(* A handler is named by its place in the subscription list of its event:  *)
(* subscribe() appends and refuses a duplicate handlerId, so the place is  *)
(* as good as the handlerId.                                               *)
(***************************************************************************)
EXTENDS Integers, FiniteSets

CONSTANTS
  Events,       \* the envelopes that may be emitted, by envelope id
  Reliable,     \* those emitted with options.reliable
  NSubs,        \* NSubs[e]: number of subscriptions to the name of e
  Relays,       \* executions of relayOutbox that may overlap
  BatchLimit,   \* rows one relay reads (100 in the code)
  MaxAttempts,  \* DEFAULT_ATTEMPTS of the queue (5 in the code)
  Faults,       \* which faults the environment may inject
  MaxFaults,    \* bound: how many faults a behaviour has
  MaxJobs       \* bound: dispatch jobs ever added to the queue

FaultKinds == {"enqueue", "marker", "handler", "crash"}

ASSUME BusAssumption ==
  /\ Events # {}
  /\ Reliable \subseteq Events
  /\ NSubs \in [Events -> Nat]
  /\ BatchLimit \in Nat \ {0}
  /\ MaxAttempts \in Nat \ {0}
  /\ Faults \subseteq FaultKinds
  /\ MaxFaults \in Nat
  /\ MaxJobs \in Nat

VARIABLES
  emitted,    \* history: the envelope ids drawn so far
  outbox,     \* outbox[e]: status of the outbox row of e, "none" before it
  inflight,   \* in-process handler calls not yet run: <<event, handler>>
  relay,      \* relay[r]: the rows left of r's snapshot and its next step
  njobs,      \* number of dispatch jobs ever enqueued
  jobs,       \* jobs[j]: the dispatch job with id j
  processed,  \* the markers in processed_events: <<event, handler>>
  handled,    \* history: completed runs of each handler of each event
  faults      \* number of faults so far

vars == <<emitted, outbox, inflight, relay, njobs, jobs, processed, handled, faults>>

JobIds == 1..MaxJobs
Subs(e) == 1..NSubs[e]
Markers == UNION {{e} \X Subs(e) : e \in Events}

JobStates == {"free", "waiting", "active", "completed", "failed"}
Job == [event : Events, state : JobStates, pos : Nat,
        phase : {"mark", "handle"}, tries : Nat]
RelayState == [step : {"idle", "enqueue", "mark"}, todo : SUBSET Events,
               row : Events]

AnyEvent == CHOOSE e \in Events : TRUE

Init ==
  /\ emitted = {}
  /\ outbox = [e \in Events |-> "none"]
  /\ inflight = {}
  /\ relay = [r \in Relays |->
                [step |-> "idle", todo |-> {}, row |-> AnyEvent]]
  /\ njobs = 0
  /\ jobs = [j \in JobIds |-> [event |-> AnyEvent, state |-> "free",
                               pos |-> 1, phase |-> "mark", tries |-> 0]]
  /\ processed = {}
  /\ handled = [m \in Markers |-> 0]
  /\ faults = 0

\* One more fault of kind k happens.
Fault(k) ==
  /\ k \in Faults
  /\ faults < MaxFaults
  /\ faults' = faults + 1

-----------------------------------------------------------------------------
(***************************************************************************)
(* Emission.                                                               *)
(***************************************************************************)

\* emit(..., { reliable: true, session }): the row commits with the
\* transaction of the emitting service.  An aborted or retried transaction
\* leaves no row, and its envelope id is never seen again.
EmitReliable(e) ==
  /\ e \in Reliable
  /\ e \notin emitted
  /\ emitted' = emitted \cup {e}
  /\ outbox' = [outbox EXCEPT ![e] = "pending"]
  /\ UNCHANGED <<inflight, relay, njobs, jobs, processed, handled, faults>>

\* emit(...) on the in-process tier: one microtask per subscription.
EmitInProcess(e) ==
  /\ e \in Events \ Reliable
  /\ e \notin emitted
  /\ emitted' = emitted \cup {e}
  /\ inflight' = inflight \cup {<<e, h>> : h \in Subs(e)}
  /\ UNCHANGED <<outbox, relay, njobs, jobs, processed, handled, faults>>

RunInProcess(e, h) ==
  /\ <<e, h>> \in inflight
  /\ inflight' = inflight \ {<<e, h>>}
  /\ handled' = [handled EXCEPT ![<<e, h>>] = @ + 1]
  /\ UNCHANGED <<emitted, outbox, relay, njobs, jobs, processed, faults>>

\* The handler rejects: the error is logged and the call is gone.
InProcessThrows(e, h) ==
  /\ <<e, h>> \in inflight
  /\ Fault("handler")
  /\ inflight' = inflight \ {<<e, h>>}
  /\ UNCHANGED <<emitted, outbox, relay, njobs, jobs, processed, handled>>

\* The API process dies: what it had not run yet is gone.
ApiCrash ==
  /\ inflight # {}
  /\ Fault("crash")
  /\ inflight' = {}
  /\ UNCHANGED <<emitted, outbox, relay, njobs, jobs, processed, handled>>

-----------------------------------------------------------------------------
(***************************************************************************)
(* relayOutbox(), run by the nudge after a commit and by the sweep of the  *)
(* scheduler; executions overlap.                                          *)
(***************************************************************************)

Pending == {e \in Events : outbox[e] = "pending"}

\* Mutant: the relay reads the rows of another status.
RelayStartWrongStatus(r) ==
  /\ relay[r].step = "idle"
  /\ relay' = [relay EXCEPT ![r].step = "enqueue",
                            ![r].todo = {e \in Events : outbox[e] = "dispatched"}]
  /\ UNCHANGED <<emitted, outbox, inflight, njobs, jobs, processed, handled, faults>>

\* The snapshot: at most BatchLimit of the pending rows.  The order is by
\* occurredAt, which says nothing about the order of the commits, so any
\* order is possible.
RelayStart(r) ==
  /\ relay[r].step = "idle"
  /\ \E S \in SUBSET Pending :
       /\ \/ S = Pending /\ Cardinality(S) <= BatchLimit
          \/ Cardinality(S) = BatchLimit
       /\ relay' = [relay EXCEPT ![r].step = "enqueue", ![r].todo = S]
  /\ UNCHANGED <<emitted, outbox, inflight, njobs, jobs, processed, handled, faults>>

AddJob(e) ==
  /\ njobs < MaxJobs
  /\ njobs' = njobs + 1
  /\ jobs' = [jobs EXCEPT ![njobs + 1] =
                [event |-> e, state |-> "waiting", pos |-> 1,
                 phase |-> "mark", tries |-> 0]]

\* await enqueue('outbox', OUTBOX_DISPATCH_JOB, envelope)
RelayEnqueue(r) ==
  /\ relay[r].step = "enqueue"
  /\ \E e \in relay[r].todo :
       /\ AddJob(e)
       /\ relay' = [relay EXCEPT ![r].step = "mark", ![r].row = e]
  /\ UNCHANGED <<emitted, outbox, inflight, processed, handled, faults>>

\* updateOne({ _id }, { $set: { status: 'dispatched' } }), whatever the
\* status of the row has become since the snapshot.
RelayMark(r) ==
  /\ relay[r].step = "mark"
  /\ outbox' = [outbox EXCEPT ![relay[r].row] = "dispatched"]
  /\ relay' = [relay EXCEPT ![r].step = "enqueue",
                            ![r].todo = @ \ {relay[r].row}]
  /\ UNCHANGED <<emitted, inflight, njobs, jobs, processed, handled, faults>>

RelayFinish(r) ==
  /\ relay[r].step = "enqueue"
  /\ relay[r].todo = {}
  /\ relay' = [relay EXCEPT ![r].step = "idle"]
  /\ UNCHANGED <<emitted, outbox, inflight, njobs, jobs, processed, handled, faults>>

\* Mutant: the failure of enqueue is caught and the row is marked anyway.
RelayEnqueueFailsSwallowed(r) ==
  /\ relay[r].step = "enqueue"
  /\ Fault("enqueue")
  /\ \E e \in relay[r].todo :
       relay' = [relay EXCEPT ![r].step = "mark", ![r].row = e]
  /\ UNCHANGED <<emitted, outbox, inflight, njobs, jobs, processed, handled>>

\* The queue is unreachable: enqueue throws, the relay run ends there.
RelayEnqueueFails(r) ==
  /\ relay[r].step = "enqueue"
  /\ relay[r].todo # {}
  /\ Fault("enqueue")
  /\ relay' = [relay EXCEPT ![r].step = "idle", ![r].todo = {}]
  /\ UNCHANGED <<emitted, outbox, inflight, njobs, jobs, processed, handled>>

\* The process running the relay dies between two of its steps.
RelayCrash(r) ==
  /\ relay[r].step # "idle"
  /\ Fault("crash")
  /\ relay' = [relay EXCEPT ![r].step = "idle", ![r].todo = {}]
  /\ UNCHANGED <<emitted, outbox, inflight, njobs, jobs, processed, handled>>

-----------------------------------------------------------------------------
(***************************************************************************)
(* The dispatch job: dispatchReliable() under the queue's retry policy.    *)
(***************************************************************************)

\* Mutant: a failed attempt leaves the job in a state the queue has not.
HandlerThrowsWrongState(j) ==
  /\ jobs[j].state = "active"
  /\ jobs[j].phase = "handle"
  /\ Fault("handler")
  /\ jobs' = [jobs EXCEPT ![j].state = "pending", ![j].tries = @ + 1]
  /\ UNCHANGED <<emitted, outbox, inflight, relay, njobs, processed, handled>>

\* A worker takes the job; every attempt walks the list from its start.
JobStart(j) ==
  /\ jobs[j].state = "waiting"
  /\ jobs' = [jobs EXCEPT ![j].state = "active", ![j].pos = 1,
                          ![j].phase = "mark"]
  /\ UNCHANGED <<emitted, outbox, inflight, relay, njobs, processed, handled, faults>>

\* Job j is about to create the marker of its next handler.
AtMarker(j) ==
  /\ jobs[j].state = "active"
  /\ jobs[j].phase = "mark"
  /\ jobs[j].pos \in Subs(jobs[j].event)

Marker(j) == <<jobs[j].event, jobs[j].pos>>

NextHandler(j) == jobs' = [jobs EXCEPT ![j].phase = "mark", ![j].pos = @ + 1]

\* Mutant: the duplicate-key error of the insert is ignored.
MarkProcessedNoDedup(j) ==
  /\ AtMarker(j)
  /\ processed' = processed \cup {Marker(j)}
  /\ jobs' = [jobs EXCEPT ![j].phase = "handle"]
  /\ UNCHANGED <<emitted, outbox, inflight, relay, njobs, handled, faults>>

\* ProcessedEventModel.create: the marker is new and the handler is called,
\* or it is a duplicate and the handler is skipped.
MarkProcessed(j) ==
  /\ AtMarker(j)
  /\ \/ /\ Marker(j) \notin processed
        /\ processed' = processed \cup {Marker(j)}
        /\ jobs' = [jobs EXCEPT ![j].phase = "handle"]
     \/ /\ Marker(j) \in processed
        /\ NextHandler(j)
        /\ UNCHANGED processed
  /\ UNCHANGED <<emitted, outbox, inflight, relay, njobs, handled, faults>>

\* Any other error of that insert lands in the same catch and skips the
\* handler too, whether or not the marker reached the database.
MarkerFails(j) ==
  /\ AtMarker(j)
  /\ Fault("marker")
  /\ NextHandler(j)
  /\ processed' \in {processed, processed \cup {Marker(j)}}
  /\ UNCHANGED <<emitted, outbox, inflight, relay, njobs, handled>>

RunHandler(j) ==
  /\ jobs[j].state = "active"
  /\ jobs[j].phase = "handle"
  /\ handled' = [handled EXCEPT ![Marker(j)] = @ + 1]
  /\ NextHandler(j)
  /\ UNCHANGED <<emitted, outbox, inflight, relay, njobs, processed, faults>>

\* The handler rejects: the attempt fails, and the queue retries the job
\* until its attempts are spent.
HandlerThrows(j) ==
  /\ jobs[j].state = "active"
  /\ jobs[j].phase = "handle"
  /\ Fault("handler")
  /\ jobs' = [jobs EXCEPT
                ![j].state = IF jobs[j].tries + 1 < MaxAttempts
                               THEN "waiting" ELSE "failed",
                ![j].phase = "mark",
                ![j].tries = @ + 1]
  /\ UNCHANGED <<emitted, outbox, inflight, relay, njobs, processed, handled>>

\* The worker dies: the queue finds the job stalled and hands it out again,
\* or gives it up.
WorkerCrash(j) ==
  /\ jobs[j].state = "active"
  /\ Fault("crash")
  /\ \E s \in {"waiting", "failed"} :
       jobs' = [jobs EXCEPT ![j].state = s, ![j].phase = "mark"]
  /\ UNCHANGED <<emitted, outbox, inflight, relay, njobs, processed, handled>>

\* Mutant: the walk over the subscriptions stops one short.
JobCompleteOneShort(j) ==
  /\ jobs[j].state = "active"
  /\ jobs[j].phase = "mark"
  /\ jobs[j].pos = NSubs[jobs[j].event]
  /\ jobs' = [jobs EXCEPT ![j].state = "completed"]
  /\ UNCHANGED <<emitted, outbox, inflight, relay, njobs, processed, handled, faults>>

\* Every subscription has been walked: the job is done.
JobComplete(j) ==
  /\ jobs[j].state = "active"
  /\ jobs[j].phase = "mark"
  /\ jobs[j].pos = NSubs[jobs[j].event] + 1
  /\ jobs' = [jobs EXCEPT ![j].state = "completed"]
  /\ UNCHANGED <<emitted, outbox, inflight, relay, njobs, processed, handled, faults>>

\* No relay and no job will touch event e any more.
Settled(e) ==
  /\ outbox[e] = "dispatched"
  /\ \A r \in Relays : e \notin relay[r].todo
  /\ \A j \in JobIds :
       jobs[j].event = e => jobs[j].state \notin {"waiting", "active"}

\* The TTL index of processed_events removes a marker after 30 days: far
\* longer than a snapshot or a retry lives, hence the guard.
ExpireMarker(e, h) ==
  /\ <<e, h>> \in processed
  /\ Settled(e)
  /\ processed' = processed \ {<<e, h>>}
  /\ UNCHANGED <<emitted, outbox, inflight, relay, njobs, jobs, handled, faults>>

-----------------------------------------------------------------------------
RelayNext(r) ==
  \/ RelayStart(r) \/ RelayEnqueue(r) \/ RelayMark(r) \/ RelayFinish(r)

JobNext(j) ==
  \/ JobStart(j) \/ MarkProcessed(j) \/ RunHandler(j) \/ JobComplete(j)

Next ==
  \/ \E e \in Events : EmitReliable(e) \/ EmitInProcess(e)
  \/ \E e \in Events : \E h \in Subs(e) :
       RunInProcess(e, h) \/ InProcessThrows(e, h) \/ ExpireMarker(e, h)
  \/ ApiCrash
  \/ \E r \in Relays :
       RelayNext(r) \/ RelayEnqueueFails(r) \/ RelayCrash(r)
  \/ \E j \in JobIds :
       JobNext(j) \/ MarkerFails(j) \/ HandlerThrows(j) \/ WorkerCrash(j)

\* The scheduler runs the sweep every minute and the workers keep taking
\* jobs; nothing obliges a service to emit.
Fairness ==
  /\ \A r \in Relays : WF_vars(RelayNext(r))
  /\ \A j \in JobIds : WF_vars(JobNext(j))

Spec == Init /\ [][Next]_vars
FairSpec == Spec /\ Fairness

-----------------------------------------------------------------------------
(***************************************************************************)
(* Properties.                                                             *)
(***************************************************************************)

\* The collections and the queue hold what their schemas say.
TypeOK ==
  /\ emitted \subseteq Events
  /\ outbox \in [Events -> {"none", "pending", "dispatched"}]
  /\ inflight \subseteq Markers
  /\ relay \in [Relays -> RelayState]
  /\ njobs \in 0..MaxJobs
  /\ jobs \in [JobIds -> Job]
  /\ processed \subseteq Markers
  /\ handled \in [Markers -> Nat]
  /\ faults \in Nat

\* "Consumers are idempotent (event ID dedup)": overlapping relays, retries
\* and redelivered jobs never run a handler of an event to its end twice.
AtMostOnce == \A m \in Markers : handled[m] <= 1

\* relayOutbox enqueues before it marks: a row that no relay will read again
\* has a job, whatever crashed on the way.
DispatchedHasJob ==
  \A e \in Events : outbox[e] = "dispatched" =>
    \E j \in JobIds : jobs[j].event = e /\ jobs[j].state # "free"

\* Once every job of an event has completed (none failed, none still to
\* run), every handler of it has run: "At-least-once delivery with
\* transactional emission for business-critical events" (ADR-008).
AtLeastOnce ==
  \A e \in Events :
    Settled(e) /\ (\A j \in JobIds : jobs[j].event = e =>
                                       jobs[j].state # "failed")
      => \A h \in Subs(e) : handled[<<e, h>>] >= 1

\* The same where nothing failed: overlapping relays and duplicate jobs
\* alone lose no handler call, although each job walks the list by itself
\* and skips what another has marked.
FaultFreeDelivery == faults = 0 => AtLeastOnce

\* Every committed outbox row is eventually carried by a job to the end of
\* its subscription list, or to the failed set an operator sees.
EventuallySettled ==
  \A e \in Events : outbox[e] = "pending" ~>
    /\ Settled(e)
    /\ \E j \in JobIds :
         jobs[j].event = e /\ jobs[j].state \in {"completed", "failed"}

=============================================================================
