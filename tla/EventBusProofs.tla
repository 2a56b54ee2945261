--------------------------- MODULE EventBusProofs ---------------------------
(***************************************************************************)
(* Proofs about EventBus for every set of events, every subscription list, *)
(* any number of overlapping relays, jobs and faults.                      *)
(***************************************************************************)
EXTENDS EventBus, TLAPS

Handling(j) == jobs[j].state = "active" /\ jobs[j].phase = "handle"

\* Only reliable events reach the outbox, the relays and the queue.
TierInv ==
  /\ \A e \in Events : outbox[e] # "none" => e \in Reliable
  /\ \A r \in Relays : \A e \in relay[r].todo : outbox[e] # "none"
  /\ \A r \in Relays : relay[r].step = "mark" => relay[r].row \in relay[r].todo
  /\ \A j \in JobIds :
       jobs[j].state # "free" => outbox[jobs[j].event] # "none"

\* A call of the in-process tier that is still to run has never run.
InProcessInv ==
  \A m \in inflight :
    m[1] \notin Reliable /\ m[1] \in emitted /\ handled[m] = 0

\* A job that is inside a handler holds the marker, alone, and the handler
\* has not run before.
HandlingInv ==
  \A j \in JobIds : Handling(j) =>
    /\ Marker(j) \in processed
    /\ handled[Marker(j)] = 0
    /\ \A i \in JobIds : Handling(i) /\ Marker(i) = Marker(j) => i = j

\* A handler that has run can not run again: its marker is there, or nothing
\* is left that could call it.
DoneInv ==
  \A m \in Markers : handled[m] # 0 =>
    /\ handled[m] = 1
    /\ m[1] \in emitted
    /\ m[1] \in Reliable => m \in processed \/ Settled(m[1])

\* An outbox row belongs to an event that was emitted.
RowInv == \A e \in Events : outbox[e] # "none" => e \in emitted

DeliveryInv ==
  TypeOK /\ TierInv /\ RowInv /\ InProcessInv /\ HandlingInv /\ DoneInv
-----------------------------------------------------------------------------
LEMMA InitDelivery == Init => DeliveryInv
<1> SUFFICES ASSUME Init PROVE DeliveryInv
  OBVIOUS
<1>0. AnyEvent \in Events
  BY BusAssumption DEF AnyEvent
<1>1. TypeOK
  BY <1>0, BusAssumption
  DEF Init, TypeOK, Markers, RelayState, Job, JobStates, JobIds
<1>2. TierInv /\ RowInv /\ InProcessInv /\ HandlingInv /\ DoneInv
  BY DEF Init, TierInv, RowInv, InProcessInv, HandlingInv, DoneInv, Handling
<1> QED
  BY <1>1, <1>2 DEF DeliveryInv

\* Typing of every action.
LEMMA NextTypeOK == TypeOK /\ [Next]_vars => TypeOK'
<1> SUFFICES ASSUME TypeOK, [Next]_vars PROVE TypeOK'
  OBVIOUS
<1> USE BusAssumption DEF TypeOK
<1>1. ASSUME NEW e \in Events, EmitReliable(e) \/ EmitInProcess(e)
      PROVE  TypeOK'
  BY <1>1 DEF EmitReliable, EmitInProcess, Markers
<1>2. ASSUME NEW e \in Events, NEW h \in Subs(e),
             RunInProcess(e, h) \/ InProcessThrows(e, h) \/ ExpireMarker(e, h)
      PROVE  TypeOK'
  BY <1>2 DEF RunInProcess, InProcessThrows, ExpireMarker, Fault
<1>3. CASE ApiCrash
  BY <1>3 DEF ApiCrash, Fault
<1>4. ASSUME NEW r \in Relays, RelayStart(r) PROVE TypeOK'
  <2>1. PICK S \in SUBSET Pending :
          relay' = [relay EXCEPT ![r].step = "enqueue", ![r].todo = S]
    BY <1>4 DEF RelayStart
  <2>2. S \in SUBSET Events
    BY DEF Pending
  <2>3. relay[r] \in [step : {"idle", "enqueue", "mark"},
                     todo : SUBSET Events, row : Events]
    BY DEF RelayState
  <2>4. [relay[r] EXCEPT !.step = "enqueue", !.todo = S] \in RelayState
    BY <2>2, <2>3 DEF RelayState
  <2>5. relay' \in [Relays -> RelayState]
    BY <2>1, <2>4
  <2> QED
    BY <1>4, <2>5 DEF RelayStart
<1>5. ASSUME NEW r \in Relays, RelayEnqueue(r) PROVE TypeOK'
  <2>1. PICK e \in relay[r].todo :
          /\ AddJob(e)
          /\ relay' = [relay EXCEPT ![r].step = "mark", ![r].row = e]
    BY <1>5 DEF RelayEnqueue
  <2>2. e \in Events
    BY DEF RelayState
  <2>3. relay' \in [Relays -> RelayState]
    <3>1. [relay[r] EXCEPT !.step = "mark", !.row = e] \in RelayState
      BY <2>2 DEF RelayState
    <3> QED
      BY <2>1, <3>1
  <2>4. njobs' \in 0..MaxJobs /\ jobs' \in [JobIds -> Job]
    BY <2>1, <2>2 DEF AddJob, Job, JobStates, JobIds
  <2> QED
    BY <1>5, <2>3, <2>4 DEF RelayEnqueue
<1>6. ASSUME NEW r \in Relays,
             RelayMark(r) \/ RelayFinish(r) \/ RelayEnqueueFails(r) \/ RelayCrash(r)
      PROVE  TypeOK'
  BY <1>6 DEF RelayMark, RelayFinish, RelayEnqueueFails, RelayCrash, Fault, RelayState
<1>7. ASSUME NEW j \in JobIds, JobStart(j) \/ JobComplete(j)
      PROVE  TypeOK'
  BY <1>7 DEF JobStart, JobComplete, Job, JobStates
<1>8. ASSUME NEW j \in JobIds, MarkProcessed(j) \/ MarkerFails(j)
      PROVE  TypeOK'
  <2>1. Marker(j) \in Markers
    BY <1>8 DEF MarkProcessed, MarkerFails, AtMarker, Marker, Markers, Job
  <2>2. processed' \subseteq Markers
    BY <1>8, <2>1 DEF MarkProcessed, MarkerFails
  <2>3. jobs' \in [JobIds -> Job]
    BY <1>8 DEF MarkProcessed, MarkerFails, NextHandler, Job, JobStates
  <2> QED
    BY <1>8, <2>1, <2>2, <2>3 DEF MarkProcessed, MarkerFails, Fault
<1>9. ASSUME NEW j \in JobIds, RunHandler(j)
      PROVE  TypeOK'
  <2>1. jobs' \in [JobIds -> Job]
    BY <1>9 DEF RunHandler, NextHandler, Job, JobStates
  <2>2. handled' \in [Markers -> Nat]
    <3>1. handled' = [handled EXCEPT ![Marker(j)] = handled[Marker(j)] + 1]
      BY <1>9 DEF RunHandler
    <3>2. CASE Marker(j) \in Markers
      BY <3>1, <3>2
    <3>3. CASE Marker(j) \notin Markers
      BY <3>1, <3>3
    <3> QED
      BY <3>2, <3>3
  <2> QED
    BY <1>9, <2>1, <2>2 DEF RunHandler
<1>10. ASSUME NEW j \in JobIds, HandlerThrows(j) \/ WorkerCrash(j)
      PROVE  TypeOK'
  BY <1>10 DEF HandlerThrows, WorkerCrash, Fault, Job, JobStates
<1>11. CASE UNCHANGED vars
  BY <1>11 DEF vars
<1> QED
  BY <1>1, <1>2, <1>3, <1>4, <1>5, <1>6, <1>7, <1>8, <1>9, <1>10, <1>11
  DEF Next, RelayNext, JobNext

\* The outbox, the relays, the queue and the markers hold what their schemas
\* say, in every behaviour.
THEOREM TypeCorrect == Spec => []TypeOK
<1>1. Init => TypeOK
  BY InitDelivery DEF DeliveryInv
<1> QED
  BY <1>1, NextTypeOK, PTL DEF Spec

-----------------------------------------------------------------------------
LEMMA NextDelivery == DeliveryInv /\ [Next]_vars => DeliveryInv'
<1> SUFFICES ASSUME DeliveryInv, [Next]_vars PROVE DeliveryInv'
  OBVIOUS
<1>0. TypeOK'
  BY NextTypeOK DEF DeliveryInv
<1> USE <1>0, BusAssumption DEF DeliveryInv
<1>1. ASSUME NEW e \in Events, EmitReliable(e) PROVE DeliveryInv'
  <2> USE <1>1 DEF EmitReliable
  <2>1. TierInv' /\ RowInv' /\ InProcessInv'
    BY DEF TypeOK, TierInv, RowInv, InProcessInv
  <2>2. HandlingInv'
    BY DEF HandlingInv, Handling, Marker
  <2>3. DoneInv'
    BY DEF DoneInv, Settled, TypeOK, RowInv
  <2> QED
    BY <2>1, <2>2, <2>3
<1>2. ASSUME NEW e \in Events, EmitInProcess(e) PROVE DeliveryInv'
  <2> USE <1>2 DEF EmitInProcess
  <2>1. TierInv' /\ RowInv' /\ HandlingInv'
    BY DEF TypeOK, TierInv, RowInv, HandlingInv, Handling, Marker
  <2>2. InProcessInv'
    <3> SUFFICES ASSUME NEW m \in inflight'
                 PROVE  m[1] \notin Reliable /\ m[1] \in emitted' /\ handled[m] = 0
      BY DEF InProcessInv
    <3>1. CASE m \in inflight
      BY <3>1 DEF InProcessInv
    <3>2. CASE m \notin inflight
      <4>1. PICK h \in Subs(e) : m = <<e, h>>
        BY <3>2
      <4>2. m \in Markers
        BY <4>1 DEF Markers
      <4> QED
        BY <4>1, <4>2 DEF DoneInv
    <3> QED
      BY <3>1, <3>2
  <2>3. DoneInv'
    BY DEF DoneInv, Settled
  <2> QED
    BY <2>1, <2>2, <2>3
<1>3. ASSUME NEW e \in Events, NEW h \in Subs(e), RunInProcess(e, h)
      PROVE  DeliveryInv'
  <2> USE <1>3 DEF RunInProcess
  <2>1. /\ <<e, h>> \in Markers
        /\ e \notin Reliable
        /\ e \in emitted
        /\ handled[<<e, h>>] = 0
    BY DEF InProcessInv, TypeOK
  <2>2. TierInv' /\ RowInv'
    BY DEF TierInv, RowInv
  <2>3. InProcessInv'
    BY <2>1 DEF InProcessInv, TypeOK
  <2>4. HandlingInv'
    <3> SUFFICES ASSUME NEW j \in JobIds, Handling(j)
                 PROVE  handled'[Marker(j)] = 0
      BY DEF HandlingInv, Handling, Marker
    <3>1. jobs[j].event \in Reliable
      BY DEF Handling, TierInv, TypeOK, Job
    <3> QED
      BY <2>1, <3>1 DEF HandlingInv, Marker, TypeOK
  <2>5. DoneInv'
    BY <2>1 DEF DoneInv, Settled, TypeOK
  <2> QED
    BY <2>2, <2>3, <2>4, <2>5
<1>4. ASSUME NEW e \in Events, NEW h \in Subs(e), InProcessThrows(e, h)
      PROVE  DeliveryInv'
  BY <1>4 DEF InProcessThrows, TierInv, RowInv, InProcessInv, HandlingInv,
              Handling, Marker, DoneInv, Settled
<1>5. CASE ApiCrash
  BY <1>5 DEF ApiCrash, TierInv, RowInv, InProcessInv, HandlingInv, Handling,
              Marker, DoneInv, Settled
<1>6. ASSUME NEW e \in Events, NEW h \in Subs(e), ExpireMarker(e, h)
      PROVE  DeliveryInv'
  <2> USE <1>6 DEF ExpireMarker
  <2>1. TierInv' /\ RowInv' /\ InProcessInv'
    BY DEF TierInv, RowInv, InProcessInv
  <2>2. HandlingInv'
    BY DEF HandlingInv, Handling, Marker, Settled
  <2>3. DoneInv'
    BY DEF DoneInv, Settled
  <2> QED
    BY <2>1, <2>2, <2>3
<1>7. ASSUME NEW r \in Relays, RelayStart(r) PROVE DeliveryInv'
  <2> USE <1>7 DEF RelayStart
  <2>1. PICK S \in SUBSET Pending :
          relay' = [relay EXCEPT ![r].step = "enqueue", ![r].todo = S]
    OBVIOUS
  <2>2. TierInv'
    BY <2>1 DEF TierInv, Pending, TypeOK, RelayState
  <2>3. RowInv' /\ InProcessInv' /\ HandlingInv'
    BY DEF RowInv, InProcessInv, HandlingInv, Handling, Marker
  <2>4. ASSUME NEW e \in Events, Settled(e) PROVE Settled(e)'
    BY <2>1, <2>4 DEF Settled, Pending, TypeOK, RelayState
  <2>5. DoneInv'
    BY <2>4 DEF DoneInv, Markers
  <2> QED
    BY <2>2, <2>3, <2>5
<1>8. ASSUME NEW r \in Relays, RelayEnqueue(r) PROVE DeliveryInv'
  <2>1. PICK e \in relay[r].todo :
          /\ AddJob(e)
          /\ relay' = [relay EXCEPT ![r].step = "mark", ![r].row = e]
    BY <1>8 DEF RelayEnqueue
  <2> USE <1>8 DEF RelayEnqueue, AddJob
  <2>2. /\ e \in Events
        /\ njobs + 1 \in JobIds
        /\ jobs'[njobs + 1].state = "waiting"
        /\ jobs'[njobs + 1].event = e
        /\ \A j \in JobIds \ {njobs + 1} : jobs'[j] = jobs[j]
    BY <2>1 DEF TypeOK, JobIds, RelayState
  <2>3. TierInv'
    BY <2>1, <2>2 DEF TierInv, TypeOK, RelayState
  <2>4. RowInv' /\ InProcessInv'
    BY DEF RowInv, InProcessInv
  <2>5. HandlingInv'
    BY <2>2 DEF HandlingInv, Handling, Marker
  <2>6. ASSUME NEW f \in Events, Settled(f) PROVE Settled(f)'
    BY <2>1, <2>2, <2>6 DEF Settled, TypeOK, RelayState
  <2>7. DoneInv'
    BY <2>6 DEF DoneInv, Markers
  <2> QED
    BY <2>3, <2>4, <2>5, <2>7
<1>9. ASSUME NEW r \in Relays, RelayMark(r) PROVE DeliveryInv'
  <2> USE <1>9 DEF RelayMark
  <2>1. relay[r].row \in relay[r].todo /\ relay[r].row \in Events
    BY DEF TierInv, TypeOK, RelayState
  <2>2. TierInv' /\ RowInv'
    BY <2>1 DEF TierInv, RowInv, TypeOK, RelayState
  <2>3. InProcessInv' /\ HandlingInv'
    BY DEF InProcessInv, HandlingInv, Handling, Marker
  <2>4. ASSUME NEW f \in Events, Settled(f) PROVE Settled(f)'
    BY <2>1, <2>4 DEF Settled, TypeOK, RelayState
  <2>5. DoneInv'
    BY <2>4 DEF DoneInv, Markers
  <2> QED
    BY <2>2, <2>3, <2>5
<1>10. ASSUME NEW r \in Relays,
              RelayFinish(r) \/ RelayEnqueueFails(r) \/ RelayCrash(r)
       PROVE  DeliveryInv'
  <2> USE <1>10 DEF RelayFinish, RelayEnqueueFails, RelayCrash, Fault
  <2>1. /\ \A q \in Relays \ {r} : relay'[q] = relay[q]
        /\ relay'[r].step = "idle"
        /\ relay'[r].todo = {}
    BY DEF TypeOK, RelayState
  <2>2. UNCHANGED <<emitted, outbox, inflight, jobs, processed, handled>>
    OBVIOUS
  <2>3. TierInv'
    BY <2>1, <2>2 DEF TierInv
  <2>4. RowInv' /\ InProcessInv' /\ HandlingInv'
    BY <2>2 DEF RowInv, InProcessInv, HandlingInv, Handling, Marker
  <2>5. ASSUME NEW f \in Events, Settled(f) PROVE Settled(f)'
    BY <2>1, <2>2, <2>5 DEF Settled
  <2>6. DoneInv'
    BY <2>2, <2>5 DEF DoneInv, Markers
  <2> QED
    BY <2>3, <2>4, <2>6
<1>11. ASSUME NEW j \in JobIds, JobStart(j) \/ JobComplete(j)
              \/ HandlerThrows(j) \/ WorkerCrash(j)
       PROVE  DeliveryInv'
  <2>1. /\ \A i \in JobIds \ {j} : jobs'[i] = jobs[i]
        /\ jobs'[j].event = jobs[j].event
        /\ jobs[j].state \in {"waiting", "active"}
        /\ ~Handling(j)'
        /\ UNCHANGED <<emitted, outbox, inflight, relay, processed, handled>>
    BY <1>11 DEF JobStart, JobComplete, HandlerThrows, WorkerCrash, Handling,
                 TypeOK, Job
  <2>2. TierInv' /\ RowInv' /\ InProcessInv'
    BY <2>1 DEF TierInv, RowInv, InProcessInv
  <2>3. HandlingInv'
    <3>1. \A i \in JobIds : Handling(i)' => Handling(i) /\ Marker(i)' = Marker(i)
      BY <2>1 DEF Handling, Marker
    <3> QED
      BY <2>1, <3>1 DEF HandlingInv
  <2>4. ASSUME NEW f \in Events, Settled(f) PROVE Settled(f)'
    BY <2>1, <2>4 DEF Settled
  <2>5. DoneInv'
    BY <2>1, <2>4 DEF DoneInv, Markers
  <2> QED
    BY <2>2, <2>3, <2>5
<1>12. ASSUME NEW j \in JobIds, MarkProcessed(j) \/ MarkerFails(j)
       PROVE  DeliveryInv'
  <2>1. /\ \A i \in JobIds \ {j} : jobs'[i] = jobs[i]
        /\ jobs'[j].event = jobs[j].event
        /\ jobs[j].state = "active" /\ jobs'[j].state = "active"
        /\ jobs[j].pos \in Subs(jobs[j].event)
        /\ ~Handling(j)
        /\ processed \subseteq processed'
        /\ UNCHANGED <<emitted, outbox, inflight, relay, handled>>
    BY <1>12 DEF MarkProcessed, MarkerFails, NextHandler, AtMarker, Handling,
                 TypeOK, Job
  <2>2. TierInv' /\ RowInv' /\ InProcessInv'
    BY <2>1 DEF TierInv, RowInv, InProcessInv
  <2>3. Handling(j)' => /\ Marker(j) \notin processed
                        /\ Marker(j) \in processed'
                        /\ Marker(j)' = Marker(j)
    BY <1>12 DEF MarkProcessed, MarkerFails, NextHandler, AtMarker, Handling,
                 Marker, TypeOK, Job
  <2>4. Marker(j) \notin processed => handled[Marker(j)] = 0
    <3>1. Marker(j) \in Markers
      BY <2>1 DEF Marker, Markers, TypeOK, Job
    <3>2. jobs[j].event \in Reliable /\ ~Settled(jobs[j].event)
      BY <2>1 DEF TierInv, TypeOK, Job, Settled
    <3> QED
      BY <3>1, <3>2 DEF DoneInv, Marker
  <2>5. HandlingInv'
    <3>1. \A i \in JobIds \ {j} :
            /\ Handling(i)' <=> Handling(i)
            /\ Marker(i)' = Marker(i)
      BY <2>1 DEF Handling, Marker
    <3>2. ASSUME NEW i \in JobIds, Handling(i), i # j
          PROVE  Marker(i) \in processed /\ handled[Marker(i)] = 0
      BY <3>2 DEF HandlingInv
    <3>3. ASSUME Handling(j)', NEW i \in JobIds, Handling(i)', i # j
          PROVE  Marker(i)' # Marker(j)'
      BY <2>3, <3>1, <3>2, <3>3
    <3>4. ASSUME NEW i \in JobIds, NEW k \in JobIds, Handling(i)', Handling(k)',
                 Marker(i)' = Marker(k)'
          PROVE  i = k
      BY <3>1, <3>3, <3>4 DEF HandlingInv
    <3>5. ASSUME NEW i \in JobIds, Handling(i)'
          PROVE  Marker(i)' \in processed' /\ handled'[Marker(i)'] = 0
      BY <2>1, <2>3, <2>4, <3>1, <3>2, <3>5
    <3> QED
      BY <3>4, <3>5 DEF HandlingInv
  <2>6. ASSUME NEW f \in Events, Settled(f) PROVE Settled(f)'
    BY <2>1, <2>6 DEF Settled
  <2>7. DoneInv'
    BY <2>1, <2>6 DEF DoneInv, Markers
  <2> QED
    BY <2>2, <2>5, <2>7
<1>13. ASSUME NEW j \in JobIds, RunHandler(j) PROVE DeliveryInv'
  <2>1. /\ \A i \in JobIds \ {j} : jobs'[i] = jobs[i]
        /\ jobs'[j].event = jobs[j].event
        /\ jobs[j].state = "active" /\ jobs'[j].state = "active"
        /\ ~Handling(j)'
        /\ UNCHANGED <<emitted, outbox, inflight, relay, processed>>
    BY <1>13 DEF RunHandler, NextHandler, Handling, TypeOK, Job
  <2>2. /\ Handling(j)
        /\ Marker(j) \in processed
        /\ Marker(j) \in Markers
        /\ handled[Marker(j)] = 0
        /\ handled' = [handled EXCEPT ![Marker(j)] = 1]
    <3>1. Handling(j)
      BY <1>13 DEF RunHandler, Handling
    <3>2. Marker(j) \in processed /\ handled[Marker(j)] = 0
      BY <3>1 DEF HandlingInv
    <3>3. handled' = [handled EXCEPT ![Marker(j)] = handled[Marker(j)] + 1]
      BY <1>13 DEF RunHandler
    <3> QED
      BY <3>1, <3>2, <3>3 DEF TypeOK
  <2>3. jobs[j].event \in Reliable /\ jobs[j].event \in emitted
    BY <2>1 DEF TierInv, RowInv, TypeOK, Job
  <2>4. TierInv' /\ RowInv'
    BY <2>1 DEF TierInv, RowInv
  <2>5. InProcessInv'
    BY <2>1, <2>2, <2>3 DEF InProcessInv, Marker, TypeOK
  <2>6. HandlingInv'
    <3>1. \A i \in JobIds : Handling(i)' =>
            i # j /\ Handling(i) /\ Marker(i)' = Marker(i)
      BY <2>1 DEF Handling, Marker
    <3>2. ASSUME NEW i \in JobIds, Handling(i), i # j
          PROVE  Marker(i) # Marker(j) /\ Marker(i) \in Markers
      BY <2>2, <3>2 DEF HandlingInv, TypeOK
    <3>3. ASSUME NEW i \in JobIds, Handling(i), i # j
          PROVE  handled'[Marker(i)] = 0
      BY <2>2, <3>2, <3>3 DEF HandlingInv, TypeOK
    <3> QED
      BY <2>1, <3>1, <3>3 DEF HandlingInv
  <2>7. ASSUME NEW f \in Events, Settled(f) PROVE Settled(f)'
    BY <2>1, <2>7 DEF Settled
  <2>8. DoneInv'
    <3> SUFFICES ASSUME NEW m \in Markers, handled'[m] # 0
                 PROVE  /\ handled'[m] = 1
                        /\ m[1] \in emitted
                        /\ m[1] \in Reliable => m \in processed \/ Settled(m[1])'
      BY <2>1 DEF DoneInv
    <3>1. CASE m = Marker(j)
      BY <2>2, <2>3, <3>1 DEF Marker, TypeOK
    <3>2. CASE m # Marker(j)
      <4>1. handled'[m] = handled[m] /\ m[1] \in Events
        BY <2>2, <3>2 DEF TypeOK, Markers
      <4> QED
        BY <4>1, <2>7 DEF DoneInv
    <3> QED
      BY <3>1, <3>2
  <2> QED
    BY <2>4, <2>5, <2>6, <2>8
<1>14. CASE UNCHANGED vars
  BY <1>14 DEF vars, TierInv, RowInv, InProcessInv, HandlingInv, Handling,
               Marker, DoneInv, Settled
<1> QED
  BY <1>1, <1>2, <1>3, <1>4, <1>5, <1>6, <1>7, <1>8, <1>9, <1>10, <1>11,
     <1>12, <1>13, <1>14
  DEF Next, RelayNext, JobNext

\* No handler of an event runs to its end twice, however many relays overlap
\* and however often the queue delivers the event: the marker of
\* processed_events is taken before the handler is called.
THEOREM HandlersRunAtMostOnce == Spec => []AtMostOnce
<1>1. DeliveryInv => AtMostOnce
  BY DEF DeliveryInv, DoneInv, AtMostOnce, TypeOK
<1> QED
  BY <1>1, InitDelivery, NextDelivery, PTL DEF Spec

-----------------------------------------------------------------------------
\* A job of event e has been added to the queue.
HasJob(e) == \E j \in JobIds : jobs[j].event = e /\ jobs[j].state # "free"

\* Job ids are used once, in order, and a relay has added the job of the row
\* it is about to mark.
QueueInv ==
  /\ TypeOK
  /\ \A j \in JobIds : jobs[j].state # "free" => j <= njobs
  /\ \A r \in Relays : relay[r].step = "mark" => HasJob(relay[r].row)
  /\ \A e \in Events : outbox[e] = "dispatched" => HasJob(e)

LEMMA InitQueue == Init => QueueInv
BY InitDelivery DEF DeliveryInv, Init, QueueInv

LEMMA NextQueue == QueueInv /\ [Next]_vars => QueueInv'
<1> SUFFICES ASSUME QueueInv, [Next]_vars PROVE QueueInv'
  OBVIOUS
<1>0. TypeOK'
  BY NextTypeOK DEF QueueInv
<1> USE <1>0, BusAssumption DEF QueueInv
<1>1. ASSUME UNCHANGED <<outbox, relay, njobs, jobs>> PROVE QueueInv'
  BY <1>1 DEF HasJob
<1>2. ASSUME NEW e \in Events, EmitReliable(e) PROVE QueueInv'
  BY <1>2 DEF EmitReliable, HasJob, TypeOK
<1>3. ASSUME NEW r \in Relays, RelayEnqueue(r) PROVE QueueInv'
  <2>1. PICK e \in relay[r].todo :
          /\ AddJob(e)
          /\ relay' = [relay EXCEPT ![r].step = "mark", ![r].row = e]
    BY <1>3 DEF RelayEnqueue
  <2>2. /\ e \in Events
        /\ njobs + 1 \in JobIds
        /\ njobs' = njobs + 1
        /\ jobs'[njobs + 1].state = "waiting"
        /\ jobs'[njobs + 1].event = e
        /\ \A j \in JobIds \ {njobs + 1} : jobs'[j] = jobs[j]
        /\ jobs[njobs + 1].state = "free"
    BY <2>1 DEF AddJob, TypeOK, JobIds, RelayState
  <2>3. \A f \in Events : HasJob(f) => HasJob(f)'
    BY <2>2 DEF HasJob
  <2>4. HasJob(e)'
    BY <2>2 DEF HasJob
  <2>5. \A j \in JobIds : jobs'[j].state # "free" => j <= njobs'
    BY <2>2 DEF JobIds, TypeOK
  <2>6. (\A q \in Relays : relay[q].step = "mark" => HasJob(relay[q].row))'
    <3> SUFFICES ASSUME NEW q \in Relays, relay'[q].step = "mark"
                 PROVE  HasJob(relay[q].row)'
      OBVIOUS
    <3>1. CASE q = r
      <4>1. relay'[q].row = e
        BY <2>1, <3>1 DEF TypeOK, RelayState
      <4> QED
        BY <4>1, <2>4 DEF HasJob
    <3>2. CASE q # r
      <4>1. relay'[q] = relay[q] /\ relay[q].row \in Events
        BY <2>1, <3>2 DEF TypeOK, RelayState
      <4>2. HasJob(relay[q].row)
        BY <4>1
      <4> QED
        BY <4>1, <4>2, <2>3 DEF HasJob
    <3> QED
      BY <3>1, <3>2
  <2>7. (\A f \in Events : outbox[f] = "dispatched" => HasJob(f))'
    BY <1>3, <2>3 DEF RelayEnqueue
  <2> QED
    BY <1>0, <2>5, <2>6, <2>7
<1>4. ASSUME NEW r \in Relays,
             \/ RelayStart(r) \/ RelayMark(r) \/ RelayFinish(r)
             \/ RelayEnqueueFails(r) \/ RelayCrash(r)
      PROVE  QueueInv'
  <2>1. /\ UNCHANGED <<njobs, jobs>>
        /\ \A e \in Events : HasJob(e)' <=> HasJob(e)
    BY <1>4 DEF RelayStart, RelayMark, RelayFinish, RelayEnqueueFails,
                RelayCrash, HasJob
  <2>2. \A q \in Relays : relay'[q].step = "mark" =>
          relay[q].step = "mark" /\ relay'[q].row = relay[q].row
    BY <1>4 DEF RelayStart, RelayMark, RelayFinish, RelayEnqueueFails,
                RelayCrash, TypeOK, RelayState
  <2>3. \A e \in Events : outbox'[e] = "dispatched" =>
          outbox[e] = "dispatched" \/ (relay[r].step = "mark" /\ relay[r].row = e)
    BY <1>4 DEF RelayStart, RelayMark, RelayFinish, RelayEnqueueFails,
                RelayCrash, TypeOK
  <2> QED
    BY <2>1, <2>2, <2>3 DEF TypeOK, RelayState
<1>5. ASSUME NEW j \in JobIds,
             \/ JobNext(j) \/ MarkerFails(j) \/ HandlerThrows(j)
             \/ WorkerCrash(j)
      PROVE  QueueInv'
  <2>1. /\ UNCHANGED <<outbox, relay, njobs>>
        /\ \A i \in JobIds \ {j} : jobs'[i] = jobs[i]
        /\ jobs'[j].event = jobs[j].event
        /\ jobs[j].state # "free" /\ jobs'[j].state # "free"
    BY <1>5 DEF JobNext, JobStart, MarkProcessed, RunHandler, JobComplete,
                MarkerFails, HandlerThrows, WorkerCrash, NextHandler,
                AtMarker, TypeOK, Job
  <2>2. \A e \in Events : HasJob(e) => HasJob(e)'
    BY <2>1 DEF HasJob
  <2> QED
    BY <2>1, <2>2 DEF TypeOK, RelayState
<1> QED
  BY <1>1, <1>2, <1>3, <1>4, <1>5
  DEF Next, RelayNext, vars, EmitInProcess, RunInProcess, InProcessThrows,
      ExpireMarker, ApiCrash

\* A row is marked dispatched only when its job is in the queue: a crash or
\* an unreachable queue between the two writes of relayOutbox never loses an
\* event.
THEOREM DispatchedRowsHaveJobs == Spec => []DispatchedHasJob
<1>1. QueueInv => DispatchedHasJob
  BY DEF QueueInv, HasJob, DispatchedHasJob
<1> QED
  BY <1>1, InitQueue, NextQueue, PTL DEF Spec

-----------------------------------------------------------------------------
\* The handler of marker m has completed, or a job is about to call it.
Reached(m) == handled[m] >= 1 \/ \E i \in JobIds : Handling(i) /\ Marker(i) = m

\* Job j has gone past handler h of event e.
Passed(j, e, h) ==
  /\ jobs[j].state \in {"active", "completed"}
  /\ jobs[j].event = e
  /\ h < jobs[j].pos

\* A job that is done has walked the whole list.
Walked(j) == jobs[j].state = "completed" => jobs[j].pos = NSubs[jobs[j].event] + 1

\* Without a fault a marker stands for a call made or about to be made, and a
\* job has passed only handlers that were reached, by itself or by the job
\* whose marker it met.
CoverInv ==
  /\ TypeOK
  /\ faults = 0 =>
       /\ \A m \in processed : Reached(m)
       /\ \A j \in JobIds, e \in Events : \A h \in Subs(e) :
            Passed(j, e, h) => Reached(<<e, h>>)
       /\ \A j \in JobIds : Walked(j)

\* A place in the subscription list names a marker.
LEMMA PlacesAreMarkers ==
  ASSUME NEW e \in Events, NEW h \in Subs(e) PROVE <<e, h>> \in Markers
BY DEF Markers

\* What was reached stays reached as long as no call is cut short.
LEMMA ReachedStays ==
  ASSUME TypeOK, NEW m \in Markers, Reached(m),
         \A n \in Markers : handled'[n] >= handled[n] /\ handled'[n] \in Nat,
         \A i \in JobIds : Handling(i) =>
           (Handling(i)' /\ Marker(i)' = Marker(i)) \/ handled'[Marker(i)] >= 1
  PROVE  Reached(m)'
<1>1. CASE handled[m] >= 1
  <2>1. handled'[m] >= 1
    BY <1>1 DEF TypeOK
  <2> QED
    BY <2>1 DEF Reached
<1>2. ASSUME NEW i \in JobIds, Handling(i), Marker(i) = m PROVE Reached(m)'
  BY <1>2 DEF Reached
<1> QED
  BY <1>1, <1>2 DEF Reached

LEMMA InitCover == Init => CoverInv
BY InitDelivery DEF DeliveryInv, Init, CoverInv, Passed, Walked

\* A step keeps the cover if it cuts no call short, if the marker it adds is
\* reached, and if the job it moves passes a handler only when it is reached.
LEMMA CoverKept ==
  ASSUME CoverInv, TypeOK', faults = 0,
         \A n \in Markers : handled'[n] >= handled[n],
         \A i \in JobIds : Handling(i) =>
           (Handling(i)' /\ Marker(i)' = Marker(i)) \/ handled'[Marker(i)] >= 1,
         \A m \in processed' : m \in processed \/ Reached(m)',
         \A j \in JobIds, e \in Events : \A h \in Subs(e) :
           Passed(j, e, h)' => Passed(j, e, h) \/ Reached(<<e, h>>) \/ Reached(<<e, h>>)',
         \A j \in JobIds : Walked(j)'
  PROVE  CoverInv'
<1>1. \A n \in Markers : handled'[n] >= handled[n] /\ handled'[n] \in Nat
  BY DEF TypeOK
<1>2. \A m \in Markers : Reached(m) => Reached(m)'
  BY <1>1, ReachedStays DEF CoverInv
<1>3. \A m \in processed' : Reached(m)'
  BY <1>2 DEF CoverInv, TypeOK
<1>4. ASSUME NEW j \in JobIds, NEW e \in Events, NEW h \in Subs(e), Passed(j, e, h)'
      PROVE  Reached(<<e, h>>)'
  BY <1>2, <1>4, PlacesAreMarkers DEF CoverInv
<1> QED
  BY <1>3, <1>4 DEF CoverInv

LEMMA NextCover == CoverInv /\ DeliveryInv /\ QueueInv /\ [Next]_vars => CoverInv'
<1> SUFFICES ASSUME CoverInv, DeliveryInv, QueueInv, [Next]_vars, faults' = 0
             PROVE  CoverInv'
  BY NextTypeOK DEF CoverInv
<1>0. TypeOK /\ TypeOK' /\ faults \in Nat
  BY NextTypeOK DEF CoverInv, TypeOK
<1>1. \A k : ~Fault(k)
  BY <1>0 DEF Fault
<1>2. ASSUME UNCHANGED <<jobs, handled, faults>>, processed' \subseteq processed
      PROVE  CoverInv'
  <2>1. \A i \in JobIds : (Handling(i) => Handling(i)' /\ Marker(i)' = Marker(i))
                          /\ Walked(i)'
    BY <1>2 DEF Handling, Marker, CoverInv, Walked
  <2>2. \A n \in Markers : handled'[n] >= handled[n]
    BY <1>0, <1>2 DEF TypeOK
  <2>3. \A j \in JobIds, e \in Events : \A h \in Subs(e) : Passed(j, e, h)' => Passed(j, e, h)
    BY <1>2 DEF Passed
  <2> QED
    BY <1>0, <1>2, <2>1, <2>2, <2>3, CoverKept
<1>3. ASSUME NEW e \in Events, NEW h \in Subs(e), RunInProcess(e, h) PROVE CoverInv'
  <2>1. <<e, h>> \in Markers
    BY PlacesAreMarkers
  <2>2. \A i \in JobIds : (Handling(i) => Handling(i)' /\ Marker(i)' = Marker(i))
                          /\ Walked(i)'
    BY <1>3 DEF RunInProcess, Handling, Marker, CoverInv, Walked
  <2>3. \A n \in Markers : handled'[n] >= handled[n]
    BY <1>0, <1>3, <2>1 DEF RunInProcess, TypeOK
  <2>4. \A j \in JobIds, f \in Events : \A g \in Subs(f) : Passed(j, f, g)' => Passed(j, f, g)
    BY <1>3 DEF Passed, RunInProcess
  <2>5. faults = 0 /\ processed' = processed
    BY <1>3 DEF RunInProcess
  <2> QED
    BY <1>0, <2>2, <2>3, <2>4, <2>5, CoverKept
<1>4. ASSUME NEW r \in Relays, RelayEnqueue(r) PROVE CoverInv'
  <2>1. PICK f \in Events : AddJob(f)
    BY <1>0, <1>4 DEF RelayEnqueue, TypeOK, RelayState
  <2>2. njobs + 1 \in JobIds /\ ~(njobs + 1 <= njobs)
    BY <1>0, <2>1, BusAssumption DEF AddJob, TypeOK, JobIds
  <2>3. jobs[njobs + 1].state = "free"
    BY <2>2 DEF QueueInv
  <2>4. /\ jobs'[njobs + 1].state = "waiting"
        /\ \A i \in JobIds \ {njobs + 1} : jobs'[i] = jobs[i]
    BY <1>0, <2>1, <2>2 DEF AddJob, TypeOK
  <2>5. faults = 0 /\ processed' = processed /\ handled' = handled
    BY <1>4 DEF RelayEnqueue
  <2>6. \A i \in JobIds : (Handling(i) => Handling(i)' /\ Marker(i)' = Marker(i))
                          /\ Walked(i)'
    BY <2>3, <2>4, <2>5 DEF Handling, Marker, CoverInv, Walked
  <2>7. \A n \in Markers : handled'[n] >= handled[n]
    BY <1>0, <2>5 DEF TypeOK
  <2>8. \A j \in JobIds, e \in Events : \A h \in Subs(e) : Passed(j, e, h)' => Passed(j, e, h)
    BY <2>4 DEF Passed
  <2> QED
    BY <1>0, <2>5, <2>6, <2>7, <2>8, CoverKept
<1>5. ASSUME NEW j \in JobIds, JobStart(j) PROVE CoverInv'
  <2>1. /\ jobs[j].state = "waiting"
        /\ jobs'[j].state = "active"
        /\ jobs'[j].pos = 1
        /\ \A i \in JobIds \ {j} : jobs'[i] = jobs[i]
        /\ faults = 0 /\ processed' = processed /\ handled' = handled
    BY <1>0, <1>5 DEF JobStart, TypeOK, Job
  <2>2. \A i \in JobIds : (Handling(i) => Handling(i)' /\ Marker(i)' = Marker(i))
                          /\ Walked(i)'
    BY <2>1 DEF Handling, Marker, CoverInv, Walked
  <2>3. \A n \in Markers : handled'[n] >= handled[n]
    BY <1>0, <2>1 DEF TypeOK
  <2>4. ASSUME NEW i \in JobIds, NEW e \in Events, NEW h \in Subs(e), Passed(i, e, h)'
        PROVE  Passed(i, e, h)
    <3>1. ~(h < 1)
      BY DEF Subs
    <3> QED
      BY <2>1, <2>4, <3>1 DEF Passed
  <2> QED
    BY <1>0, <2>1, <2>2, <2>3, <2>4, CoverKept
<1>6. ASSUME NEW j \in JobIds, JobComplete(j) PROVE CoverInv'
  <2>1. /\ jobs[j].state = "active"
        /\ jobs[j].phase = "mark"
        /\ jobs[j].pos = NSubs[jobs[j].event] + 1
        /\ jobs'[j].state = "completed"
        /\ jobs'[j].pos = jobs[j].pos
        /\ jobs'[j].event = jobs[j].event
        /\ \A i \in JobIds \ {j} : jobs'[i] = jobs[i]
        /\ faults = 0 /\ processed' = processed /\ handled' = handled
    BY <1>0, <1>6 DEF JobComplete, TypeOK, Job
  <2>2. \A i \in JobIds : (Handling(i) => Handling(i)' /\ Marker(i)' = Marker(i))
                          /\ Walked(i)'
    BY <2>1 DEF Handling, Marker, CoverInv, Walked
  <2>3. \A n \in Markers : handled'[n] >= handled[n]
    BY <1>0, <2>1 DEF TypeOK
  <2>4. \A i \in JobIds, e \in Events : \A h \in Subs(e) : Passed(i, e, h)' => Passed(i, e, h)
    BY <2>1 DEF Passed
  <2> QED
    BY <1>0, <2>1, <2>2, <2>3, <2>4, CoverKept
<1>7. ASSUME NEW j \in JobIds, MarkProcessed(j) PROVE CoverInv'
  <2>0. /\ jobs[j].state = "active"
        /\ jobs[j].phase = "mark"
        /\ jobs[j].pos \in Subs(jobs[j].event)
        /\ faults = 0 /\ handled' = handled
    BY <1>7 DEF MarkProcessed, AtMarker
  <2>1. \A n \in Markers : handled'[n] >= handled[n]
    BY <1>0, <2>0 DEF TypeOK
  <2>2. CASE /\ processed' = processed \cup {Marker(j)}
             /\ jobs' = [jobs EXCEPT ![j].phase = "handle"]
    <3>1. /\ jobs'[j].state = "active"
          /\ jobs'[j].phase = "handle"
          /\ jobs'[j].pos = jobs[j].pos
          /\ jobs'[j].event = jobs[j].event
          /\ \A i \in JobIds \ {j} : jobs'[i] = jobs[i]
      BY <1>0, <2>0, <2>2 DEF TypeOK, Job
    <3>2. \A i \in JobIds : (Handling(i) => Handling(i)' /\ Marker(i)' = Marker(i))
                            /\ Walked(i)'
      BY <2>0, <3>1 DEF Handling, Marker, CoverInv, Walked
    <3>3. Reached(Marker(j))'
      BY <3>1 DEF Reached, Handling, Marker
    <3>4. Marker(j)' = Marker(j)
      BY <3>1 DEF Marker
    <3>5. \A m \in processed' : m \in processed \/ Reached(m)'
      BY <2>2, <3>3, <3>4
    <3>6. \A i \in JobIds, e \in Events : \A h \in Subs(e) : Passed(i, e, h)' => Passed(i, e, h)
      BY <2>0, <3>1 DEF Passed
    <3> QED
      BY <1>0, <2>0, <2>1, <3>2, <3>5, <3>6, CoverKept
  <2>3. CASE /\ Marker(j) \in processed
             /\ NextHandler(j)
             /\ UNCHANGED processed
    <3>1. /\ jobs'[j].state = "active"
          /\ jobs'[j].pos = jobs[j].pos + 1
          /\ jobs'[j].event = jobs[j].event
          /\ jobs[j].pos \in Nat
          /\ \A i \in JobIds \ {j} : jobs'[i] = jobs[i]
      BY <1>0, <2>0, <2>3 DEF NextHandler, TypeOK, Job
    <3>2. \A i \in JobIds : (Handling(i) => Handling(i)' /\ Marker(i)' = Marker(i))
                            /\ Walked(i)'
      BY <2>0, <3>1 DEF Handling, Marker, CoverInv, Walked
    <3>3. Reached(Marker(j))
      BY <2>0, <2>3 DEF CoverInv
    <3>4. ASSUME NEW i \in JobIds, NEW e \in Events, NEW h \in Subs(e), Passed(i, e, h)'
          PROVE  Passed(i, e, h) \/ Reached(<<e, h>>)
      <4>1. CASE i # j
        BY <3>1, <3>4, <4>1 DEF Passed
      <4>2. CASE i = j
        <5>1. e = jobs[j].event /\ h < jobs[j].pos + 1
          BY <3>1, <3>4, <4>2 DEF Passed
        <5>2. h < jobs[j].pos \/ h = jobs[j].pos
          BY <3>1, <5>1 DEF Subs
        <5> QED
          BY <2>0, <3>3, <4>2, <5>1, <5>2 DEF Passed, Marker
      <4> QED
        BY <4>1, <4>2
    <3> QED
      BY <1>0, <2>0, <2>1, <2>3, <3>2, <3>4, CoverKept
  <2> QED
    BY <1>7, <2>2, <2>3 DEF MarkProcessed
<1>8. ASSUME NEW j \in JobIds, RunHandler(j) PROVE CoverInv'
  <2>0. /\ jobs[j].state = "active"
        /\ jobs[j].phase = "handle"
        /\ handled' = [handled EXCEPT ![Marker(j)] = @ + 1]
        /\ faults = 0 /\ processed' = processed
    BY <1>8 DEF RunHandler
  <2>1. /\ jobs'[j].state = "active"
        /\ jobs'[j].pos = jobs[j].pos + 1
        /\ jobs'[j].event = jobs[j].event
        /\ jobs[j].pos \in Nat
        /\ \A i \in JobIds \ {j} : jobs'[i] = jobs[i]
    BY <1>0, <1>8 DEF RunHandler, NextHandler, TypeOK, Job
  <2>2. \A n \in Markers : handled'[n] >= handled[n]
    BY <1>0, <2>0 DEF TypeOK
  <2>3. Marker(j) \in Markers => handled'[Marker(j)] >= 1
    BY <1>0, <2>0 DEF TypeOK
  <2>4. ASSUME NEW i \in JobIds, NEW e \in Events, NEW h \in Subs(e), Passed(i, e, h)'
        PROVE  Passed(i, e, h) \/ Reached(<<e, h>>)
    <3>1. CASE i # j
      BY <2>1, <2>4, <3>1 DEF Passed
    <3>2. CASE i = j
      <4>1. e = jobs[j].event /\ h < jobs[j].pos + 1
        BY <2>1, <2>4, <3>2 DEF Passed
      <4>2. h < jobs[j].pos \/ h = jobs[j].pos
        BY <2>1, <4>1 DEF Subs
      <4>3. Handling(j)
        BY <2>0 DEF Handling
      <4> QED
        BY <2>0, <3>2, <4>1, <4>2, <4>3 DEF Passed, Marker, Reached
    <3> QED
      BY <3>1, <3>2
  <2>5. \A i \in JobIds : Walked(i)'
    BY <2>0, <2>1 DEF CoverInv, Walked
  <2>6. Marker(j) \in Markers
    BY <1>0, <2>0 DEF TypeOK, DeliveryInv, HandlingInv, Handling
  <2>7. ASSUME NEW i \in JobIds, Handling(i)
        PROVE  (Handling(i)' /\ Marker(i)' = Marker(i)) \/ handled'[Marker(i)] >= 1
    <3>1. CASE i = j
      BY <2>3, <2>6, <3>1
    <3>2. CASE i # j
      BY <2>1, <2>7, <3>2 DEF Handling, Marker
    <3> QED
      BY <3>1, <3>2
  <2> QED
    BY <1>0, <2>0, <2>2, <2>4, <2>5, <2>7, CoverKept
<1>9. ASSUME NEW e \in Events, EmitReliable(e) \/ EmitInProcess(e) PROVE CoverInv'
  BY <1>2, <1>9 DEF EmitReliable, EmitInProcess
<1>10. ASSUME NEW e \in Events, NEW h \in Subs(e), ExpireMarker(e, h) PROVE CoverInv'
  BY <1>2, <1>10 DEF ExpireMarker
<1>11. ASSUME NEW r \in Relays, RelayStart(r) \/ RelayMark(r) \/ RelayFinish(r)
       PROVE  CoverInv'
  BY <1>2, <1>11 DEF RelayStart, RelayMark, RelayFinish
<1>12. CASE UNCHANGED vars
  BY <1>2, <1>12 DEF vars
<1>13. /\ ~ApiCrash
       /\ \A e \in Events : \A h \in Subs(e) : ~InProcessThrows(e, h)
       /\ \A r \in Relays : ~RelayEnqueueFails(r) /\ ~RelayCrash(r)
       /\ \A j \in JobIds : ~MarkerFails(j) /\ ~HandlerThrows(j) /\ ~WorkerCrash(j)
  BY <1>1 DEF ApiCrash, InProcessThrows, RelayEnqueueFails, RelayCrash,
              MarkerFails, HandlerThrows, WorkerCrash
<1> QED
  BY <1>3, <1>4, <1>5, <1>6, <1>7, <1>8, <1>9, <1>10, <1>11, <1>12, <1>13
  DEF Next, RelayNext, JobNext

\* Where nothing failed, overlapping relays and duplicate jobs lose no call: a
\* dispatched row has a job, that job has walked the whole list, and every
\* handler it skipped was called by the job whose marker it met.
THEOREM NothingLostWithoutFaults == Spec => []FaultFreeDelivery
<1>1. ASSUME CoverInv, DispatchedHasJob, faults = 0,
             NEW e \in Events, Settled(e),
             \A j \in JobIds : jobs[j].event = e => jobs[j].state # "failed",
             NEW h \in Subs(e)
      PROVE  handled[<<e, h>>] >= 1
  <2>1. PICK j \in JobIds : jobs[j].event = e /\ jobs[j].state # "free"
    BY <1>1 DEF Settled, DispatchedHasJob
  <2>2. jobs[j].state = "completed"
    BY <1>1, <2>1 DEF Settled, CoverInv, TypeOK, Job, JobStates
  <2>3. jobs[j].pos = NSubs[e] + 1
    BY <1>1, <2>1, <2>2 DEF CoverInv, Walked
  <2>4. h < jobs[j].pos
    BY <2>3, BusAssumption DEF Subs
  <2>5. Reached(<<e, h>>)
    BY <1>1, <2>1, <2>2, <2>4 DEF CoverInv, Passed
  <2>6. ASSUME NEW i \in JobIds, Handling(i), Marker(i) = <<e, h>> PROVE FALSE
    BY <1>1, <2>6 DEF Settled, Handling, Marker
  <2> QED
    BY <2>5, <2>6 DEF Reached
<1>2. CoverInv /\ DispatchedHasJob => FaultFreeDelivery
  BY <1>1 DEF FaultFreeDelivery, AtLeastOnce
<1> QED
  BY <1>2, InitCover, NextCover, InitDelivery, NextDelivery, InitQueue,
     NextQueue, DispatchedRowsHaveJobs, PTL DEF Spec
=============================================================================
