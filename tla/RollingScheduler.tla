-------------------------- MODULE RollingScheduler --------------------------
(***************************************************************************)
(* The rolling RTC scheduler of task487_runtime/scheduler.py: the timeline *)
(* of waypoints between the policy, which answers a request with a chunk   *)
(* of Horizon targets, and the low-level controllers, which are sent a     *)
(* committed prefix of it.                                                 *)
(*                                                                         *)
(* A 14-vector target is abstracted to one coordinate, the height of one   *)
(* tool; time is an integer number of ticks.  Distances, speed and floor   *)
(* limits are then integers of the same kind.  The arrays _queue, _times,  *)
(* _nominal_times and _sent are the parallel sequences queue, times,       *)
(* nominal and sent.  The class is single-threaded: every method is one    *)
(* action, and the caller may interleave them in any order.                *)
(***************************************************************************)
EXTENDS Integers, Sequences, FiniteSets

CONSTANTS
  Heights,          \* the coordinates that observations and chunks may carry
  Horizon,          \* number of targets in a chunk
  Dt,               \* ticks between two nominal targets
  DispatchLead,     \* dispatch_lead_s
  CommitSteps,      \* commit_steps
  CommitWindow,     \* commit_window_s in ticks, None when not configured
  RequestEvery,     \* request_every_steps
  ReplanRemaining,  \* replan_remaining_steps
  MaxQueue,         \* max_queue_steps
  BlendSteps,       \* handoff_blend_steps
  CompleteChunk,    \* complete_chunk_before_replan
  TrackingLimit,    \* max_translation_tracking_error_m
  StepLimit,        \* max_translation_step_m
  PrefixTolerance,  \* max_rtc_prefix_translation_error_m
  SlowDown,         \* ticks per unit of distance: 1 / max_physical_translation_speed
  StaticFloor,      \* min_tcp_z_m, or None
  DownwardLimit,    \* max_downward_excursion_m, or None
  MaxAge,           \* oldest observation a chunk may answer (bounds the inputs)
  MaxTime,          \* last instant of the model (bounds the clock)
  None              \* Python's None

ASSUME ConfigAssumption ==
  /\ Heights \subseteq Int
  /\ Horizon \in Nat \ {0} /\ Dt \in Nat \ {0} /\ DispatchLead \in Nat
  /\ CommitSteps \in Nat \ {0} /\ RequestEvery \in Nat \ {0}
  /\ ReplanRemaining \in 0..CommitSteps
  /\ MaxQueue \in Nat /\ MaxQueue >= CommitSteps
  /\ BlendSteps \in Nat /\ CompleteChunk \in BOOLEAN
  /\ TrackingLimit \in Nat /\ StepLimit \in Nat /\ PrefixTolerance \in Nat
  /\ SlowDown \in Nat
  /\ StaticFloor \in Int \union {None}
  /\ DownwardLimit # None => DownwardLimit \in Nat \ {0}
  /\ MaxAge \in Nat /\ MaxTime \in Nat
  /\ None \notin Int
  /\ CommitWindow # None => CommitWindow \in Nat \ {0}

VARIABLES
  now,              \* time.time() of the calling loop
  state,            \* RunState
  queue,            \* _queue: the planned targets
  times,            \* _times: when each is due at the controller
  nominal,          \* _nominal_times: when the policy wanted it
  sent,             \* _sent: already given to the controller
  pending,          \* _request_pending
  steps,            \* _steps_since_request
  totalCompleted,   \* _total_completed
  startCompleted,   \* _request_start_completed
  lastRequested,    \* _last_requested_target_time
  requestPrefix,    \* _request_prefix: committed targets the policy was given
  lastScheduled,    \* _last_scheduled_target and _last_scheduled_time
  floor             \* _workspace_min_z

timeline == <<queue, times, nominal, sent>>
counters == <<steps, totalCompleted, startCompleted>>
vars == <<now, state, timeline, pending, counters, lastRequested,
          requestPrefix, lastScheduled, floor>>
-----------------------------------------------------------------------------
Larger(a, b)  == IF a >= b THEN a ELSE b
Smaller(a, b) == IF a <= b THEN a ELSE b
Distance(a, b) == IF a >= b THEN a - b ELSE b - a

(* The number of leading TRUE entries. *)
LeadingRun(flags) ==
  CHOOSE k \in 0..Len(flags) :
    /\ \A i \in 1..k : flags[i]
    /\ k < Len(flags) => ~flags[k + 1]

Drop(s, k) == SubSeq(s, k + 1, Len(s))

CommittedSteps == Cardinality({i \in DOMAIN sent : sent[i]})

PrefixOfEverything == queue  \* mutant: unsent targets are sent as RTC context too

(* rtc_prefix_targets: only the leading sent targets are RTC context. *)
RtcPrefix == SubSeq(queue, 1, LeadingRun(sent))

MinimumDuration(a, b) == SlowDown * Distance(a, b)

(* _retime: each time is its nominal one or as much later as the speed     *)
(* limit from the previous target needs.                                   *)
Retime(targets, nominals, startTarget, startTime) ==
  LET at[i \in 0..Len(targets)] ==
        IF i = 0 THEN startTime
        ELSE Larger(nominals[i],
                    at[i - 1] + MinimumDuration(
                      IF i = 1 THEN startTarget ELSE targets[i - 1], targets[i]))
  IN  [i \in 1..Len(targets) |-> at[i]]

(* _validate raises at the first i for which this holds.                   *)
UnsafeAt(targets, anchor, i) ==
  \/ floor # None /\ targets[i] < floor
  \/ IF i = 1 THEN Distance(anchor, targets[1]) > TrackingLimit
              ELSE Distance(targets[i - 1], targets[i]) > StepLimit

SafeLengthPlusOne(targets, anchor) ==  \* mutant: off by one
  Smaller(Len(targets),
          1 + LeadingRun([i \in 1..Len(targets) |-> ~UnsafeAt(targets, anchor, i)]))

SafeLength(targets, anchor) ==
  LeadingRun([i \in 1..Len(targets) |-> ~UnsafeAt(targets, anchor, i)])
-----------------------------------------------------------------------------
Init ==
  /\ now = 0
  /\ state = "HOLD"
  /\ queue = <<>> /\ times = <<>> /\ nominal = <<>> /\ sent = <<>>
  /\ pending = FALSE
  /\ steps = 0 /\ totalCompleted = 0 /\ startCompleted = 0
  /\ lastRequested = None
  /\ requestPrefix = <<>>
  /\ lastScheduled = None
  /\ floor = None

ClearTimeline ==
  /\ queue' = <<>> /\ times' = <<>> /\ nominal' = <<>> /\ sent' = <<>>
  /\ lastScheduled' = None
  /\ requestPrefix' = <<>>
  /\ pending' = FALSE
  /\ lastRequested' = None

(* hold, called by the client, by mark_request_failed and by every fault.  *)
EnterHold ==
  /\ state' = "HOLD"
  /\ ClearTimeline
  /\ floor' = None
  /\ UNCHANGED <<now, counters>>

(* The floor an activation sets, from the limits that are configured.      *)
WorkspaceFloor(live) ==
  IF DownwardLimit = None THEN StaticFloor
  ELSE IF StaticFloor = None THEN live - DownwardLimit
  ELSE Larger(live - DownwardLimit, StaticFloor)

(* activate; its callers have entered HOLD before.                         *)
Activate(live) ==
  /\ state = "HOLD"
  /\ state' = "ACTIVE"
  /\ ClearTimeline
  /\ steps' = RequestEvery
  /\ totalCompleted' = 0 /\ startCompleted' = 0
  /\ floor' = WorkspaceFloor(live)
  /\ UNCHANGED now

Hold == state = "ACTIVE" /\ EnterHold

(* validate_physical_tracking: the measured pose strays from the setpoint. *)
TrackingFault(actual, setpoint) ==
  /\ state = "ACTIVE"
  /\ UnsafeAt(<<setpoint>>, actual, 1)
  /\ EnterHold

Tick ==
  /\ now < MaxTime
  /\ now' = now + 1
  /\ UNCHANGED <<state, timeline, pending, counters, lastRequested,
                 requestPrefix, lastScheduled, floor>>
-----------------------------------------------------------------------------
Due == [i \in 1..Len(queue) |-> sent[i] /\ times[i] <= now]

(* advance: retire what the controller's setpoint has consumed.            *)
Advance(setpoint) ==
  LET completed == LeadingRun(Due)
  IN
  /\ state = "ACTIVE"
  /\ completed > 0
  /\ \/ /\ UnsafeAt(<<queue[completed]>>, setpoint, 1)
        /\ EnterHold
     \/ /\ ~UnsafeAt(<<queue[completed]>>, setpoint, 1)
        /\ queue' = Drop(queue, completed)
        /\ times' = Drop(times, completed)
        /\ nominal' = Drop(nominal, completed)
        /\ sent' = Drop(sent, completed)
        /\ steps' = steps + completed
        /\ totalCompleted' = totalCompleted + completed
        /\ UNCHANGED <<now, state, pending, startCompleted, lastRequested,
                       requestPrefix, lastScheduled, floor>>
-----------------------------------------------------------------------------
ReplanLead == ReplanRemaining * Dt

ChunkNearlyExecuted ==
  queue # <<>> =>
    /\ \A i \in DOMAIN sent : sent[i]
    /\ times[Len(queue)] - now <= ReplanLead

PrefixDueAgain ==  \* mutant: the same prefix end asks again
  /\ CommittedSteps > 0
  /\ ReplanRemaining > 0
  /\ times[CommittedSteps] - now <= ReplanLead

ExecutablePrefixDue ==
  /\ CommittedSteps > 0
  /\ ReplanRemaining > 0
  /\ lastRequested # None => times[CommittedSteps] > lastRequested
  /\ times[CommittedSteps] - now <= ReplanLead

RequestDue ==
  /\ state = "ACTIVE"
  /\ ~pending
  /\ IF CompleteChunk
     THEN ChunkNearlyExecuted
     ELSE \/ ExecutablePrefixDue
          \/ steps >= RequestEvery
          \/ steps > 0 /\ Len(queue) \in 1..ReplanRemaining

MarkRequestStarted ==
  /\ RequestDue
  /\ pending' = TRUE
  /\ steps' = 0
  /\ startCompleted' = totalCompleted
  /\ requestPrefix' = RtcPrefix
  /\ lastRequested' = IF CommittedSteps = 0 THEN None ELSE times[CommittedSteps]
  /\ UNCHANGED <<now, state, timeline, totalCompleted, lastScheduled, floor>>
-----------------------------------------------------------------------------
InferenceDelay == totalCompleted - startCompleted

PreservedButOne ==  \* mutant: off by one
  Smaller(Larger(0, Len(requestPrefix) - InferenceDelay - 1), Len(queue))

(* The part of the request's prefix that is still queued: immutable.       *)
Preserved ==
  Smaller(Larger(0, Len(requestPrefix) - InferenceDelay), Len(queue))

(* _validate_rtc_prefix on the overlap of the chunk and the prefix.        *)
PrefixReproduced(chunk) ==
  \A i \in 1..Preserved :
    /\ InferenceDelay + i <= Len(chunk)
    /\ Distance(chunk[InferenceDelay + i], requestPrefix[InferenceDelay + i])
         <= PrefixTolerance

ExpiredPreserved(chunk, observed) ==  \* mutant: forgets what was executed meanwhile
  IF requestPrefix # <<>>
  THEN Smaller(Len(chunk), Preserved)
  ELSE Cardinality({i \in 1..Len(chunk) : observed + i * Dt <= now + DispatchLead})

(* How many leading targets of the chunk are dropped: the request's prefix *)
(* and what was executed meanwhile, or without a prefix what is too late.  *)
Expired(chunk, observed) ==
  IF requestPrefix # <<>>
  THEN Smaller(Len(chunk), Larger(Len(requestPrefix), InferenceDelay))
  ELSE Cardinality({i \in 1..Len(chunk) : observed + i * Dt <= now + DispatchLead})

(* The old tail that the new suffix is faded in from; without a tail, the  *)
(* last preserved target repeated.                                         *)
BlendReference(count) ==
  IF requestPrefix = <<>> THEN <<>>
  ELSE IF Len(queue) > Preserved THEN Drop(queue, Preserved)
  ELSE IF Preserved > 0
       THEN [i \in 1..Smaller(BlendSteps, count) |-> queue[Preserved]]
       ELSE <<>>

(* _blend_chunk_handoff                                                    *)
Blend(old, new) ==
  LET count == Smaller(BlendSteps, Smaller(Len(old), Len(new)))
  IN  [i \in 1..Len(new) |->
         IF i <= count
         THEN ((count + 1 - i) * old[i] + i * new[i]) \div (count + 1)
         ELSE new[i]]

MergedTargets(chunk, observed) ==
  LET new == Drop(chunk, Expired(chunk, observed))
  IN  SubSeq(queue, 1, Preserved) \o Blend(BlendReference(Len(new)), new)

MergedNominals(chunk, observed) ==
  LET expired == Expired(chunk, observed)
  IN  SubSeq(nominal, 1, Preserved)
        \o [i \in 1..(Len(chunk) - expired) |-> observed + (expired + i) * Dt]

(* A preserved prefix was validated before; a fresh chunk must start near  *)
(* the measured pose.                                                      *)
Acceptable(merged, live) ==
  SafeLength(merged, IF Preserved > 0 THEN merged[1] ELSE live)

KeptUncapped(merged, live) == Acceptable(merged, live)  \* mutant: no queue limit

(* The plan is cut at the first unsafe waypoint and at the queue limit.    *)
Kept(merged, live) == Smaller(Acceptable(merged, live), MaxQueue)

Required(merged) == Smaller(Len(merged), Larger(Preserved, ReplanRemaining))

(* Where the new suffix starts from, in space and in time.                 *)
SpliceTarget(merged, prefix, live) ==
  IF prefix > 0 THEN merged[prefix]
  ELSE IF lastScheduled = None THEN live ELSE lastScheduled.target

SpliceTimeFromNow(prefix) ==  \* mutant: forgets when the prefix ends
  IF lastScheduled = None THEN now + DispatchLead
  ELSE Smaller(lastScheduled.time, now + DispatchLead)

SpliceTime(prefix) ==
  IF prefix > 0 THEN times[prefix]
  ELSE IF lastScheduled = None THEN now + DispatchLead
  ELSE Larger(lastScheduled.time, now + DispatchLead)

MergeAccepted(chunk, observed, live) ==
  LET merged == MergedTargets(chunk, observed)
      kept   == Kept(merged, live)
      prefix == Smaller(Preserved, kept)
      noms   == SubSeq(MergedNominals(chunk, observed), 1, kept)
  IN
  /\ merged # <<>>
  /\ PrefixReproduced(chunk)
  /\ Acceptable(merged, live) >= Required(merged)
  /\ queue' = SubSeq(merged, 1, kept)
  /\ nominal' = noms
  /\ sent' = SubSeq(sent, 1, prefix) \o [i \in 1..(kept - prefix) |-> FALSE]
  /\ times' = SubSeq(times, 1, prefix)
                \o Retime(SubSeq(merged, prefix + 1, kept), Drop(noms, prefix),
                          SpliceTarget(merged, prefix, live), SpliceTime(prefix))
  /\ pending' = FALSE
  /\ requestPrefix' = <<>>
  /\ UNCHANGED <<now, state, counters, lastRequested, lastScheduled, floor>>

MergeRejected(chunk, observed, live) ==
  LET merged == MergedTargets(chunk, observed)
  IN
  /\ \/ ~PrefixReproduced(chunk)
     \/ merged = <<>>
     \/ Acceptable(merged, live) < Required(merged)
  /\ EnterHold

MergeChunk(chunk, observed, live) ==
  /\ state = "ACTIVE"
  /\ pending
  /\ \/ MergeAccepted(chunk, observed, live)
     \/ MergeRejected(chunk, observed, live)
-----------------------------------------------------------------------------
FirstUnsent == LeadingRun(sent) + 1

KeepLateTimes(live) == times  \* mutant: late waypoints are dispatched as they are

(* _retime_unsent_suffix: an undispatched tail that is already late is     *)
(* moved after now, keeping the speed limit.                               *)
RetimedTimes(live) ==
  IF \/ FirstUnsent > Len(queue)
     \/ times[FirstUnsent] > now
  THEN times
  ELSE LET first == FirstUnsent
           lead  == now + DispatchLead
           from  == IF first > 1 THEN queue[first - 1]
                    ELSE IF lastScheduled = None THEN live ELSE lastScheduled.target
           start == IF first > 1 THEN Larger(times[first - 1], lead)
                    ELSE IF lastScheduled = None THEN lead
                    ELSE Larger(lastScheduled.time, lead)
       IN  SubSeq(times, 1, first - 1)
             \o Retime(Drop(queue, first - 1), Drop(nominal, first - 1), from, start)

CommitLimit(newTimes) ==
  LET within == Cardinality({i \in DOMAIN newTimes : newTimes[i] <= now + CommitWindow})
      cap    == Smaller(CommitSteps, Len(queue))
  IN  IF CommitWindow = None THEN cap
      ELSE Smaller(cap, Larger(CommittedSteps, Larger(1, within)))

LastBatch(available) ==  \* mutant: takes the last unsent ones
  {i \in DOMAIN sent :
     ~sent[i] /\ Cardinality({j \in i..Len(sent) : ~sent[j]}) <= available}

(* The indices pop_batch dispatches: the first available unsent ones.      *)
Batch(available) ==
  {i \in DOMAIN sent : ~sent[i] /\ Cardinality({j \in 1..i : ~sent[j]}) <= available}

PopBatch(live, maxActions) ==
  LET newTimes  == RetimedTimes(live)
      available == Smaller(CommitLimit(newTimes) - CommittedSteps, maxActions)
      batch     == Batch(available)
  IN
  /\ state = "ACTIVE"
  /\ ~pending
  /\ queue # <<>>
  /\ times' = newTimes
  /\ sent' = [i \in DOMAIN sent |-> sent[i] \/ i \in batch]
  /\ lastScheduled' =
       IF batch = {} THEN lastScheduled
       ELSE LET last == CHOOSE i \in batch : \A j \in batch : j <= i
            IN  [target |-> queue[last], time |-> newTimes[last]]
  /\ UNCHANGED <<now, state, queue, nominal, pending, counters, lastRequested,
                 requestPrefix, floor>>

(* pop_batch on an empty queue with no inference in flight fails closed.   *)
QueueExhausted ==
  /\ state = "ACTIVE"
  /\ ~pending
  /\ queue = <<>>
  /\ EnterHold
-----------------------------------------------------------------------------
Chunks == [1..Horizon -> Heights]
Observed == {t \in (now - MaxAge)..now : t >= 0}

Next ==
  \/ Tick
  \/ Hold
  \/ \E live \in Heights : Activate(live)
  \/ \E actual, setpoint \in Heights : TrackingFault(actual, setpoint)
  \/ \E setpoint \in Heights : Advance(setpoint)
  \/ MarkRequestStarted
  \/ \E chunk \in Chunks, observed \in Observed, live \in Heights :
       MergeChunk(chunk, observed, live)
  \/ \E live \in Heights, maxActions \in 1..CommitSteps : PopBatch(live, maxActions)
  \/ QueueExhausted

Spec == Init /\ [][Next]_vars
-----------------------------------------------------------------------------
(* The shape of the state: the four arrays stay parallel.                  *)
TypeOK ==
  /\ now \in Nat
  /\ state \in {"HOLD", "ACTIVE"}
  /\ queue \in Seq(Int)
  /\ times \in [1..Len(queue) -> Int]
  /\ nominal \in [1..Len(queue) -> Int]
  /\ sent \in [1..Len(queue) -> BOOLEAN]
  /\ Len(queue) <= MaxQueue
  /\ pending \in BOOLEAN
  /\ steps \in Nat /\ totalCompleted \in Nat /\ startCompleted \in Nat
  /\ lastRequested \in Int \union {None}
  /\ requestPrefix \in Seq(Int)
  /\ lastScheduled \in {None} \union [target : Int, time : Int]
  /\ floor \in Int \union {None}

(* What was sent is a leading part of the queue no longer than the commit  *)
(* limit: rtc_prefix_targets, which counts leading flags, and              *)
(* committed_steps, which counts all flags, agree after every retirement,  *)
(* merge, truncation and dispatch.                                         *)
SentIsPrefix ==
  \E k \in 0..CommitSteps :
    /\ k <= Len(queue)
    /\ \A i \in 1..Len(queue) : sent[i] <=> i <= k

(* While an inference is in flight, what was executed since plus what is   *)
(* still committed is exactly the prefix the policy was given: the index   *)
(* arithmetic of merge_chunk (drop the delay, preserve the rest) splices   *)
(* the answer at the right waypoint.                                       *)
PrefixAligned ==
  pending =>
    /\ InferenceDelay >= 0
    /\ InferenceDelay + CommittedSteps = Len(requestPrefix)
    /\ \A i \in 1..CommittedSteps : queue[i] = requestPrefix[InferenceDelay + i]

(* A planned waypoint obeys the guards of _validate whatever chunks it was *)
(* spliced from: never below the floor of this activation, and no step     *)
(* between neighbours (old prefix, blended seam, new suffix) over the      *)
(* limit.                                                                  *)
QueueSafe ==
  \A i \in 1..Len(queue) :
    /\ floor # None => queue[i] >= floor
    /\ i > 1 => Distance(queue[i - 1], queue[i]) <= StepLimit

(* Consecutive waypoints leave the time the speed limit asks for, also     *)
(* from the last dispatched waypoint to the first one not yet dispatched,  *)
(* across merges, retirement and late retiming.                            *)
SpeedLimited ==
  /\ \A i \in 2..Len(queue) :
       times[i] - times[i - 1] >= MinimumDuration(queue[i - 1], queue[i])
  /\ lastScheduled # None /\ FirstUnsent <= Len(queue) =>
       times[FirstUnsent] - lastScheduled.time
         >= MinimumDuration(lastScheduled.target, queue[FirstUnsent])

(* An answer is spliced at the step it was asked for, also when the whole  *)
(* prefix was executed meanwhile: what stands i-th in the new plan, behind *)
(* the committed ones, is what the policy meant for the i-th step after    *)
(* those executed since the request; no answer is played again from its    *)
(* start.  Without a prefix nothing that is already late is planned.       *)
AnswerInStep ==
  [][state = "ACTIVE" /\ pending /\ state' = "ACTIVE" /\ ~pending' =>
       \E observed \in Observed : \A i \in (CommittedSteps + 1)..Len(queue') :
         IF requestPrefix # <<>>
         THEN nominal'[i] = observed + (InferenceDelay + i) * Dt
         ELSE nominal'[i] > now + DispatchLead]_vars

(* In complete-chunk mode a replan never replaces a waypoint that was not  *)
(* dispatched: while an inference is in flight everything planned is sent. *)
NothingReplaceableWhilePending ==
  CompleteChunk /\ pending => \A i \in 1..Len(queue) : sent[i]

(* Every sent waypoint keeps its target and time, except those a step      *)
(* retires, and it retires none that is not yet due.                       *)
CommittedKept ==
  \E gone \in 0..CommittedSteps :
    /\ \A i \in 1..gone : times[i] <= now
    /\ \A i \in (gone + 1)..CommittedSteps :
         /\ i - gone \in DOMAIN queue'
         /\ queue'[i - gone] = queue[i]
         /\ times'[i - gone] = times[i]
         /\ sent'[i - gone]

(* A step that neither holds nor activates keeps what was sent: a merge, a *)
(* truncation or a retiming never touches what the controller already has. *)
CommittedImmutable ==
  [][state = "ACTIVE" /\ state' = "ACTIVE" => CommittedKept]_vars

(* Every dispatched waypoint lies in the future, so that exec_actions does *)
(* not silently drop it, and not before the one dispatched last.           *)
DispatchInOrder ==
  [][lastScheduled' # lastScheduled /\ lastScheduled' # None =>
       \A i \in DOMAIN sent : sent'[i] /\ ~sent[i] =>
         /\ times'[i] > now
         /\ lastScheduled # None => times'[i] >= lastScheduled.time]_vars
-----------------------------------------------------------------------------
(* The counts CommitPipeline keeps, read off the scheduler's arrays.       *)
Active == state = "ACTIVE"

Promise == INSTANCE CommitPipeline WITH
  mode <- state,
  committed <- CommittedSteps,
  replaceable <- Len(queue) - CommittedSteps,
  fresh <- Active /\ ~pending /\ totalCompleted = 0 /\ steps = RequestEvery,
  progressed <- Active /\ (\/ steps > 0
                           \/ /\ CommittedSteps > 0
                              /\ \/ lastRequested = None
                                 \/ times[CommittedSteps] > lastRequested)

(* The scheduler keeps the promise its client is composed from: committed  *)
(* waypoints leave only by retirement or HOLD, at most CommitSteps of them *)
(* exist, nothing is sent while an inference is open, no request is        *)
(* repeated without progress, and a fresh round asks at once.              *)
KeepsPromise == Promise!PipelineSpec /\ [](Promise!MustRequest => RequestDue)
=============================================================================
