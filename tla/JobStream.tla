----------------------------- MODULE JobStream ------------------------------
(***************************************************************************)
(* GET /jobs/{id}/stream (api/job_streaming.py) beside the jobs it follows *)
(* (JobRuntime).  A stream polls: it reads the status of the job, then its *)
(* events above the last id it sent, sends them in order of their ids, and *)
(* ends once the status it read is terminal.  Its client may go away, and  *)
(* come back with the last id it received.                                 *)
(***************************************************************************)
EXTENDS JobRuntime

CONSTANTS Streams  \* clients that follow a job

VARIABLE stream

svars == <<vars, stream>>

\* last: last_event_id; batch: loaded and not yet sent; sent: received.
Stream == [pc : {"closed", "poll", "half", "emit", "ended"}, job : Jobs,
           last : Nat, seen : Statuses, batch : SUBSET Event,
           sent : SUBSET Event]

StreamInit ==
  /\ Init
  /\ stream \in [Streams -> {[pc |-> "closed", job |-> j, last |-> 0,
                              seen |-> "queued", batch |-> {}, sent |-> {}]
                             : j \in Jobs}]

\* Faulty variant: the job may not exist.
OpenUnchecked(s) ==
  /\ stream[s].pc = "closed"
  /\ stream' = [stream EXCEPT ![s].pc = "poll"]
  /\ UNCHANGED vars

\* ensure_job_exists, then last_event_id = after_event_id.
Open(s) ==
  /\ stream[s].pc = "closed"
  /\ status[stream[s].job] # "absent"
  /\ stream' = [stream EXCEPT ![s].pc = "poll"]
  /\ UNCHANGED vars

\* What was loaded is dropped: every poll loads anew.
Forget(x, pc) == [x EXCEPT !.pc = pc, !.seen = "queued", !.batch = {}]

\* The client disconnected, or max_idle_seconds passed.
Close(s) ==
  /\ stream[s].pc \in {"poll", "emit"}
  /\ stream' = [stream EXCEPT ![s] = Forget(@, "closed")]
  /\ UNCHANGED vars

ReadStatus(s, from, to) ==
  /\ stream[s].pc = from
  /\ stream' = [stream EXCEPT ![s].pc = to,
                              ![s].seen = status[stream[s].job]]
  /\ UNCHANGED vars

ReadEvents(s, from, to) ==
  /\ stream[s].pc = from
  /\ stream' = [stream EXCEPT ![s].pc = to, ![s].batch =
                  {e \in events[stream[s].job] : e.id > stream[s].last}]
  /\ UNCHANGED vars

\* Faulty variant: the order of the design document, events before status.
LoadStatusLast(s) == ReadEvents(s, "poll", "half") \/ ReadStatus(s, "half", "emit")

LoadEventsAndStatus(s) ==
  ReadStatus(s, "poll", "half") \/ ReadEvents(s, "half", "emit")

\* Faulty variant: the events are sent in no particular order.
EmitUnordered(s) ==
  /\ stream[s].pc = "emit"
  /\ \E e \in stream[s].batch :
       stream' = [stream EXCEPT ![s].last = e.id, ![s].batch = @ \ {e},
                                ![s].sent = @ \cup {e}]
  /\ UNCHANGED vars

Emit(s) ==
  /\ stream[s].pc = "emit"
  /\ \E e \in stream[s].batch :
       /\ \A f \in stream[s].batch : e.id <= f.id
       /\ stream' = [stream EXCEPT ![s].last = e.id, ![s].batch = @ \ {e},
                                   ![s].sent = @ \cup {e}]
  /\ UNCHANGED vars

\* stream_end, or sleep until the next poll.
EndOrSleep(s) ==
  /\ stream[s].pc = "emit" /\ stream[s].batch = {}
  /\ stream' = [stream EXCEPT ![s] = IF @.seen \in Terminal
                                     THEN [@ EXCEPT !.pc = "ended"]
                                     ELSE Forget(@, "poll")]
  /\ UNCHANGED vars

StreamStep(s) == LoadEventsAndStatus(s) \/ Emit(s) \/ EndOrSleep(s)

StreamNext ==
  \/ Next /\ UNCHANGED stream
  \/ \E s \in Streams : Open(s) \/ Close(s) \/ StreamStep(s)

\* An open stream goes on; nothing makes a client open or close one.
StreamSpec ==
  /\ StreamInit /\ [][StreamNext]_svars
  /\ Fairness
  /\ \A s \in Streams : WF_svars(StreamStep(s))

-----------------------------------------------------------------------------
StreamTypeOK == stream \in [Streams -> Stream]

(***************************************************************************)
(* A client has received every committed event of its job up to the last   *)
(* id it received, however often it went away and came back, and whoever   *)
(* was committing events between its reads.                                *)
(***************************************************************************)
NothingSkipped ==
  \A s \in Streams :
    stream[s].sent = {e \in events[stream[s].job] : e.id <= stream[s].last}

(***************************************************************************)
(* A stream that ended told its client how the job ended: it has sent the  *)
(* event that goes with the status it saw.                                 *)
(***************************************************************************)
EndsWithVerdict ==
  \A s \in Streams : stream[s].pc = "ended" =>
    \E e \in stream[s].sent : e.type = stream[s].seen

(***************************************************************************)
(* A client whose poll has not loaded the events yet when the worker gives *)
(* its verdict learns it if it stays, even when a late cancellation hides  *)
(* it in the row.                                                          *)
(***************************************************************************)
VerdictDelivered ==
  \A s \in Streams : LET j == stream[s].job IN
    work[j].pc = "done" /\ work[j].outcome # "none"
      /\ stream[s].pc \in {"poll", "half"}
      ~> \/ stream[s].pc = "closed"
         \/ \E e \in stream[s].sent : e.type = work[j].outcome

(***************************************************************************)
(* "Streams end cleanly for terminal jobs": once the worker has given its  *)
(* verdict, an open stream ends or its client leaves.  The code does not   *)
(* guarantee it: a cancellation that read "running" before the verdict     *)
(* overwrites it with "cancel_requested", which nothing ever changes.      *)
(***************************************************************************)
StreamEnds ==
  \A s \in Streams : LET j == stream[s].job IN
    work[j].pc = "done" /\ stream[s].pc = "poll"
      ~> stream[s].pc \in {"ended", "closed"}
=============================================================================
