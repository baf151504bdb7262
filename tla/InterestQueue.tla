--------------------------- MODULE InterestQueue ---------------------------
(***************************************************************************)
(* The consumption of the queue of deleted interests: main.go              *)
(* consumeQueueInterestDeleted over api/grpc/queue ReceiveMessages.  Every *)
(* replica runs one consumer: it reads a batch from a stream, calls        *)
(* UnsubscribeByInterest (module SubService) for every message in turn,    *)
(* keeps the result of the last call only, acknowledges the whole batch,   *)
(* and stops the process when the result it kept is an error.  That        *)
(* decision reads a variable of main that the gauge of the metrics assigns *)
(* as well.                                                                *)
(*                                                                         *)
(* The queue is external.  It holds a message until an acknowledgement     *)
(* reaches it, and until then may deliver it to any consumer again.        *)
(***************************************************************************)
EXTENDS Naturals, FiniteSets, SequencesExt

CONSTANTS
    Replicas,   \* the processes; each runs one consumer
    Interests,  \* the interests that may be deleted, each at most once
    Followed,   \* those of them that the liveness properties follow: they are interchangeable
    BatchSize,  \* the batch size that a consumer asks for
    MaxFaults   \* bound on crashes, broken streams, failed sweeps and late losses of
                \* acknowledgements together

ASSUME QueueAssumption ==
    BatchSize \in Nat \ {0} /\ MaxFaults \in Nat /\ Followed \subseteq Interests

VARIABLES
    held,       \* the messages that the queue holds
    acks,       \* per replica, the acknowledgements on their way to the queue
    at,         \* where every consumer is
    batch,      \* the batch it received last
    done,       \* how many messages of that batch it went through
    err,        \* the result it kept is an error; after its loop, so is main's variable err
    faults,     \* how many faults happened
    deleted,    \* history: the interests deleted so far
    swept,      \* history: the interests of which a sweep succeeded
    failed      \* history: the interests of which a sweep failed

vars == <<held, acks, at, batch, done, err, faults, deleted, swept, failed>>

Places == {"down", "connect", "recv", "consume", "returned", "stopped"}

Batches == UNION {{b \in [1 .. n -> Interests] : IsInjective(b)} : n \in 0 .. BatchSize}

(* The stream, the loop or the process of r ends, and r goes to place p. *)
Leave(r, p) ==
    /\ at' = [at EXCEPT ![r] = p]
    /\ batch' = [batch EXCEPT ![r] = <<>>]
    /\ done' = [done EXCEPT ![r] = 0]
    /\ err' = [err EXCEPT ![r] = (p = "returned")]

Fault == faults < MaxFaults /\ faults' = faults + 1

-----------------------------------------------------------------------------

(* The interests service reports that interest i was deleted. *)
Report(i) ==
    /\ i \notin deleted
    /\ deleted' = deleted \cup {i}
    /\ held' = held \cup {i}
    /\ UNCHANGED <<acks, at, batch, done, err, faults, swept, failed>>

(* ReceiveMessages opens a stream and asks for batches; the acknowledgements of an *)
(* earlier stream may still be on their way.                                       *)
Connect(r) ==
    /\ at[r] = "connect"
    /\ Leave(r, "recv")
    /\ UNCHANGED <<held, acks, faults, deleted, swept, failed>>

(* There is no connection or no stream: the consumer's loop returns the error. *)
ConnectFails(r) ==
    /\ at[r] = "connect"
    /\ Leave(r, "returned")
    /\ Fault
    /\ UNCHANGED <<held, acks, deleted, swept, failed>>

(* Mutant of Receive: the queue takes a message that it delivered for done. *)
ReceiveAutoAck(r, b) ==
    /\ at[r] = "recv"
    /\ b # <<>>
    /\ ToSet(b) \subseteq held
    /\ at' = [at EXCEPT ![r] = "consume"]
    /\ batch' = [batch EXCEPT ![r] = b]
    /\ done' = [done EXCEPT ![r] = 0]
    /\ held' = held \ ToSet(b)
    /\ UNCHANGED <<acks, err, faults, deleted, swept, failed>>

(* Mutant of Receive: the messages are counted on from the batch before. *)
ReceiveCountsOn(r, b) ==
    /\ at[r] = "recv"
    /\ b # <<>>
    /\ ToSet(b) \subseteq held
    /\ at' = [at EXCEPT ![r] = "consume"]
    /\ batch' = [batch EXCEPT ![r] = b]
    /\ UNCHANGED <<held, acks, done, err, faults, deleted, swept, failed>>

(* stream.Recv returns the batch b of messages the queue still holds. *)
Receive(r, b) ==
    /\ at[r] = "recv"
    /\ b # <<>>
    /\ ToSet(b) \subseteq held
    /\ at' = [at EXCEPT ![r] = "consume"]
    /\ batch' = [batch EXCEPT ![r] = b]
    /\ done' = [done EXCEPT ![r] = 0]
    /\ UNCHANGED <<held, acks, err, faults, deleted, swept, failed>>

(* stream.Recv returns io.EOF: no error, the consumer opens another stream. *)
EndOfStream(r) ==
    /\ at[r] = "recv"
    /\ Leave(r, "connect")
    /\ Fault
    /\ UNCHANGED <<held, acks, deleted, swept, failed>>

(* Any other error of stream.Recv ends the loop. *)
ReceiveFails(r) ==
    /\ at[r] = "recv"
    /\ Leave(r, "returned")
    /\ Fault
    /\ UNCHANGED <<held, acks, deleted, swept, failed>>

(* UnsubscribeByInterest for the next message; its result replaces the last one. *)
Sweep(r) ==
    /\ at[r] = "consume"
    /\ done[r] < Len(batch[r])
    /\ done' = [done EXCEPT ![r] = @ + 1]
    /\ LET i == batch[r][done[r] + 1]
       IN \/ /\ err' = [err EXCEPT ![r] = FALSE]
             /\ swept' = swept \cup {i}
             /\ UNCHANGED <<faults, failed>>
          \/ /\ err' = [err EXCEPT ![r] = TRUE]
             /\ failed' = failed \cup {i}
             /\ Fault
             /\ UNCHANGED swept
    /\ UNCHANGED <<held, acks, at, batch, deleted>>

(* Mutant of Acknowledge: the error of the batch is not joined to that of the Send. *)
AcknowledgeGoesOn(r) ==
    /\ at[r] = "consume"
    /\ done[r] = Len(batch[r])
    /\ acks' = [acks EXCEPT ![r] = @ \cup ToSet(batch[r])]
    /\ at' = [at EXCEPT ![r] = "recv"]
    /\ UNCHANGED <<held, batch, done, err, faults, deleted, swept, failed>>

(* Mutant of Acknowledge: the count of the acknowledgement is left at zero. *)
AcknowledgeNone(r) ==
    /\ at[r] = "consume"
    /\ done[r] = Len(batch[r])
    /\ IF err[r] THEN Leave(r, "returned")
       ELSE at' = [at EXCEPT ![r] = "recv"] /\ UNCHANGED <<batch, done, err>>
    /\ UNCHANGED <<held, acks, faults, deleted, swept, failed>>

(* stream.Send(ack) of the whole batch, whatever its result was.  An error, kept or *)
(* of the Send, ends the loop with the ack on its way.                              *)
Acknowledge(r) ==
    /\ at[r] = "consume"
    /\ done[r] = Len(batch[r])
    /\ \/ /\ acks' = [acks EXCEPT ![r] = @ \cup ToSet(batch[r])]
          /\ UNCHANGED faults
          /\ \/ ~err[r] /\ at' = [at EXCEPT ![r] = "recv"] /\ UNCHANGED <<batch, done, err>>
             \/ err[r] /\ Leave(r, "returned")
       \/ Fault /\ Leave(r, "returned") /\ UNCHANGED acks
    /\ UNCHANGED <<held, deleted, swept, failed>>

(* The queue reads the acknowledgements of r. *)
AckArrives(r) ==
    /\ acks[r] # {}
    /\ held' = held \ acks[r]
    /\ acks' = [acks EXCEPT ![r] = {}]
    /\ UNCHANGED <<at, batch, done, err, faults, deleted, swept, failed>>

(* A stream that ended takes the acknowledgements with it that the queue did not read; *)
(* those of all streams of r count as one, which is a fault if the last one lives.     *)
AckLost(r) ==
    /\ acks[r] # {}
    /\ IF at[r] \in {"recv", "consume"} THEN Fault ELSE UNCHANGED faults
    /\ acks' = [acks EXCEPT ![r] = {}]
    /\ UNCHANGED <<held, at, batch, done, err, deleted, swept, failed>>

(* The metrics of r are read before its consumer's goroutine looks at the error that it *)
(* assigned: the gauge assigns the result of CountAll to the same variable, and recovers *)
(* from its own panic.  At any other time nobody reads what it assigns.                  *)
Scrape(r) ==
    /\ at[r] = "returned"
    /\ \E e \in BOOLEAN : err' = [err EXCEPT ![r] = e]
    /\ UNCHANGED <<held, acks, at, batch, done, faults, deleted, swept, failed>>

(* Mutant of Check: the error is not looked at. *)
CheckNot(r) ==
    /\ at[r] = "returned"
    /\ at' = [at EXCEPT ![r] = "stopped"]
    /\ UNCHANGED <<held, acks, batch, done, err, faults, deleted, swept, failed>>

(* The goroutine of the consumer panics on an error, and the process with it; *)
(* without one the goroutine ends, and the process lives on.                  *)
Check(r) ==
    /\ at[r] = "returned"
    /\ \/ err[r] /\ Leave(r, "down")
       \/ ~err[r] /\ Leave(r, "stopped")
    /\ UNCHANGED <<held, acks, faults, deleted, swept, failed>>

(* The process dies; a sweep that it was in had no result. *)
Crash(r) ==
    /\ at[r] # "down"
    /\ Leave(r, "down")
    /\ Fault
    /\ UNCHANGED <<held, acks, deleted, swept, failed>>

(* The deployment restarts the process, which connects to its services and starts *)
(* its consumer.                                                                   *)
Restart(r) ==
    /\ at[r] = "down"
    /\ Leave(r, "connect")
    /\ UNCHANGED <<held, acks, faults, deleted, swept, failed>>

(* The process does not get that far: any failure of the start, that of SetConsumer *)
(* the last of them, is a panic.                                                     *)
StartFails(r) ==
    /\ at[r] = "down"
    /\ Fault
    /\ UNCHANGED <<held, acks, at, batch, done, err, deleted, swept, failed>>

-----------------------------------------------------------------------------

Init ==
    /\ held = {}
    /\ acks = [r \in Replicas |-> {}]
    /\ at = [r \in Replicas |-> "connect"]
    /\ batch = [r \in Replicas |-> <<>>]
    /\ done = [r \in Replicas |-> 0]
    /\ err = [r \in Replicas |-> FALSE]
    /\ faults = 0
    /\ deleted = {}
    /\ swept = {}
    /\ failed = {}

Consume(r) == Sweep(r) \/ Acknowledge(r) \/ Check(r)

Next ==
    \/ \E i \in Interests : Report(i)
    \/ \E r \in Replicas :
        \/ Connect(r) \/ ConnectFails(r) \/ EndOfStream(r) \/ ReceiveFails(r)
        \/ \E b \in Batches : Receive(r, b)
        \/ Consume(r)
        \/ AckArrives(r) \/ AckLost(r) \/ Scrape(r) \/ Crash(r) \/ Restart(r) \/ StartFails(r)

Spec == Init /\ [][Next]_vars

(* Processes are restarted and scheduled, remote calls end, and the queue goes on *)
(* delivering every message it holds.                                             *)
FairSpec ==
    /\ Spec
    /\ \A r \in Replicas :
        /\ WF_vars(Connect(r) \/ Consume(r) \/ Restart(r))
        /\ WF_vars(AckArrives(r) \/ AckLost(r))
    /\ \A i \in Interests :
        SF_vars(\E r \in Replicas, b \in Batches : i \in ToSet(b) /\ Receive(r, b))

-----------------------------------------------------------------------------

(* Every variable stays in its set. *)
TypeOK ==
    /\ held \subseteq deleted
    /\ acks \in [Replicas -> SUBSET deleted]
    /\ at \in [Replicas -> Places]
    /\ batch \in [Replicas -> Batches]
    /\ done \in [Replicas -> 0 .. BatchSize]
    /\ \A r \in Replicas : done[r] \leq Len(batch[r])
    /\ err \in [Replicas -> BOOLEAN]
    /\ faults \in 0 .. MaxFaults
    /\ deleted \subseteq Interests
    /\ swept \subseteq deleted
    /\ failed \subseteq deleted

(* A deleted interest leaves the queue only after a sweep of it was tried to the *)
(* end: no crash, broken stream or lost acknowledgement loses a message that the *)
(* consumer did not go through (ReceiveMessages acknowledges after consume).     *)
NotLost == deleted \subseteq held \cup swept \cup failed

(* A consumer goes back to waiting only if the last sweep of its batch succeeded; *)
(* the failures of the earlier ones go unnoticed (main.go:218).                   *)
LastSweepSucceeded ==
    \A r \in Replicas :
        at[r] = "recv" /\ batch[r] # <<>> => Last(batch[r]) \in swept

(* The consumer of r ended without a trace: the process goes on, with no error to see. *)
Silenced(r) == at[r] = "stopped" /\ ~err[r]

(* Every deleted interest is swept in the end, or a sweep of it failed, unless the     *)
(* gauge silenced the consumers of all replicas: nothing else stops one for good.      *)
EventuallySwept ==
    \A i \in Followed :
        i \in deleted ~> i \in swept \cup failed \/ \A r \in Replicas : Silenced(r)

(* With a consumer left the queue drains: no message is delivered again for ever. *)
EventuallyAcknowledged ==
    \A i \in Followed :
        i \in deleted ~> i \notin held \/ \A r \in Replicas : Silenced(r)
=============================================================================
