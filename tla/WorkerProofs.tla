----------------------------- MODULE WorkerProofs -----------------------------
(***************************************************************************)
(* What holds of Worker for every adapter, vocabulary, budget, line limit, *)
(* number of writes and set of faults.                                     *)
(***************************************************************************)
EXTENDS Worker, SequenceTheorems, TLAPS

(* Taking a chunk may report the limit, and touches nothing else.           *)
LEMMA BeginWriteType ==
  ASSUME SupervisorTypeOK, NEW s \in Streams, NEW chunk, BeginWrite(s, chunk)
  PROVE  /\ limited' \in [Streams -> BOOLEAN]
         /\ reason' \in Reasons /\ grace' \in BOOLEAN
BY DEF SupervisorTypeOK, BeginWrite, onOutputLimit, Terminate, Reasons, Forced

(* Every action of the supervisor keeps its variables' types: one lemma for *)
(* what the event loop does at the pipes, one for the rest.                 *)
LEMMA ServeType ==
  ASSUME SupervisorTypeOK, Serve
  PROVE  SupervisorTypeOK'
<1>1. CASE Close
  BY <1>1 DEF Close, SupervisorTypeOK, group, sinks, control
<1>2. ASSUME NEW s \in Streams, Pump(s)
      PROVE  SupervisorTypeOK'
  <2>1. /\ limited' \in [Streams -> BOOLEAN]
        /\ reason' \in Reasons /\ grace' \in BOOLEAN
    BY <1>2, BeginWriteType DEF Pump, SupervisorTypeOK
  <2> QED BY <1>2, <2>1 DEF Pump, SupervisorTypeOK, group, control
<1>3. ASSUME NEW s \in Streams, Discard(s)
      PROVE  SupervisorTypeOK'
  BY <1>3 DEF Discard, SupervisorTypeOK, group, control
<1>4. ASSUME NEW s \in Streams, EndWrite(s)
      PROVE  SupervisorTypeOK'
  <2>1. /\ limited' \in [Streams -> BOOLEAN]
        /\ reason' \in Reasons /\ grace' \in BOOLEAN
    BY <1>4, BeginWriteType DEF EndWrite, SupervisorTypeOK
  <2> QED BY <1>4, <2>1 DEF EndWrite, SupervisorTypeOK, group, control
<1>5. ASSUME NEW s \in Streams, WriteFails(s)
      PROVE  SupervisorTypeOK'
  BY <1>5 DEF WriteFails, SupervisorTypeOK, onOutputError, Terminate, Reasons, Forced,
              group, control
<1> QED BY <1>1, <1>2, <1>3, <1>4, <1>5 DEF Serve

LEMMA SayType ==
  ASSUME SupervisorTypeOK, NEW s, NEW text, Say(s, text)
  PROVE  SupervisorTypeOK'
BY DEF Say, SupervisorTypeOK, control

LEMMA TimersType ==
  ASSUME SupervisorTypeOK, HardTimeout \/ Escalate \/ Cancel \/ LeaderExits \/ HelperEnds
  PROVE  SupervisorTypeOK'
<1>1. CASE HardTimeout
  BY <1>1 DEF HardTimeout, Terminate, SupervisorTypeOK, Reasons, Forced, group, sinks
<1>2. CASE Escalate
  BY <1>2 DEF Escalate, SupervisorTypeOK, sinks
<1>3. CASE Cancel
  BY <1>3 DEF Cancel, Terminate, SupervisorTypeOK, Reasons, group, sinks
<1>4. CASE LeaderExits
  BY <1>4 DEF LeaderExits, SupervisorTypeOK, sinks, control
<1>5. CASE HelperEnds
  BY <1>5 DEF HelperEnds, SupervisorTypeOK, sinks, control
<1> QED BY <1>1, <1>2, <1>3, <1>4, <1>5

(* What a finished worker is judged to be is one of the clean exits.        *)
LEMMA JudgeType == \A batch : Judge(batch) \in CleanExits
BY DEF Judge, CleanExits

LEMMA SurvivorType ==
  ASSUME SupervisorTypeOK, SurvivorTypeOK, Recycle \/ StopSurvivor
  PROVE  SupervisorTypeOK' /\ SurvivorTypeOK'
<1>1. CASE Recycle
  BY <1>1 DEF Recycle, SupervisorTypeOK, SurvivorTypeOK, supervisor, group, sinks, control
<1>2. CASE Probe
  BY <1>2 DEF Probe, SupervisorTypeOK, SurvivorTypeOK, supervisor, group, sinks, control
<1>3. CASE PollSeesItGone
  BY <1>3 DEF PollSeesItGone, SupervisorTypeOK, SurvivorTypeOK, supervisor, group, sinks, control
<1>4. CASE KillSurvivor
  BY <1>4 DEF KillSurvivor, SupervisorTypeOK, SurvivorTypeOK, sinks, control
<1> QED BY <1>1, <1>2, <1>3, <1>4 DEF StopSurvivor

(* A verdict is the first cause if there is one, and a natural end if not.  *)
LEMMA VerdictType ==
  ASSUME reason \in Reasons, NEW v \in Verdicts
  PROVE  IF reason = "exited" THEN v \in CleanExits \cup {"nonzero"} ELSE v = reason
BY JudgeType DEF Verdicts, CleanExits

(* The steps of the handle and of the daemon around the supervisor.         *)
LEMMA EndingType ==
  ASSUME TypeOK, Complete \/ CompleteFails \/ Finalize \/ FinalizeFails \/ Crash
  PROVE  TypeOK'
<1>1. CASE Complete
  BY <1>1 DEF Complete, TypeOK, SupervisorTypeOK, SurvivorTypeOK, group, control, survivor
<1>2. CASE CompleteFails \/ FinalizeFails
  BY <1>2 DEF CompleteFails, FinalizeFails, TypeOK, SupervisorTypeOK, SurvivorTypeOK, supervisor,
              group, sinks, control, survivor
<1>3. CASE Finalize
  <2>1. outcome' \in Outcomes
    BY <1>3, VerdictType
       DEF Finalize, TypeOK, SupervisorTypeOK, Reasons, Outcomes, CleanExits, Forced
  <2> QED BY <1>3, <2>1 DEF Finalize, TypeOK, SupervisorTypeOK, SurvivorTypeOK, supervisor,
                            group, sinks, control, survivor
<1>4. CASE Crash
  BY <1>4 DEF Crash, TypeOK, SupervisorTypeOK, SurvivorTypeOK, OnEach, survivor
<1> QED BY <1>1, <1>2, <1>3, <1>4

LEMMA NextType ==
  ASSUME TypeOK, [Next]_vars
  PROVE  TypeOK'
<1> USE DEF TypeOK
<1>1. CASE Supervise
  <2>1. CASE Speak
    BY <1>1, <2>1, SayType DEF Supervise, Speak, survivor, ending, SurvivorTypeOK
  <2>2. CASE HardTimeout \/ Escalate
    BY <1>1, <2>2, TimersType DEF Supervise, survivor, ending, SurvivorTypeOK
  <2>3. CASE Serve
    BY <1>1, <2>3, ServeType DEF Supervise, survivor, ending, SurvivorTypeOK
  <2> QED BY <1>1, <2>1, <2>2, <2>3 DEF Supervise
<1>2. CASE GroupEnds
  BY <1>2, TimersType DEF GroupEnds, survivor, ending, SurvivorTypeOK
<1>3. CASE AskCancel
  BY <1>3, TimersType DEF AskCancel, survivor, ending, SurvivorTypeOK, SupervisorTypeOK
<1>4. CASE Complete \/ CompleteFails \/ Finalize \/ FinalizeFails \/ Crash
  BY <1>4, EndingType
<1>5. CASE Recover
  BY <1>5, SurvivorType DEF Recover, ending
<1>6. CASE UNCHANGED vars
  BY <1>6 DEF vars, supervisor, group, sinks, control, survivor, ending,
              SupervisorTypeOK, SurvivorTypeOK
<1> QED BY <1>1, <1>2, <1>3, <1>4, <1>5, <1>6 DEF Next

(* Every variable of a worker's life keeps its type.                        *)
THEOREM TypeCorrect == Spec => []TypeOK
<1>1. Init => TypeOK
  <2> SUFFICES ASSUME Init PROVE TypeOK
    OBVIOUS
  <2>1. SupervisorTypeOK
    BY DEF Init, SupervisorInit, SupervisorTypeOK, Reasons, OnEach
  <2>2. SurvivorTypeOK
    BY DEF Init, SurvivorInit, SurvivorTypeOK
  <2> QED BY <2>1, <2>2 DEF Init, TypeOK
<1> QED BY <1>1, NextType, PTL DEF Spec

-----------------------------------------------------------------------------
(***************************************************************************)
(* The cause of a worker's end.                                            *)
(***************************************************************************)

(* terminate sets the reason only while there is none, and never after the  *)
(* close.                                                                   *)
LEMMA TerminateKeeps ==
  ASSUME NEW why, Terminate(why)
  PROVE  /\ reason # "exited" \/ settled => reason' = reason
         /\ ~settled /\ why # "exited" => reason' # "exited"
         /\ reason' \in {reason, why}
BY DEF Terminate

LEMMA BeginWriteKeeps ==
  ASSUME NEW s, NEW chunk, BeginWrite(s, chunk)
  PROVE  /\ reason # "exited" \/ settled => reason' = reason
         /\ reason' \in {reason, "output_limit"}
         /\ limited' # limited /\ ~settled => reason' # "exited"
BY TerminateKeeps DEF BeginWrite, onOutputLimit

(* What serving the pipes can do to the reason, and that it names a drop.   *)
LEMMA ServeKeeps ==
  ASSUME Serve
  PROVE  /\ reason # "exited" \/ settled => reason' = reason
         /\ reason' \in {reason, "output_limit", "output_error"}
         /\ <<limited, broken>>' # <<limited, broken>> /\ ~settled => reason' # "exited"
         /\ leader' = leader /\ helper' = helper
<1>1. CASE Close
  BY <1>1 DEF Close, group, sinks
<1>2. ASSUME NEW s \in Streams, Pump(s)
      PROVE  /\ reason # "exited" \/ settled => reason' = reason
             /\ reason' \in {reason, "output_limit", "output_error"}
             /\ <<limited, broken>>' # <<limited, broken>> /\ ~settled => reason' # "exited"
             /\ leader' = leader /\ helper' = helper
  BY <1>2, BeginWriteKeeps DEF Pump, group
<1>3. ASSUME NEW s \in Streams, Discard(s)
      PROVE  UNCHANGED <<reason, limited, broken, leader, helper>>
  BY <1>3 DEF Discard, group, control
<1>4. ASSUME NEW s \in Streams, EndWrite(s)
      PROVE  /\ reason # "exited" \/ settled => reason' = reason
             /\ reason' \in {reason, "output_limit", "output_error"}
             /\ <<limited, broken>>' # <<limited, broken>> /\ ~settled => reason' # "exited"
             /\ leader' = leader /\ helper' = helper
  BY <1>4, BeginWriteKeeps DEF EndWrite, group
<1>5. ASSUME NEW s \in Streams, WriteFails(s)
      PROVE  /\ reason # "exited" \/ settled => reason' = reason
             /\ reason' \in {reason, "output_limit", "output_error"}
             /\ ~settled => reason' # "exited"
             /\ leader' = leader /\ helper' = helper
  BY <1>5, TerminateKeeps DEF WriteFails, onOutputError, group
<1> QED BY <1>1, <1>2, <1>3, <1>4, <1>5 DEF Serve

(* "First cause wins": whatever follows a first cause, or the close, leaves *)
(* the reason as it is.                                                     *)
THEOREM FirstCause == Spec => FirstCauseWins
<1>1. ASSUME [Next]_vars
      PROVE  reason # "exited" \/ settled => reason' = reason
  <2>1. CASE Supervise
    <3>1. CASE Speak
      BY <3>1 DEF Speak, Say, control
    <3>2. CASE HardTimeout
      BY <3>2, TerminateKeeps DEF HardTimeout
    <3>3. CASE Escalate
      BY <3>3 DEF Escalate
    <3>4. CASE Serve
      BY <3>4, ServeKeeps
    <3> QED BY <2>1, <3>1, <3>2, <3>3, <3>4 DEF Supervise
  <2>2. CASE GroupEnds
    BY <2>2 DEF GroupEnds, LeaderExits, HelperEnds, control
  <2>3. CASE AskCancel
    BY <2>3, TerminateKeeps DEF AskCancel, Cancel
  <2>4. CASE Complete \/ CompleteFails \/ Finalize \/ FinalizeFails \/ Crash
    BY <2>4 DEF Complete, CompleteFails, Finalize, FinalizeFails, Crash, supervisor, control
  <2>5. CASE Recover
    BY <2>5 DEF Recover, Recycle, StopSurvivor, Probe, PollSeesItGone, KillSurvivor,
                supervisor, control
  <2>6. CASE UNCHANGED vars
    BY <2>6 DEF vars, supervisor, control
  <2> QED BY <1>1, <2>1, <2>2, <2>3, <2>4, <2>5, <2>6 DEF Next
<1>2. [Next]_vars => [/\ reason # "exited" => reason' = reason
                      /\ settled => reason' = reason]_vars
  BY <1>1
<1> QED BY <1>2, PTL DEF Spec, FirstCauseWins

(* Output dropped before the close is the run's failure, or comes after     *)
(* something else already was.                                              *)
THEOREM DropsAreNamed == Spec => DropIsNamed
<1> DEFINE Explained == \A s \in Streams : ~settled /\ ~Dropped(s) /\ Dropped(s)' => reason' # "exited"
<1>1. ASSUME [Next]_vars
      PROVE  Explained
  <2>1. CASE UNCHANGED <<limited, broken>>
    BY <2>1 DEF Dropped
  <2>2. CASE Supervise
    <3>1. CASE Serve
      BY <3>1, ServeKeeps DEF Dropped
    <3>2. CASE Speak \/ HardTimeout \/ Escalate
      BY <2>1, <3>2 DEF Speak, Say, HardTimeout, Escalate, sinks
    <3> QED BY <2>2, <3>1, <3>2 DEF Supervise
  <2>3. CASE GroupEnds \/ AskCancel
    BY <2>1, <2>3 DEF GroupEnds, LeaderExits, HelperEnds, AskCancel, Cancel, sinks
  <2>4. CASE Complete \/ CompleteFails \/ Finalize \/ FinalizeFails
    BY <2>1, <2>4 DEF Complete, CompleteFails, Finalize, FinalizeFails, supervisor, sinks
  <2>5. CASE Crash
    BY <2>5 DEF Crash, Dropped, OnEach
  <2>6. CASE Recover
    BY <2>1, <2>6 DEF Recover, Recycle, StopSurvivor, Probe, PollSeesItGone, KillSurvivor,
                      supervisor, sinks
  <2>7. CASE UNCHANGED vars
    BY <2>1, <2>7 DEF vars, supervisor, sinks
  <2> QED BY <1>1, <2>2, <2>3, <2>4, <2>5, <2>6, <2>7 DEF Next
<1>2. [Next]_vars => [Explained]_vars
  BY <1>1
<1> QED BY <1>2, PTL DEF Spec, DropIsNamed

-----------------------------------------------------------------------------
(***************************************************************************)
(* Recovery and the owner of the pid.                                      *)
(***************************************************************************)

(* StrangerSpared is not inductive: it needs that polling has verified the  *)
(* process, and that nothing is signalled before.                           *)
Verified ==
  /\ rec = "none" => ~signalled
  /\ rec = "polling" => stranger # "far"
  /\ stranger = "none" => ~signalled

LEMMA RecoverVerified ==
  ASSUME SurvivorTypeOK, Verified, StrangerSpared, Recycle \/ StopSurvivor
  PROVE  Verified' /\ StrangerSpared'
<1> USE DEF SurvivorTypeOK, Verified, StrangerSpared
<1>1. CASE Recycle
  BY <1>1 DEF Recycle
<1>2. CASE Probe
  <2> PICK liveness \in verifyWorkerAlive :
             IF liveness = "alive"
               THEN rec' = "polling" /\ signalled' = (stranger # "none")
               ELSE rec' = "done" /\ UNCHANGED signalled
    BY <1>2 DEF Probe
  <2>1. liveness = "alive" => stranger # "far" /\ stranger # "late"
    BY DEF verifyWorkerAlive
  <2> QED BY <1>2, <2>1 DEF Probe
<1>3. CASE PollSeesItGone
  BY <1>3 DEF PollSeesItGone
<1>4. CASE KillSurvivor
  BY <1>4 DEF KillSurvivor
<1> QED BY <1>1, <1>2, <1>3, <1>4 DEF StopSurvivor

(* A process that had taken the recorded pid before recovery looked, with   *)
(* another start time, is never signalled.                                  *)
THEOREM StrangersSpared == Spec => []StrangerSpared
<1>1. Init => Verified /\ StrangerSpared
  BY DEF Init, SurvivorInit, Verified, StrangerSpared
<1>2. TypeOK /\ Verified /\ StrangerSpared /\ [Next]_vars => (Verified /\ StrangerSpared)'
  <2> SUFFICES ASSUME TypeOK, Verified, StrangerSpared, [Next]_vars
               PROVE  (Verified /\ StrangerSpared)'
    OBVIOUS
  <2>1. CASE UNCHANGED survivor
    BY <2>1 DEF survivor, Verified, StrangerSpared
  <2>2. CASE Recover
    BY <2>2, RecoverVerified DEF Recover, TypeOK
  <2> QED BY <2>1, <2>2 DEF Next, Supervise, GroupEnds, AskCancel, Complete, CompleteFails,
                            Finalize, FinalizeFails, Crash, vars
<1> QED BY <1>1, <1>2, TypeCorrect, PTL DEF Spec

-----------------------------------------------------------------------------
(***************************************************************************)
(* The contract.                                                           *)
(***************************************************************************)

(* What the outcome may still become: nobody has judged a worker that is    *)
(* supervised or completed, and the reason remembers whether a              *)
(* cancellation came in time.                                               *)
Undecided ==
  /\ outcome = "alive" <=> stage \in {"supervised", "completed"}
  /\ asked => reason \in Forced \cup {"cancelled"}
  /\ ~asked => reason # "cancelled"

(* A step that touches neither the outcome nor the request is a stutter of  *)
(* the contract; the others are its actions.                                *)
LEMMA StepIsContract ==
  ASSUME TypeOK, Undecided, [Next]_vars
  PROVE  Undecided' /\ [Contract!Next]_<<outcome, asked>>
<1> USE DEF Undecided
<1>1. CASE UNCHANGED <<stage, outcome, asked, reason>>
  BY <1>1
<1>2. CASE Supervise
  <2>1. UNCHANGED <<stage, outcome, asked>>
    BY <1>2 DEF Supervise, ending
  <2>2. /\ asked => reason' \in Forced \cup {"cancelled"}
        /\ ~asked => reason' # "cancelled"
    <3>1. CASE Serve
      BY <3>1, ServeKeeps DEF Forced
    <3>2. CASE Speak \/ Escalate
      BY <3>2 DEF Speak, Say, Escalate, control
    <3>3. CASE HardTimeout
      BY <3>3, TerminateKeeps DEF HardTimeout, Forced
    <3> QED BY <1>2, <3>1, <3>2, <3>3 DEF Supervise
  <2> QED BY <2>1, <2>2
<1>3. CASE GroupEnds
  BY <1>1, <1>3 DEF GroupEnds, LeaderExits, HelperEnds, control, ending
<1>4. CASE AskCancel
  <2>1. /\ stage = "supervised" /\ UNCHANGED <<stage, outcome>>
        /\ asked' = (asked \/ ~settled)
        /\ Terminate("cancelled")
    BY <1>4 DEF AskCancel, Cancel, Alive, ending
  <2>2. reason \in Reasons /\ asked \in BOOLEAN /\ settled \in BOOLEAN
    BY DEF TypeOK, SupervisorTypeOK
  <2>3. CASE settled
    <3>1. reason' = reason /\ asked' = asked
      BY <2>1, <2>2, <2>3 DEF Terminate
    <3> QED BY <1>1, <2>1, <3>1
  <2>4. CASE ~settled
    <3>1. asked' = TRUE
      BY <2>1, <2>2, <2>4
    <3>2. reason' = IF reason = "exited" THEN "cancelled" ELSE reason
      BY <2>1, <2>4 DEF Terminate
    <3>3. Contract!Ask
      BY <2>1, <3>1 DEF Contract!Ask
    <3>4. Undecided'
      BY <2>1, <2>2, <3>1, <3>2 DEF Reasons, Forced
    <3> QED BY <3>3, <3>4 DEF Contract!Next
  <2> QED BY <2>3, <2>4
<1>5. CASE Complete
  BY <1>5 DEF Complete, control
<1>6. CASE CompleteFails \/ FinalizeFails \/ Crash
  <2>1. /\ stage \in {"supervised", "completed"} /\ stage' \in {"over", "crashed"}
        /\ outcome' = "unread" /\ UNCHANGED <<reason, asked>>
    BY <1>6 DEF CompleteFails, FinalizeFails, Crash, supervisor, control
  <2>2. Contract!Vanish
    BY <2>1 DEF Contract!Vanish
  <2>3. Undecided'
    BY <2>1
  <2> QED BY <2>2, <2>3 DEF Contract!Next
<1>7. CASE Finalize
  <2>1. outcome = "alive" /\ stage' = "over" /\ UNCHANGED <<reason, asked>>
        /\ outcome' \in Verdicts
    BY <1>7 DEF Finalize, supervisor, control
  <2>2. reason \in Reasons
    BY DEF TypeOK, SupervisorTypeOK
  <2>3. IF reason = "exited" THEN outcome' \in CleanExits \cup {"nonzero"}
                             ELSE outcome' = reason
    BY <2>1, <2>2, VerdictType
  <2>4. outcome' \in IF asked THEN Forced \cup {"cancelled"} ELSE Outcomes \ {"cancelled"}
    BY <2>2, <2>3 DEF Reasons, Outcomes, CleanExits, Forced
  <2>5. Contract!End
    BY <2>1, <2>4 DEF Contract!End, Contract!Outcomes, Contract!CleanExits, Contract!Forced,
                      Outcomes, CleanExits, Forced
  <2>6. outcome' # "alive"
    BY <2>2, <2>3 DEF Reasons, CleanExits, Forced
  <2> QED BY <2>1, <2>5, <2>6 DEF Contract!Next
<1>8. CASE Recover
  BY <1>1, <1>8 DEF Recover, Recycle, StopSurvivor, Probe, PollSeesItGone, KillSurvivor,
                    supervisor, control, ending
<1>9. CASE UNCHANGED vars
  BY <1>1, <1>9 DEF vars, supervisor, control, ending
<1> QED BY <1>2, <1>3, <1>4, <1>5, <1>6, <1>7, <1>8, <1>9 DEF Next

(* The process, its pipes and timers, the adapter, the judgement and the    *)
(* crash together keep the contract the orchestrator is built on.           *)
THEOREM KeepsContract == Spec => ImplementsContract
<1>1. Init => Undecided /\ Contract!Init
  BY DEF Init, SupervisorInit, Undecided, Contract!Init
<1>2. TypeOK /\ Undecided /\ [Next]_vars => Undecided' /\ [Contract!Next]_<<outcome, asked>>
  BY StepIsContract
<1> QED BY <1>1, <1>2, TypeCorrect, PTL DEF Spec, ImplementsContract, Contract!Spec

-----------------------------------------------------------------------------
(* The chunk is what the text holds from there on.                          *)
Slice(chunk, text, from) ==
  /\ from + Len(chunk) <= Len(text)
  /\ \A j \in 1 .. Len(chunk) : chunk[j] = text[from + j]

(* The chunks, one behind the other, are the text between the cuts.         *)
Chunked(chunks, text, cuts) ==
  \A i \in 1 .. Len(chunks) :
    cuts[i + 1] = cuts[i] + Len(chunks[i]) /\ Slice(chunks[i], text, cuts[i])

(* A stream under way: what is written, the chunks in the sink's queue and  *)
(* the rest in the pipe follow each other in the text, and something is     *)
(* missing between the first two only if the budget cut it off.             *)
InFlight(text, rest, chunks, written, bound, cut) ==
  \E cuts \in [1 .. Len(chunks) + 1 -> Nat] :
    /\ Chunked(chunks, text, cuts)
    /\ cuts[Len(chunks) + 1] + Len(rest) = Len(text)
    /\ Slice(rest, text, cuts[Len(chunks) + 1])
    /\ Len(written) <= cuts[1]
    /\ Len(written) < cuts[1] => cut /\ Len(written) = bound

(* What is said later changes no slice, and two that follow each other are  *)
(* one.                                                                     *)
LEMMA SliceGrows ==
  ASSUME NEW S, NEW text \in Seq(S), NEW more \in Seq(S), NEW chunk \in Seq(S),
         NEW from \in Nat, Slice(chunk, text, from)
  PROVE  Slice(chunk, text \o more, from)
BY ConcatProperties DEF Slice

LEMMA SliceJoins ==
  ASSUME NEW S, NEW text \in Seq(S), NEW one \in Seq(S), NEW two \in Seq(S),
         NEW from \in Nat, Slice(one, text, from), Slice(two, text, from + Len(one))
  PROVE  Slice(one \o two, text, from)
<1>1. /\ Len(one \o two) = Len(one) + Len(two)
      /\ \A i \in 1 .. Len(one) + Len(two) :
           (one \o two)[i] = IF i <= Len(one) THEN one[i] ELSE two[i - Len(one)]
  BY ConcatProperties
<1>2. Len(one) \in Nat /\ Len(two) \in Nat /\ Len(text) \in Nat
  OBVIOUS
<1>3. ASSUME NEW j \in 1 .. Len(one) + Len(two)
      PROVE  (one \o two)[j] = text[from + j]
  <2>1. CASE j <= Len(one)
    BY <1>1, <1>2, <2>1 DEF Slice
  <2>2. CASE ~(j <= Len(one))
    <3>1. j - Len(one) \in 1 .. Len(two) /\ from + Len(one) + (j - Len(one)) = from + j
      BY <1>2, <2>2
    <3> QED BY <1>1, <2>2, <3>1 DEF Slice
  <2> QED BY <2>1, <2>2
<1> QED BY <1>1, <1>2, <1>3 DEF Slice

(* The worker speaks, a chunk is pumped into the queue, the sink takes one: *)
(* whatever the stream, it stays a stream under way.                        *)
LEMMA Saying ==
  ASSUME NEW S, NEW text \in Seq(S), NEW rest \in Seq(S), NEW chunks \in Seq(Seq(S)),
         NEW written, NEW bound, NEW cut, NEW more \in Seq(S),
         InFlight(text, rest, chunks, written, bound, cut)
  PROVE  InFlight(text \o more, rest \o more, chunks, written, bound, cut)
<1>1. PICK n \in Nat : n = Len(chunks)
  OBVIOUS
<1>2. PICK cuts \in [1 .. n + 1 -> Nat] :
        /\ Chunked(chunks, text, cuts)
        /\ cuts[n + 1] + Len(rest) = Len(text)
        /\ Slice(rest, text, cuts[n + 1])
        /\ Len(written) <= cuts[1]
        /\ Len(written) < cuts[1] => cut /\ Len(written) = bound
  BY <1>1 DEF InFlight
<1>3. \A i \in 1 .. n + 1 : cuts[i] \in Nat
  OBVIOUS
<1>4. Chunked(chunks, text \o more, cuts)
  <2> SUFFICES ASSUME NEW i \in 1 .. n
               PROVE  Slice(chunks[i], text \o more, cuts[i])
    BY <1>1, <1>2 DEF Chunked
  <2>1. PICK chunk \in Seq(S) : chunk = chunks[i]
    BY <1>1, ElementOfSeq
  <2>2. PICK from \in Nat : from = cuts[i]
    BY <1>1, <1>3
  <2> QED BY <1>1, <1>2, <2>1, <2>2, SliceGrows DEF Chunked
<1>5. PICK k \in Nat : k = cuts[n + 1]
  BY <1>1, <1>3
<1>6. k + Len(rest \o more) = Len(text \o more)
  BY <1>2, <1>5, ConcatProperties
<1>7. Slice(rest \o more, text \o more, k)
  <2>1. Slice(rest, text \o more, k)
    BY <1>2, <1>5, SliceGrows
  <2>2. Slice(more, text \o more, k + Len(rest))
    <3>1. k + Len(rest) = Len(text)
      BY <1>2, <1>5
    <3>2. /\ Len(text \o more) = Len(text) + Len(more)
          /\ \A i \in 1 .. Len(text) + Len(more) :
               (text \o more)[i] = IF i <= Len(text) THEN text[i] ELSE more[i - Len(text)]
      BY ConcatProperties
    <3>3. Len(text) \in Nat /\ Len(more) \in Nat
      OBVIOUS
    <3> QED BY <3>1, <3>2, <3>3 DEF Slice
  <2> QED BY <2>1, <2>2, SliceJoins, ConcatProperties
<1> QED BY <1>1, <1>2, <1>4, <1>5, <1>6, <1>7 DEF InFlight

LEMMA Pumping ==
  ASSUME NEW S, NEW text \in Seq(S), NEW rest \in Seq(S), NEW chunks \in Seq(Seq(S)),
         NEW written, NEW bound, NEW cut \in BOOLEAN, NEW cut2 \in BOOLEAN, cut => cut2,
         InFlight(text, rest, chunks, written, bound, cut)
  PROVE  InFlight(text, <<>>, Append(chunks, rest), written, bound, cut2)
<1>1. PICK n \in Nat : n = Len(chunks)
  OBVIOUS
<1>2. PICK cuts \in [1 .. n + 1 -> Nat] :
        /\ Chunked(chunks, text, cuts)
        /\ cuts[n + 1] + Len(rest) = Len(text)
        /\ Slice(rest, text, cuts[n + 1])
        /\ Len(written) <= cuts[1]
        /\ Len(written) < cuts[1] => cut /\ Len(written) = bound
  BY <1>1 DEF InFlight
<1>3. PICK longer : longer = Append(chunks, rest)
  OBVIOUS
<1>4. /\ Len(longer) = n + 1 /\ longer[n + 1] = rest
      /\ \A i \in 1 .. n : longer[i] = chunks[i]
  BY <1>1, <1>3, AppendProperties
<1>5. PICK ends : ends = [i \in 1 .. n + 2 |-> IF i = n + 2 THEN Len(text) ELSE cuts[i]]
  OBVIOUS
<1>6. /\ ends \in [1 .. Len(longer) + 1 -> Nat]
      /\ ends[n + 2] = Len(text) /\ \A i \in 1 .. n + 1 : ends[i] = cuts[i]
  <2>1. Len(text) \in Nat
    OBVIOUS
  <2> QED BY <1>4, <1>5, <2>1
<1>7. Chunked(longer, text, ends)
  <2> SUFFICES ASSUME NEW i \in 1 .. n + 1
               PROVE  /\ ends[i + 1] = ends[i] + Len(longer[i])
                      /\ Slice(longer[i], text, ends[i])
    BY <1>4 DEF Chunked
  <2>1. CASE i = n + 1
    <3>1. longer[i] = rest /\ ends[i] = cuts[n + 1] /\ ends[i + 1] = Len(text)
      BY <1>4, <1>6, <2>1
    <3> QED BY <1>2, <2>1, <3>1
  <2>2. CASE i # n + 1
    <3>1. i \in 1 .. n /\ i + 1 \in 1 .. n + 1
      BY <2>2
    <3>2. longer[i] = chunks[i] /\ ends[i] = cuts[i] /\ ends[i + 1] = cuts[i + 1]
      BY <1>4, <1>6, <3>1
    <3> QED BY <1>1, <1>2, <3>1, <3>2 DEF Chunked
  <2> QED BY <2>1, <2>2
<1>8. /\ ends[Len(longer) + 1] + Len(<<>>) = Len(text)
      /\ Slice(<<>>, text, ends[Len(longer) + 1])
  <2>1. Len(text) \in Nat /\ Len(<<>>) = 0 /\ ends[Len(longer) + 1] = Len(text)
    BY <1>4, <1>6
  <2> QED BY <2>1 DEF Slice
<1>9. ends[1] = cuts[1]
  BY <1>6
<1> QED BY <1>2, <1>3, <1>6, <1>7, <1>8, <1>9 DEF InFlight

LEMMA Writing ==
  ASSUME NEW S, NEW text \in Seq(S), NEW rest \in Seq(S), NEW chunks \in Seq(Seq(S)),
         NEW written \in Seq(S), NEW bound \in Nat, NEW cut \in BOOLEAN, NEW cut2 \in BOOLEAN, cut => cut2,
         NEW taken \in Seq(S), chunks # <<>>,
         Len(written) <= bound,
         NEW first \in Seq(S), first = Head(chunks),
         Len(first) > bound - Len(written) => cut,
         Len(taken) = IF Len(first) > bound - Len(written) THEN bound - Len(written)
                                                           ELSE Len(first),
         InFlight(text, rest, chunks, written, bound, cut)
  PROVE  InFlight(text, rest, Tail(chunks), written \o taken, bound, cut2)
<1>1. PICK n \in Nat : n = Len(chunks)
  OBVIOUS
<1>2. PICK cuts \in [1 .. n + 1 -> Nat] :
        /\ Chunked(chunks, text, cuts)
        /\ cuts[n + 1] + Len(rest) = Len(text)
        /\ Slice(rest, text, cuts[n + 1])
        /\ Len(written) <= cuts[1]
        /\ Len(written) < cuts[1] => cut /\ Len(written) = bound
  BY <1>1 DEF InFlight
<1>3. PICK fewer : fewer = Tail(chunks)
  OBVIOUS
<1>5. /\ n >= 1 /\ Len(fewer) = n - 1 /\ first = chunks[1]
      /\ \A i \in 1 .. n - 1 : fewer[i] = chunks[i + 1]
  BY <1>1, <1>3, HeadTailProperties
<1>4. Len(fewer) + 1 = n
  BY <1>5
<1>6. PICK ends : ends = [i \in 1 .. n |-> cuts[i + 1]]
  OBVIOUS
<1>7. ends \in [1 .. Len(fewer) + 1 -> Nat] /\ \A i \in 1 .. n : ends[i] = cuts[i + 1]
  <2>1. \A i \in 1 .. n : i + 1 \in 1 .. n + 1 /\ cuts[i + 1] \in Nat
    OBVIOUS
  <2>2. ends \in [1 .. n -> Nat] /\ \A i \in 1 .. n : ends[i] = cuts[i + 1]
    BY <1>6, <2>1
  <2> QED BY <1>4, <2>2
<1>8. Chunked(fewer, text, ends)
  <2> SUFFICES ASSUME NEW i \in 1 .. n - 1
               PROVE  /\ ends[i + 1] = ends[i] + Len(fewer[i])
                      /\ Slice(fewer[i], text, ends[i])
    BY <1>5 DEF Chunked
  <2>1. i + 1 \in 1 .. n /\ i \in 1 .. n
    BY <1>5
  <2>2. fewer[i] = chunks[i + 1] /\ ends[i] = cuts[i + 1] /\ ends[i + 1] = cuts[(i + 1) + 1]
    BY <1>5, <1>7, <2>1
  <2> QED BY <1>1, <1>2, <2>1, <2>2 DEF Chunked
<1>9. ends[Len(fewer) + 1] = cuts[n + 1]
  BY <1>5, <1>7
<1>10. ends[1] = cuts[1] + Len(first)
  BY <1>1, <1>2, <1>5, <1>7 DEF Chunked
<1>11. Len(written \o taken) = Len(written) + Len(taken)
  BY ConcatProperties
<1>12. Len(written) \in Nat /\ Len(taken) \in Nat /\ Len(first) \in Nat /\ cuts[1] \in Nat
  OBVIOUS
<1>13. Len(written \o taken) <= ends[1]
  BY <1>2, <1>10, <1>11, <1>12
<1>14. ASSUME Len(written \o taken) < ends[1]
       PROVE  cut2 /\ Len(written \o taken) = bound
  <2>1. CASE Len(first) > bound - Len(written)
    BY <1>11, <1>12, <2>1
  <2>2. CASE ~(Len(first) > bound - Len(written))
    <3>1. Len(taken) = Len(first)
      BY <2>2
    <3>2. Len(written) < cuts[1]
      BY <1>10, <1>11, <1>12, <1>14, <3>1
    <3>3. cut /\ Len(written) = bound
      BY <1>2, <3>2
    <3>4. Len(first) = 0
      BY <1>12, <2>2, <3>3
    <3>5. Len(written \o taken) = bound
      BY <1>11, <1>12, <3>1, <3>3, <3>4
    <3> QED BY <3>3, <3>5
  <2> QED BY <2>1, <2>2
<1> QED BY <1>2, <1>3, <1>7, <1>8, <1>9, <1>13, <1>14 DEF InFlight

-----------------------------------------------------------------------------
(* The units a worker may write, and its adapter after it. *)
Printed == UNION {Vocabulary[k] : k \in Kinds}

Written ==
  {Newline} \cup {Unit(r, 1) : r \in Printed} \cup {Unit(r, 2) : r \in Printed}
    \cup UNION {Range(text) : text \in Partial}

TextTypeOK ==
  /\ said \in [Streams -> Seq(Written)]
  /\ pipe \in [Streams -> Seq(Written)]
  /\ file \in [Streams -> Seq(Written)]
  /\ queue \in [Streams -> Seq(Seq(Written))]

(* What the sinks are made for, of one stream: on disk is a prefix of what  *)
(* was said, within the budget, and what is missing from it is still to come*)
(* unless it was dropped.                                                   *)
InOrder(s) ==
  /\ Slice(file[s], said[s], 0)
  /\ Len(file[s]) <= budget[s]
  /\ ~broken[s] => InFlight(said[s], pipe[s], queue[s], file[s], budget[s], limited[s])
  /\ broken[s] => queue[s] = <<>>
  /\ queue[s] # <<>> /\ Len(Head(queue[s])) > budget[s] - Len(file[s]) => limited[s]
  /\ settled => pipe[s] = <<>>

Streaming == TextTypeOK /\ \A s \in Streams : InOrder(s)

(* A step that leaves a stream's variables alone leaves it in order. *)
LEMMA OtherStream ==
  ASSUME NEW s \in Streams, InOrder(s), settled' = settled,
         UNCHANGED <<budget, said[s], pipe[s], queue[s], file[s], broken[s], limited[s]>>
  PROVE  InOrder(s)'
BY DEF InOrder

(* The worker prints whole records and the texts of Partial.                *)
LEMMA SpokenText ==
  ASSUME Speak, TypeOK
  PROVE  \E t \in Seq(Written), r \in Streams : Say(r, t)
<1>1. ASSUME NEW r \in Vocabulary[kind] PROVE Terminated(r) \in Seq(Written)
  <2>1. Unit(r, 1) \in Written /\ Unit(r, 2) \in Written /\ Newline \in Written
    <3>1. kind \in Kinds
      BY DEF TypeOK
    <3>2. r \in Printed
      BY <3>1 DEF Printed
    <3> QED BY <3>2 DEF Written
  <2> QED BY <2>1 DEF Terminated, Line
<1>2. ASSUME NEW t \in Partial PROVE t \in Seq(Written)
  <2>1. t \in Seq(Range(t)) /\ Range(t) \subseteq Written
    BY PartialAssumption DEF Written
  <2> QED BY <2>1, SeqMonotonic
<1>3. <<Newline>> \in Seq(Written)
  <2>1. Newline \in Written
    BY DEF Written
  <2> QED BY <2>1
<1> QED BY <1>1, <1>2, <1>3 DEF Speak, Streams

(* Each step of the event loop keeps the streams in order.                  *)
LEMMA SayFlows ==
  ASSUME TypeOK, Streaming, NEW s \in Streams, NEW more \in Seq(Written), Say(s, more)
  PROVE  Streaming'
<1>1. TextTypeOK'
  <2>1. said[s] \o more \in Seq(Written) /\ pipe[s] \o more \in Seq(Written)
    BY DEF Streaming, TextTypeOK
  <2> QED BY <2>1 DEF Say, Streaming, TextTypeOK
<1>2. ASSUME NEW r \in Streams, r # s PROVE InOrder(r)'
  BY <1>2, OtherStream DEF Say, Streaming, TextTypeOK, TypeOK, SupervisorTypeOK, control
<1>3. InOrder(s)'
  <2>1. PICK text \in Seq(Written) : text = said[s]
    BY DEF Streaming, TextTypeOK
  <2>2. PICK rest \in Seq(Written) : rest = pipe[s]
    BY DEF Streaming, TextTypeOK
  <2>3. PICK chunks \in Seq(Seq(Written)) : chunks = queue[s]
    BY DEF Streaming, TextTypeOK
  <2>4. PICK done \in Seq(Written) : done = file[s]
    BY DEF Streaming, TextTypeOK
  <2>5. PICK bound, cut : bound = budget[s] /\ cut = limited[s]
    OBVIOUS
  <2>6. /\ said'[s] = text \o more /\ pipe'[s] = rest \o more
        /\ UNCHANGED <<budget, queue, file, broken, limited, settled>> /\ ~settled
    BY <2>1, <2>2 DEF Say, Streaming, TextTypeOK, control
  <2>7. InOrder(s)
    BY DEF Streaming
  <2>8. Slice(done, text \o more, 0)
    BY <2>1, <2>4, <2>7, SliceGrows DEF InOrder
  <2>9. ~broken[s] => InFlight(text \o more, rest \o more, chunks, done, bound, cut)
    BY <2>1, <2>2, <2>3, <2>4, <2>5, <2>7, Saying DEF InOrder
  <2> QED BY <2>3, <2>4, <2>5, <2>6, <2>7, <2>8, <2>9 DEF InOrder
<1> QED BY <1>1, <1>2, <1>3 DEF Streaming

(* The chunk about to be written is measured when its turn comes. *)
LEMMA Measured ==
  ASSUME NEW s \in Streams, NEW chunk, BeginWrite(s, chunk),
         limited \in [Streams -> BOOLEAN]
  PROVE  /\ Len(chunk) > Room(s) => limited'[s]
         /\ limited[s] => limited'[s]
         /\ \A r \in Streams : r # s => limited'[r] = limited[r]
         /\ limited' \in [Streams -> BOOLEAN]
BY DEF BeginWrite

(* Max and Min of two numbers, which the model takes of sets.               *)
LEMMA RoomIs ==
  ASSUME NEW n \in Nat, NEW m \in Nat, n <= m
  PROVE  Max({0, m - n}) = m - n
<1>1. \E x \in {0, m - n} : \A y \in {0, m - n} : x >= y
  OBVIOUS
<1>2. PICK x : x = Max({0, m - n})
  OBVIOUS
<1>3. x \in {0, m - n} /\ \A y \in {0, m - n} : x >= y
  BY <1>1, <1>2 DEF Max
<1> QED BY <1>2, <1>3

LEMMA LesserIs ==
  ASSUME NEW n \in Nat, NEW m \in Nat
  PROVE  Min({n, m}) = IF n > m THEN m ELSE n
<1>1. \E x \in {n, m} : \A y \in {n, m} : x =< y
  OBVIOUS
<1>2. PICK x : x = Min({n, m})
  OBVIOUS
<1>3. x \in {n, m} /\ \A y \in {n, m} : x =< y
  BY <1>1, <1>2 DEF Min
<1> QED BY <1>2, <1>3

(* The budgets are numbers.                                                 *)
LEMMA BudgetType ==
  ASSUME TypeOK
  PROVE  budget \in [Streams -> Nat]
BY BudgetAssumption DEF TypeOK, SupervisorTypeOK

LEMMA PumpFlows ==
  ASSUME TypeOK, Streaming, NEW s \in Streams, Pump(s)
  PROVE  Streaming'
<1> USE DEF Streaming
<1>1. PICK chunks \in Seq(Seq(Written)) : chunks = queue[s]
  BY DEF TextTypeOK
<1>2. PICK rest \in Seq(Written) : rest = pipe[s]
  BY DEF TextTypeOK
<1>3. PICK text \in Seq(Written) : text = said[s]
  BY DEF TextTypeOK
<1>4. PICK done \in Seq(Written) : done = file[s]
  BY DEF TextTypeOK
<1>5. PICK longer \in Seq(Seq(Written)) : longer = Append(chunks, rest)
  BY AppendProperties
<1>6. /\ pipe' = [pipe EXCEPT ![s] = <<>>]
      /\ queue' = [queue EXCEPT ![s] = longer]
      /\ UNCHANGED <<budget, said, file, broken, settled>>
      /\ ~broken[s]
      /\ IF chunks = <<>> THEN BeginWrite(s, rest) ELSE UNCHANGED limited
  BY <1>1, <1>2, <1>5 DEF Pump, TextTypeOK, group
<1>7. /\ limited' \in [Streams -> BOOLEAN]
      /\ limited[s] => limited'[s]
      /\ \A r \in Streams : r # s => limited'[r] = limited[r]
      /\ chunks = <<>> /\ Len(rest) > Room(s) => limited'[s]
      /\ chunks # <<>> => limited' = limited
  BY <1>6, Measured DEF TypeOK, SupervisorTypeOK
<1>8. TextTypeOK'
  BY <1>6 DEF TextTypeOK
<1>9. ASSUME NEW r \in Streams, r # s PROVE InOrder(r)'
  BY <1>6, <1>7, <1>9, OtherStream DEF TextTypeOK, TypeOK, SupervisorTypeOK
<1>10. InOrder(s)'
  <2>1. PICK bound \in Nat : bound = budget[s]
    BY BudgetType
  <2>2. PICK cut \in BOOLEAN, cut2 \in BOOLEAN : cut = limited[s] /\ cut2 = limited'[s]
    BY <1>7 DEF TypeOK, SupervisorTypeOK
  <2>3. InFlight(text, rest, chunks, done, bound, cut)
    BY <1>1, <1>2, <1>3, <1>4, <1>6, <2>1, <2>2 DEF InOrder
  <2>4. InFlight(text, <<>>, longer, done, bound, cut2)
    BY <1>5, <1>7, <2>2, <2>3, Pumping
  <2>5. Len(Head(longer)) > bound - Len(done) => cut2
    <3>1. CASE chunks = <<>>
      <4>1. Head(longer) = rest
        BY <1>5, <3>1, HeadTailAppend
      <4>2. Room(s) = bound - Len(done)
        <5>1. Room(s) = Max({0, bound - Len(done)})
          BY <1>4, <1>6, <2>1 DEF Room
        <5>2. Len(done) <= bound
          BY <1>4, <2>1 DEF InOrder
        <5>3. Len(done) \in Nat
          OBVIOUS
        <5> QED BY <5>1, <5>2, <5>3, RoomIs
      <4> QED BY <1>7, <2>2, <3>1, <4>1, <4>2
    <3>2. CASE chunks # <<>>
      <4>1. Head(longer) = Head(chunks)
        BY <1>5, <3>2, HeadTailAppend
      <4> QED BY <1>1, <1>4, <1>7, <2>1, <2>2, <3>2, <4>1 DEF InOrder
    <3> QED BY <3>1, <3>2
  <2>6. pipe'[s] = <<>> /\ queue'[s] = longer
    BY <1>6 DEF TextTypeOK
  <2> QED BY <1>3, <1>4, <1>6, <2>1, <2>2, <2>4, <2>5, <2>6 DEF InOrder
<1> QED BY <1>8, <1>9, <1>10

(* What the sink takes of its first chunk: all of it, or what fits. *)
LEMMA AcceptedIs ==
  ASSUME TypeOK, Streaming, NEW s \in Streams, queue[s] # <<>>
  PROVE  \E taken \in Seq(Written) :
           /\ taken = Accepted(s)
           /\ \A i \in 1 .. Len(taken) : taken[i] = Head(queue[s])[i]
           /\ Len(taken) = IF Len(Head(queue[s])) > budget[s] - Len(file[s])
                             THEN budget[s] - Len(file[s]) ELSE Len(Head(queue[s]))
<1> PICK bound \in Nat : bound = budget[s]
  BY BudgetType
<1> PICK done \in Seq(Written) : done = file[s]
  BY DEF Streaming, TextTypeOK
<1> PICK first \in Seq(Written) : first = Head(queue[s])
  BY HeadTailProperties DEF Streaming, TextTypeOK
<1>1. Len(done) <= bound
  BY DEF Streaming, InOrder
<1>2. PICK n \in Nat : n = IF Len(first) > bound - Len(done) THEN bound - Len(done) ELSE Len(first)
  BY <1>1
<1>3. Accepted(s) = SubSeq(first, 1, n)
  <2>1. Max({0, bound - Len(done)}) = bound - Len(done)
    <3>1. Len(done) \in Nat
      OBVIOUS
    <3> QED BY <1>1, <3>1, RoomIs
  <2>2. Min({Len(first), bound - Len(done)}) = n
    <3>1. bound - Len(done) \in Nat /\ Len(first) \in Nat
      BY <1>1
    <3> QED BY <1>2, <3>1, LesserIs
  <2> QED BY <2>1, <2>2 DEF Accepted
<1>4. n \in 0 .. Len(first)
  BY <1>1, <1>2
<1>5. /\ SubSeq(first, 1, n) \in Seq(Written) /\ Len(SubSeq(first, 1, n)) = n
      /\ \A i \in 1 .. n : SubSeq(first, 1, n)[i] = first[i]
  <2>1. \A i \in 1 .. n : first[i] \in Written
    BY <1>4, ElementOfSeq
  <2> QED BY <2>1, <1>4, SubSeqProperties
<1> QED BY <1>2, <1>3, <1>5

(* Unless something was cut before, what the sink takes next is what comes  *)
(* next.                                                                    *)
LEMMA HeadIsNext ==
  ASSUME NEW S, NEW text \in Seq(S), NEW rest \in Seq(S), NEW chunks \in Seq(Seq(S)),
         NEW written \in Seq(S), NEW bound \in Nat, NEW cut,
         chunks # <<>>, NEW first \in Seq(S), first = Head(chunks),
         NEW taken \in Seq(S), Len(taken) <= Len(first),
         \A i \in 1 .. Len(taken) : taken[i] = first[i],
         Len(taken) <= bound - Len(written),
         InFlight(text, rest, chunks, written, bound, cut)
  PROVE  Slice(taken, text, Len(written)) \/ taken = <<>>
<1>1. PICK n \in Nat : n = Len(chunks)
  OBVIOUS
<1>2. PICK cuts \in [1 .. n + 1 -> Nat] :
        /\ Chunked(chunks, text, cuts)
        /\ Len(written) <= cuts[1]
        /\ Len(written) < cuts[1] => cut /\ Len(written) = bound
  BY <1>1 DEF InFlight
<1>3. n >= 1 /\ first = chunks[1]
  BY <1>1, HeadTailProperties
<1>4. PICK from \in Nat : from = cuts[1]
  BY <1>3
<1>5. Slice(first, text, from)
  BY <1>1, <1>2, <1>3, <1>4 DEF Chunked
<1>6. /\ Len(taken) \in Nat /\ Len(first) \in Nat /\ Len(written) \in Nat
      /\ Len(text) \in Nat
  OBVIOUS
<1>7. CASE Len(written) = from
  BY <1>5, <1>6, <1>7 DEF Slice
<1>8. CASE Len(written) # from
  <2>1. Len(written) = bound
    BY <1>2, <1>4, <1>6, <1>8
  <2>2. Len(taken) = 0
    BY <1>6, <2>1
  <2> QED BY <2>2, EmptySeq
<1> QED BY <1>7, <1>8

LEMMA EndWriteFlows ==
  ASSUME TypeOK, Streaming, NEW s \in Streams, EndWrite(s)
  PROVE  Streaming'
<1> USE DEF Streaming
<1>1. PICK chunks \in Seq(Seq(Written)) : chunks = queue[s]
  BY DEF TextTypeOK
<1>2. PICK rest \in Seq(Written) : rest = pipe[s]
  BY DEF TextTypeOK
<1>3. PICK text \in Seq(Written) : text = said[s]
  BY DEF TextTypeOK
<1>4. PICK done \in Seq(Written) : done = file[s]
  BY DEF TextTypeOK
<1>5. PICK bound \in Nat : bound = budget[s]
  BY BudgetType
<1>6. chunks # <<>> /\ ~broken[s]
  BY <1>1 DEF EndWrite, InOrder
<1>7. PICK first \in Seq(Written) : first = Head(chunks)
  BY <1>6, HeadTailProperties
<1>8. PICK taken \in Seq(Written) :
        /\ taken = Accepted(s)
        /\ \A i \in 1 .. Len(taken) : taken[i] = first[i]
        /\ Len(taken) = IF Len(first) > bound - Len(done) THEN bound - Len(done) ELSE Len(first)
  <2>1. queue[s] # <<>>
    BY <1>1, <1>6
  <2> QED BY <1>1, <1>4, <1>5, <1>7, <2>1, AcceptedIs
<1>9. /\ \A i \in 1 .. Len(taken) : taken[i] = first[i]
      /\ Len(taken) = IF Len(first) > bound - Len(done) THEN bound - Len(done) ELSE Len(first)
  BY <1>8
<1>10. PICK fewer \in Seq(Seq(Written)) : fewer = Tail(chunks)
  BY <1>6, HeadTailProperties
<1>11. PICK after \in Seq(Written) : after = done \o taken
  BY ConcatProperties
<1>12. /\ file' = [file EXCEPT ![s] = after]
       /\ queue' = [queue EXCEPT ![s] = fewer]
       /\ UNCHANGED <<budget, said, pipe, broken, settled>>
       /\ IF fewer = <<>> THEN UNCHANGED limited ELSE BeginWrite(s, chunks[2])
  BY <1>1, <1>4, <1>8, <1>10, <1>11 DEF EndWrite, TextTypeOK, group
<1>13. /\ limited' \in [Streams -> BOOLEAN]
       /\ limited[s] => limited'[s]
       /\ \A r \in Streams : r # s => limited'[r] = limited[r]
       /\ fewer # <<>> /\ Len(chunks[2]) > Room(s) => limited'[s]
  BY <1>12, Measured DEF TypeOK, SupervisorTypeOK
<1>14. TextTypeOK'
  BY <1>12 DEF TextTypeOK
<1>15. ASSUME NEW r \in Streams, r # s PROVE InOrder(r)'
  BY <1>12, <1>13, <1>15, OtherStream DEF TextTypeOK, TypeOK, SupervisorTypeOK
<1>16. InOrder(s)'
  <2>1. PICK cut \in BOOLEAN, cut2 \in BOOLEAN : cut = limited[s] /\ cut2 = limited'[s]
    BY <1>13 DEF TypeOK, SupervisorTypeOK
  <2>2. /\ InFlight(text, rest, chunks, done, bound, cut)
        /\ Len(done) <= bound /\ Slice(done, text, 0)
        /\ Len(first) > bound - Len(done) => cut
    BY <1>1, <1>2, <1>3, <1>4, <1>5, <1>6, <1>7, <2>1 DEF InOrder
  <2>3. InFlight(text, rest, fewer, after, bound, cut2)
    <3>1. cut => cut2
      BY <1>13, <2>1
    <3>2. InFlight(text, rest, Tail(chunks), done \o taken, bound, cut2)
      <4>1. /\ Len(first) > bound - Len(done) => cut
            /\ Len(taken) = IF Len(first) > bound - Len(done) THEN bound - Len(done)
                                                              ELSE Len(first)
            /\ first = Head(chunks) /\ chunks # <<>> /\ Len(done) <= bound
            /\ InFlight(text, rest, chunks, done, bound, cut)
        BY <1>6, <1>7, <1>9, <2>2
      <4> QED BY <3>1, <4>1, Writing, SMTT(60)
    <3> QED BY <1>10, <1>11, <3>2
  <2>4. Len(after) = Len(done) + Len(taken)
    BY <1>11, ConcatProperties
  <2>5. Len(after) <= bound
    <3>1. Len(done) \in Nat /\ Len(first) \in Nat
      OBVIOUS
    <3> QED BY <1>9, <2>2, <2>4, <3>1
  <2>6. Slice(after, text, 0)
    <3>1. Len(taken) <= Len(first) /\ Len(taken) <= bound - Len(done)
      <4>1. Len(done) \in Nat /\ Len(first) \in Nat
        OBVIOUS
      <4> QED BY <1>9, <2>2, <4>1
    <3>2. Slice(taken, text, Len(done)) \/ taken = <<>>
      BY <1>6, <1>7, <1>9, <2>2, <3>1, HeadIsNext
    <3>3. CASE Slice(taken, text, Len(done))
      <4>1. PICK n \in Nat : n = Len(done)
        OBVIOUS
      <4>2. Slice(taken, text, 0 + Len(done))
        BY <3>3, <4>1
      <4> QED BY <1>11, <2>2, <4>2, SliceJoins
    <3>4. CASE taken = <<>>
      BY <1>11, <2>2, <3>4, ConcatEmptySeq
    <3> QED BY <3>2, <3>3, <3>4
  <2>7. Len(Head(fewer)) > bound - Len(after) => cut2 \/ fewer = <<>>
    <3>1. CASE fewer # <<>>
      <4>1. Head(fewer) = chunks[2]
        <5>1. /\ Len(fewer) = Len(chunks) - 1
              /\ \A i \in 1 .. Len(fewer) : fewer[i] = chunks[i + 1]
          BY <1>6, <1>10, HeadTailProperties
        <5>2. Len(fewer) >= 1
          BY <3>1, EmptySeq
        <5> QED BY <5>1, <5>2
      <4>2. Room(s) = bound - Len(after)
        <5>1. Room(s) = Max({0, bound - Len(after)})
          BY <1>5, <1>12 DEF Room, TextTypeOK
        <5>2. Len(after) \in Nat
          OBVIOUS
        <5> QED BY <5>1, <5>2, <2>5, RoomIs
      <4> QED BY <1>13, <2>1, <3>1, <4>1, <4>2
    <3> QED BY <3>1
  <2>8. file'[s] = after /\ queue'[s] = fewer
    BY <1>12 DEF TextTypeOK
  <2> QED BY <1>2, <1>3, <1>5, <1>6, <1>12, <2>1, <2>3, <2>5, <2>6, <2>7, <2>8 DEF InOrder
<1> QED BY <1>14, <1>15, <1>16

LEMMA WriteFailsFlows ==
  ASSUME TypeOK, Streaming, NEW s \in Streams, WriteFails(s)
  PROVE  Streaming'
<1> USE DEF Streaming
<1>1. PICK chunks \in Seq(Seq(Written)) : chunks = queue[s]
  BY DEF TextTypeOK
<1>2. PICK rest \in Seq(Written) : rest = pipe[s]
  BY DEF TextTypeOK
<1>3. PICK text \in Seq(Written) : text = said[s]
  BY DEF TextTypeOK
<1>4. PICK done \in Seq(Written) : done = file[s]
  BY DEF TextTypeOK
<1>5. PICK bound \in Nat : bound = budget[s]
  BY BudgetType
<1>6. chunks # <<>> /\ ~broken[s]
  BY <1>1 DEF WriteFails, InOrder
<1>7. PICK first \in Seq(Written) : first = Head(chunks)
  BY <1>6, HeadTailProperties
<1>8. PICK taken \in Seq(Written) :
        /\ taken = Accepted(s)
        /\ \A i \in 1 .. Len(taken) : taken[i] = first[i]
        /\ Len(taken) = IF Len(first) > bound - Len(done) THEN bound - Len(done) ELSE Len(first)
  <2>1. queue[s] # <<>>
    BY <1>1, <1>6
  <2> QED BY <1>1, <1>4, <1>5, <1>7, <2>1, AcceptedIs
<1>9. /\ \A i \in 1 .. Len(taken) : taken[i] = first[i]
      /\ Len(taken) = IF Len(first) > bound - Len(done) THEN bound - Len(done) ELSE Len(first)
  BY <1>8
<1>10. PICK n \in 0 .. Len(taken) - 1 : file' = [file EXCEPT ![s] = @ \o SubSeq(taken, 1, n)]
  BY <1>8 DEF WriteFails
<1>11. PICK part \in Seq(Written) : /\ part = SubSeq(taken, 1, n)
                                    /\ Len(part) = n
                                    /\ \A i \in 1 .. n : part[i] = taken[i]
  <2>1. \A i \in 1 .. n : taken[i] \in Written
    BY ElementOfSeq
  <2>2. n \in Nat
    OBVIOUS
  <2>3. /\ SubSeq(taken, 1, n) \in Seq(Written)
        /\ Len(SubSeq(taken, 1, n)) = n
        /\ \A i \in 1 .. n : SubSeq(taken, 1, n)[i] = taken[i]
    BY <2>1, <2>2, SubSeqProperties
  <2> QED BY <2>3
<1>12. PICK after \in Seq(Written) : after = done \o part
  BY ConcatProperties
<1>13. /\ file' = [file EXCEPT ![s] = after]
       /\ queue' = [queue EXCEPT ![s] = <<>>]
       /\ broken' = [broken EXCEPT ![s] = TRUE]
       /\ UNCHANGED <<budget, said, pipe, limited, settled>>
  BY <1>4, <1>10, <1>11, <1>12 DEF WriteFails, TextTypeOK, group
<1>14. TextTypeOK'
  BY <1>13 DEF TextTypeOK
<1>15. ASSUME NEW r \in Streams, r # s PROVE InOrder(r)'
  BY <1>13, <1>15, OtherStream DEF TextTypeOK, TypeOK, SupervisorTypeOK
<1>16. InOrder(s)'
  <2>1. PICK cut \in BOOLEAN : cut = limited[s]
    BY DEF TypeOK, SupervisorTypeOK
  <2>2. /\ InFlight(text, rest, chunks, done, bound, cut)
        /\ Len(done) <= bound /\ Slice(done, text, 0)
    BY <1>1, <1>2, <1>3, <1>4, <1>5, <1>6, <2>1 DEF InOrder
  <2>3. Len(done) \in Nat /\ Len(first) \in Nat /\ Len(taken) \in Nat
    OBVIOUS
  <2>4. Len(taken) <= Len(first) /\ Len(taken) <= bound - Len(done)
    BY <1>9, <2>2, <2>3
  <2>5. Slice(taken, text, Len(done)) \/ taken = <<>>
    BY <1>6, <1>7, <1>9, <2>2, <2>4, HeadIsNext
  <2>6. Slice(part, text, 0 + Len(done))
    <3>1. taken # <<>>
      BY <1>8 DEF WriteFails
    <3>2. n <= Len(taken) /\ Len(text) \in Nat
      OBVIOUS
    <3>3. Slice(taken, text, Len(done))
      BY <2>5, <3>1
    <3>4. PICK k \in Nat : k = Len(done)
      BY <2>3
    <3>5. k + Len(part) <= Len(text)
      BY <1>11, <2>3, <3>2, <3>3, <3>4 DEF Slice
    <3>6. \A j \in 1 .. n : part[j] = text[k + j]
      <4>1. \A j \in 1 .. n : j \in 1 .. Len(taken)
        BY <2>3, <3>2
      <4> QED BY <1>11, <3>3, <3>4, <4>1 DEF Slice
    <3> QED BY <1>11, <3>4, <3>5, <3>6 DEF Slice
  <2>7. Slice(after, text, 0)
    BY <1>12, <2>2, <2>6, SliceJoins
  <2>8. Len(after) <= bound
    <3>1. Len(after) = Len(done) + Len(part)
      BY <1>12, ConcatProperties
    <3> QED BY <1>11, <2>2, <2>3, <2>4, <3>1
  <2>9. file'[s] = after /\ queue'[s] = <<>> /\ broken'[s]
    BY <1>13 DEF TextTypeOK, TypeOK, SupervisorTypeOK
  <2> QED BY <1>3, <1>5, <1>13, <2>7, <2>8, <2>9 DEF InOrder
<1> QED BY <1>14, <1>15, <1>16

LEMMA DiscardFlows ==
  ASSUME TypeOK, Streaming, NEW s \in Streams, Discard(s)
  PROVE  Streaming'
<1>1. /\ pipe' = [pipe EXCEPT ![s] = <<>>] /\ broken[s]
      /\ UNCHANGED <<budget, said, queue, file, limited, broken, settled>>
  BY DEF Discard, group, control
<1>2. TextTypeOK'
  BY <1>1 DEF Streaming, TextTypeOK
<1>3. ASSUME NEW r \in Streams, r # s PROVE InOrder(r)'
  BY <1>1, <1>3, OtherStream DEF Streaming, TextTypeOK
<1>4. InOrder(s)'
  BY <1>1 DEF Streaming, TextTypeOK, InOrder
<1> QED BY <1>2, <1>3, <1>4 DEF Streaming

LEMMA CloseFlows ==
  ASSUME TypeOK, Streaming, Close
  PROVE  Streaming'
BY DEF Close, Streaming, TextTypeOK, InOrder, group, sinks

(* Nothing but the supervisor's own steps touches the streams. *)
LEMMA StreamsRest ==
  ASSUME Streaming, UNCHANGED <<budget, said, pipe, queue, file, broken, limited, settled>>
  PROVE  Streaming'
BY DEF Streaming, TextTypeOK, InOrder

(* While the worker is supervised its streams are in order; once it has     *)
(* completed, what was not dropped is on disk.                              *)
Kept ==
  \A s \in Streams : Dropped(s) \/ IsPrefix(said[s], file[s])

Ordered ==
  /\ stage = "supervised" => Streaming
  /\ stage \in {"completed", "over"} => Kept

(* All of Supervise does.                                                   *)
LEMMA SuperviseFlows ==
  ASSUME TypeOK, Streaming, Supervise
  PROVE  Streaming'
<1>1. CASE Speak
  BY <1>1, SpokenText, SayFlows
<1>2. CASE HardTimeout \/ Escalate
  BY <1>2, StreamsRest DEF HardTimeout, Escalate, group, sinks
<1>3. CASE Serve
  BY <1>3, CloseFlows, PumpFlows, DiscardFlows, EndWriteFlows, WriteFailsFlows DEF Serve
<1> QED BY <1>1, <1>2, <1>3 DEF Supervise

(* Slices and prefixes.                                                     *)
LEMMA SliceIsPrefix ==
  ASSUME NEW S, NEW one \in Seq(S), NEW text \in Seq(S), Slice(one, text, 0)
  PROVE  IsPrefix(one, text)
<1>1. PICK n \in Nat : n = Len(one)
  OBVIOUS
<1>2. n <= Len(text) /\ \A i \in 1 .. n : one[i] = text[i]
  <2>1. Len(text) \in Nat
    OBVIOUS
  <2> QED BY <1>1, <2>1 DEF Slice
<1>3. /\ SubSeq(one, 1, n) \in Seq(S) /\ Len(SubSeq(one, 1, n)) = n
      /\ \A i \in 1 .. n : SubSeq(one, 1, n)[i] = one[i]
  <2>1. \A i \in 1 .. n : one[i] \in S
    BY <1>1, ElementOfSeq
  <2>2. n \in Int /\ n - 1 + 1 = n
    OBVIOUS
  <2> QED BY <2>1, <2>2, SubSeqProperties
<1>4. /\ SubSeq(text, 1, n) \in Seq(S) /\ Len(SubSeq(text, 1, n)) = n
      /\ \A i \in 1 .. n : SubSeq(text, 1, n)[i] = text[i]
  <2>1. \A i \in 1 .. n : text[i] \in S
    BY <1>2, ElementOfSeq
  <2>2. n \in Int /\ n - 1 + 1 = n
    OBVIOUS
  <2> QED BY <2>1, <2>2, SubSeqProperties
<1>5. SubSeq(one, 1, n) = SubSeq(text, 1, n)
  BY <1>2, <1>3, <1>4, SeqEqual
<1> QED BY <1>1, <1>2, <1>5 DEF IsPrefix

LEMMA PrefixGrows ==
  ASSUME NEW S, NEW one \in Seq(S), NEW more \in Seq(S)
  PROVE  IsPrefix(one, one \o more)
<1>1. Slice(one, one \o more, 0)
  BY ConcatProperties DEF Slice
<1> QED BY <1>1, SliceIsPrefix, ConcatProperties

LEMMA PrefixItself ==
  ASSUME NEW S, NEW one \in Seq(S)
  PROVE  IsPrefix(one, one)
BY DEF IsPrefix

(* Once everything is flushed, a stream that lost nothing is on disk. *)
LEMMA FlushedIsWhole ==
  ASSUME TypeOK, Streaming, Flushed, NEW s \in Streams, ~Dropped(s)
  PROVE  file[s] = said[s]
<1>1. queue[s] = <<>> /\ pipe[s] = <<>> /\ ~broken[s] /\ ~limited[s]
  BY DEF Flushed, Streaming, InOrder, Dropped
<1>2. PICK text \in Seq(Written) : text = said[s]
  BY DEF Streaming, TextTypeOK
<1>3. PICK done \in Seq(Written) : done = file[s]
  BY DEF Streaming, TextTypeOK
<1>4. InFlight(text, <<>>, <<>>, done, budget[s], FALSE) /\ Slice(done, text, 0)
  BY <1>1, <1>2, <1>3 DEF Streaming, InOrder, TypeOK, SupervisorTypeOK
<1>5. Len(<<>>) = 0 /\ Len(done) \in Nat /\ Len(text) \in Nat
  OBVIOUS
<1>6. Len(done) = Len(text)
  BY <1>4, <1>5 DEF InFlight
<1>7. \A i \in 1 .. Len(done) : done[i] = text[i]
  BY <1>4, <1>5 DEF Slice
<1> QED BY <1>2, <1>3, <1>6, <1>7, SeqEqual

(* An adapter appends one result, or nothing. *)
LEMMA ClosingIs ==
  ASSUME kind \in Kinds, NEW saw
  PROVE  Closing(saw) = <<>> \/ \E status : Closing(saw) = Terminated(AgentResult(status))
<1>1. CASE kind \in {"codex", "claude", "cursor"}
  BY <1>1 DEF Closing, startSelectedWorker, startCodexWorker, startClaudeWorker,
              startCursorWorker, ClosesSuccessOnly
<1>2. CASE kind = "antigravity"
  <2>1. \E status : startAntigravityWorker(ExitedZero, saw) = Terminated(AgentResult(status))
    BY DEF startAntigravityWorker
  <2> QED BY <1>2, <2>1 DEF Closing, startSelectedWorker
<1>3. CASE kind = "fake"
  BY <1>3 DEF Closing, startSelectedWorker, startWorker
<1> QED BY <1>1, <1>2, <1>3, KindsAssumption DEF WorkerKinds

LEMMA ClosingKeeps ==
  ASSUME NEW text \in Seq(Written), kind \in Kinds, NEW saw
  PROVE  IsPrefix(text, text \o Closing(saw))
<1>1. CASE Closing(saw) = <<>>
  BY <1>1, PrefixGrows, EmptySeq
<1>2. ASSUME NEW status, Closing(saw) = Terminated(AgentResult(status))
      PROVE  IsPrefix(text, text \o Closing(saw))
  <2> DEFINE All == Written \cup {Unit(AgentResult(status), 1), Unit(AgentResult(status), 2), Newline}
  <2>1. Terminated(AgentResult(status)) \in Seq(All)
    BY DEF Terminated, Line
  <2>2. text \in Seq(All)
    BY SeqMonotonic
  <2> HIDE DEF All
  <2> QED BY <1>2, <2>1, <2>2, PrefixGrows
<1> QED BY <1>1, <1>2, ClosingIs

(* The end of the streams: nothing undropped is lost when the process and   *)
(* its sinks are done, and the adapter only appends.                        *)
LEMMA CompleteKeeps ==
  ASSUME TypeOK, Streaming, Complete
  PROVE  Kept'
<1> SUFFICES ASSUME NEW s \in Streams, ~Dropped(s)'
             PROVE  IsPrefix(said[s], file[s])'
  BY DEF Kept
<1>1. UNCHANGED <<said, limited, broken>> /\ Flushed
  BY DEF Complete, group
<1>2. file[s] = said[s]
  BY <1>1, FlushedIsWhole DEF Dropped
<1>3. PICK text \in Seq(Written) : text = said[s]
  BY DEF Streaming, TextTypeOK
<1>4. PICK saw : file' = [file EXCEPT !["stdout"] = @ \o Closing(saw)]
  BY DEF Complete
<1>5. file'[s] = text \/ file'[s] = text \o Closing(saw)
  BY <1>2, <1>3, <1>4 DEF Streaming, TextTypeOK
<1>6. IsPrefix(text, text)
  BY <1>3, PrefixItself
<1>7. IsPrefix(text, text \o Closing(saw))
  BY ClosingKeeps DEF TypeOK
<1> QED BY <1>1, <1>3, <1>5, <1>6, <1>7

LEMMA FlushedKeeps ==
  ASSUME TypeOK, Streaming, Flushed
  PROVE  Kept
<1> SUFFICES ASSUME NEW s \in Streams, ~Dropped(s)
             PROVE  IsPrefix(said[s], file[s])
  BY DEF Kept
<1>1. PICK text \in Seq(Written) : text = said[s] /\ text = file[s]
  BY FlushedIsWhole DEF Streaming, TextTypeOK
<1> QED BY <1>1, PrefixItself

(* Every step keeps the order, and the first state has it.                  *)
LEMMA NextOrdered ==
  ASSUME TypeOK, Ordered, [Next]_vars
  PROVE  Ordered'
<1> USE DEF Ordered
<1>1. CASE /\ UNCHANGED stage
           /\ UNCHANGED <<budget, said, pipe, queue, file, broken, limited, settled>>
  BY <1>1, StreamsRest DEF Kept, Dropped
<1>2. CASE Supervise
  BY <1>2, SuperviseFlows DEF Supervise, Alive, ending
<1>3. CASE GroupEnds \/ AskCancel
  BY <1>1, <1>3 DEF GroupEnds, LeaderExits, HelperEnds, AskCancel, Cancel, group, sinks, control,
                    ending
<1>4. CASE Complete
  <2>1. stage = "supervised" /\ stage' = "completed"
    BY <1>4 DEF Complete
  <2> QED BY <1>4, <2>1, CompleteKeeps
<1>5. CASE CompleteFails
  <2>1. stage = "supervised" /\ stage' = "over" /\ Flushed
        /\ UNCHANGED <<said, file, broken, limited>>
    BY <1>5 DEF CompleteFails, supervisor, group, sinks
  <2> QED BY <2>1, FlushedKeeps DEF Kept, Dropped
<1>6. CASE Finalize \/ FinalizeFails
  BY <1>6 DEF Finalize, FinalizeFails, supervisor, group, sinks, Kept, Dropped
<1>7. CASE Crash
  BY <1>7 DEF Crash
<1>8. CASE Recover
  BY <1>1, <1>8 DEF Recover, Recycle, StopSurvivor, Probe, PollSeesItGone, KillSurvivor,
                    supervisor, group, sinks, control, ending
<1>9. CASE UNCHANGED vars
  BY <1>1, <1>9 DEF vars, supervisor, group, sinks, control, ending
<1> QED BY <1>2, <1>3, <1>4, <1>5, <1>6, <1>7, <1>8, <1>9 DEF Next

LEMMA InitOrdered == Init => Ordered
<1> SUFFICES ASSUME Init PROVE Streaming
  BY DEF Init, Ordered
<1>1. /\ <<>> \in Seq(Written) /\ <<>> \in Seq(Seq(Written)) /\ Len(<<>>) = 0
  BY EmptySeq
<1>2. TextTypeOK
  BY <1>1 DEF Init, SupervisorInit, OnEach, TextTypeOK
<1>3. budget \in [Streams -> Nat]
  BY BudgetAssumption DEF Init, SupervisorInit
<1>4. Slice(<<>>, <<>>, 0)
  BY <1>1 DEF Slice
<1>5. ASSUME NEW b PROVE InFlight(<<>>, <<>>, <<>>, <<>>, b, FALSE)
  <2> DEFINE cuts == [i \in 1 .. 1 |-> 0]
  <2>1. cuts \in [1 .. Len(<<>>) + 1 -> Nat] /\ cuts[1] = 0
    BY <1>1
  <2>2. Chunked(<<>>, <<>>, cuts)
    BY <1>1 DEF Chunked
  <2> HIDE DEF cuts
  <2> QED BY <1>1, <1>4, <2>1, <2>2 DEF InFlight
<1>6. ASSUME NEW s \in Streams PROVE InOrder(s)
  <2>1. /\ said[s] = <<>> /\ pipe[s] = <<>> /\ queue[s] = <<>> /\ file[s] = <<>>
        /\ limited[s] = FALSE /\ broken[s] = FALSE
    BY DEF Init, SupervisorInit, OnEach
  <2>2. budget[s] \in Nat /\ settled = FALSE
    BY <1>3 DEF Init, SupervisorInit
  <2>3. InFlight(said[s], pipe[s], queue[s], file[s], budget[s], limited[s])
    BY <1>5, <2>1
  <2>4. Slice(file[s], said[s], 0) /\ Len(file[s]) <= budget[s]
    BY <1>1, <1>4, <2>1, <2>2
  <2> QED BY <2>3, <2>4, <1>1, <1>4, <1>5, <2>1, <2>2 DEF InOrder
<1> QED BY <1>2, <1>6 DEF Streaming

(* While the worker is supervised its transcript is what it wrote, up to    *)
(* some point within the budget: the sink skips no chunk and never goes on  *)
(* behind a cut or a failed write (boundedSink).                            *)
THEOREM TranscriptBounded == Spec => []TranscriptIsBoundedPrefix
<1>1. TypeOK /\ Ordered => TranscriptIsBoundedPrefix
  <2> SUFFICES ASSUME Streaming, NEW s \in Streams
               PROVE  IsPrefix(file[s], said[s]) /\ Len(file[s]) <= budget[s]
    BY DEF Ordered, TranscriptIsBoundedPrefix
  <2> QED BY SliceIsPrefix DEF Streaming, InOrder, TextTypeOK
<1> QED BY <1>1, InitOrdered, NextOrdered, TypeCorrect, PTL DEF Spec

(* A worker that ended on its own is judged on everything it wrote, unless  *)
(* the budget or the disk gave out: the close waits for the pipes and the   *)
(* sinks (superviseProcess: completed).                                     *)
THEOREM DropsNamed == Spec => []NothingDroppedUnnamed
<1>1. Ordered => NothingDroppedUnnamed
  BY DEF Ordered, Kept, NothingDroppedUnnamed
<1> QED BY <1>1, InitOrdered, NextOrdered, TypeCorrect, PTL DEF Spec

=============================================================================
