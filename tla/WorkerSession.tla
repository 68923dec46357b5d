---------------------------- MODULE WorkerSession ----------------------------
(***************************************************************************)
(* One Python child per owner, a thread that reads its output, a timeout   *)
(* on every answer, and one lock on the machine that compute sessions share *)
(* with the build (session.rs, compute_lock.rs).  An owner in Stage is     *)
(* stage1.rs' LocalStageTransport: it tries the lock before every call, it *)
(* opens a session when it has none, and drops it when a call fails.  An   *)
(* owner in Echo holds a WorkerSession itself, of either kind, exchanges   *)
(* and cancels on it.  The child is main.py.  What a message is about is   *)
(* the number of the call that sent it.                                    *)
(***************************************************************************)
EXTENDS Integers, Sequences

CONSTANTS
  Stage,     \* owners that call the child through LocalStageTransport
  Echo,      \* owners that hold a session
  MaxCalls,  \* bound on the calls of an owner
  Fits       \* whether a message fits in a pipe the child is not reading

Owners == Stage \cup Echo

ASSUME OwnersAssumption ==
  Stage \cap Echo = {} /\ \A o \in Owners : o \notin {"nobody", "build"}
ASSUME CallsAssumption == MaxCalls \in Nat /\ Fits \in BOOLEAN

VARIABLES
  lock,     \* who has the machine's lock
  pc,       \* where an owner is
  op,       \* its operation under way
  call,     \* how many calls it has begun
  got,      \* what its last operation returned
  session,  \* its session: none, open, or stopped
  compute,  \* whether that is a compute session
  child,    \* the child process of the session
  work,     \* the message the child is at work on
  stdin,    \* what was written to the child and not yet read
  stdout,   \* what the child wrote and was not yet read
  reader,   \* the thread that reads it
  inbox     \* what the thread sent to the owner

callVars == <<op, call>>
childVars == <<child, work, stdin, stdout>>
readVars == <<reader, inbox>>
vars == <<lock, pc, callVars, got, session, compute, childVars, readVars>>

Message(kind, n) == [kind |-> kind, call |-> n]
Nothing == Message("none", 0)
Failed == Message("failed", 0)
Opened == Message("opened", 0)
Broken == Message("broken", 0)

Init ==
  /\ lock = "nobody"
  /\ pc = [o \in Owners |-> "idle"] /\ op = [o \in Owners |-> "none"]
  /\ call = [o \in Owners |-> 0] /\ got = [o \in Owners |-> Nothing]
  /\ session = [o \in Owners |-> "none"] /\ compute = [o \in Owners |-> FALSE]
  /\ child = [o \in Owners |-> "none"] /\ work = [o \in Owners |-> Nothing]
  /\ stdin = [o \in Owners |-> <<>>] /\ stdout = [o \in Owners |-> <<>>]
  /\ reader = [o \in Owners |-> "none"] /\ inbox = [o \in Owners |-> <<>>]

Goto(o, l) == pc' = [pc EXCEPT ![o] = l]

Free(o) == lock' = IF lock = o THEN "nobody" ELSE lock

(* The operation ends with what it returns. *)
Return(o, m) == Goto(o, "idle") /\ got' = [got EXCEPT ![o] = m]

-----------------------------------------------------------------------------
(***************************************************************************)
(* The lock, which nobody waits for.                                       *)
(***************************************************************************)
(* The gate takes the lock and gives it back before the session takes it.  *)
Gate(o) ==
  /\ pc[o] = "gate"
  /\ \/ lock = "nobody" /\ lock' = o /\ Goto(o, "gated") /\ UNCHANGED got
     \/ lock # "nobody" /\ Return(o, Failed) /\ UNCHANGED lock
  /\ UNCHANGED <<callVars, session, compute, childVars, readVars>>

(* Some requests are not for Stage 1, which shows only after the gate. *)
Ungate(o) ==
  /\ pc[o] = "gated" /\ Free(o)
  /\ \/ Goto(o, "acquire") /\ UNCHANGED got
     \/ Return(o, Failed)
  /\ UNCHANGED <<callVars, session, compute, childVars, readVars>>

Acquire(o) ==
  /\ pc[o] = "acquire"
  /\ \/ lock = "nobody" /\ lock' = o /\ Goto(o, "spawn") /\ UNCHANGED got
     \/ lock # "nobody" /\ Return(o, Failed) /\ UNCHANGED lock
  /\ UNCHANGED <<callVars, session, compute, childVars, readVars>>

(* Cargo's wrapper.                                                        *)
Build ==
  /\ \/ lock = "nobody" /\ lock' = "build"
     \/ lock = "build" /\ lock' = "nobody"
  /\ UNCHANGED <<pc, callVars, got, session, compute, childVars, readVars>>

-----------------------------------------------------------------------------
(***************************************************************************)
(* Opening a session.                                                      *)
(***************************************************************************)
Spawn(o) ==
  /\ pc[o] = "spawn"
  /\ \/ /\ Goto(o, "thread")
        /\ session' = [session EXCEPT ![o] = "open"]
        /\ child' = [child EXCEPT ![o] = "alive"] /\ work' = [work EXCEPT ![o] = Nothing]
        /\ stdin' = [stdin EXCEPT ![o] = <<>>] /\ stdout' = [stdout EXCEPT ![o] = <<>>]
        /\ UNCHANGED <<lock, got>>
     \/ Return(o, Failed) /\ Free(o) /\ UNCHANGED <<session, childVars>>
  /\ UNCHANGED <<callVars, compute, readVars>>

(* The session owns the child before its thread starts; without a thread   *)
(* it is dropped.                                                          *)
StartReader(o) ==
  /\ pc[o] = "thread"
  /\ \/ /\ reader' = [reader EXCEPT ![o] = "running"]
        /\ IF op[o] = "open" THEN Return(o, Opened) ELSE Goto(o, "send") /\ UNCHANGED got
     \/ Goto(o, "kill") /\ UNCHANGED <<got, reader>>
  /\ UNCHANGED <<lock, callVars, session, compute, childVars, inbox>>

Open(o, isCompute) ==
  /\ o \in Echo /\ pc[o] = "idle" /\ session[o] = "none"
  /\ Goto(o, IF isCompute THEN "acquire" ELSE "spawn")
  /\ op' = [op EXCEPT ![o] = "open"]
  /\ compute' = [compute EXCEPT ![o] = isCompute]
  /\ got' = [got EXCEPT ![o] = Nothing]
  /\ UNCHANGED <<lock, call, session, childVars, readVars>>

(* Dropping a session, or the transport that holds it; a panic of the      *)
(* owner does the same.                                                    *)
Close(o) ==
  /\ pc[o] = "idle" /\ session[o] # "none"
  /\ Goto(o, "kill")
  /\ op' = [op EXCEPT ![o] = "close"]
  /\ got' = [got EXCEPT ![o] = Nothing]
  /\ UNCHANGED <<lock, call, session, compute, childVars, readVars>>

-----------------------------------------------------------------------------
(***************************************************************************)
(* A call: one message or two, and one answer.                             *)
(***************************************************************************)
Begin(o, kind) ==
  /\ pc[o] = "idle" /\ call[o] < MaxCalls
  /\ \/ o \in Stage /\ kind = "stage1" /\ Goto(o, IF session[o] = "none" THEN "gate" ELSE "send")
     \/ o \in Echo /\ kind \in {"exchange", "cancel"} /\ session[o] # "none" /\ Goto(o, "request")
  /\ op' = [op EXCEPT ![o] = kind]
  /\ call' = [call EXCEPT ![o] = @ + 1]
  /\ compute' = [compute EXCEPT ![o] = @ \/ o \in Stage]
  /\ got' = [got EXCEPT ![o] = Nothing]
  /\ UNCHANGED <<lock, session, childVars, readVars>>

(* Stage 1 drops a session that failed it, exchange stops it, and cancel   *)
(* only returns the error.                                                 *)
Fail(o) == IF op[o] = "cancel" THEN Return(o, Failed) ELSE Goto(o, "kill") /\ UNCHANGED got

(* A request is followed by the reference or the cancellation.             *)
NextMessage(o) ==
  Message(CASE pc[o] = "request" -> "request"
            [] pc[o] = "send" /\ op[o] = "exchange" -> "reference"
            [] pc[o] = "send" /\ op[o] = "cancel" -> "cancel"
            [] OTHER -> "stage1",
          call[o])

(* Whether the child is at its read.                                       *)
Reading(o) == child[o] = "alive" /\ work[o].kind \in {"none", "request"}

Write(o) ==
  /\ session[o] = "open" /\ child[o] = "alive" /\ (Fits \/ Reading(o))
  /\ stdin' = [stdin EXCEPT ![o] = Append(@, NextMessage(o))]
  /\ UNCHANGED <<lock, callVars, got, session, compute, child, work, stdout, readVars>>

(* Writing blocks while the pipe is full and the child does not read; no   *)
(* timeout applies to it.                                                  *)
Send(o) ==
  /\ \/ pc[o] = "request" /\ Goto(o, "send")
     \/ pc[o] = "send" /\ Goto(o, "wait")
  /\ Write(o)

(* The session is stopped, or nobody is at the other end of the pipe. *)
SendFails(o) ==
  /\ pc[o] \in {"request", "send"} /\ (session[o] # "open" \/ child[o] # "alive")
  /\ Fail(o)
  /\ UNCHANGED <<lock, callVars, session, compute, childVars, readVars>>

(* The message makes no frame: it cannot be written as JSON or is longer   *)
(* than a frame may be, and nothing reaches the pipe.  A cancellation      *)
(* holds no more than the identifier in the request that made one.         *)
RefuseFrame(o) ==
  /\ pc[o] \in {"request", "send"} /\ NextMessage(o).kind # "cancel"
  /\ session[o] = "open" /\ child[o] = "alive"
  /\ Fail(o)
  /\ UNCHANGED <<lock, callVars, session, compute, childVars, readVars>>

(* Stage 1 takes one kind of answer; receive() takes any terminal frame.   *)
Accepts(o, m) == IF op[o] = "stage1" THEN m.kind = "stage1_result" ELSE m # Broken

Receive(o) ==
  /\ pc[o] = "wait" /\ inbox[o] # <<>>
  /\ inbox' = [inbox EXCEPT ![o] = Tail(@)]
  /\ \/ Accepts(o, Head(inbox[o])) /\ Return(o, Head(inbox[o]))
     \/ ~Accepts(o, Head(inbox[o])) /\ Fail(o)
  /\ UNCHANGED <<lock, callVars, session, compute, childVars, reader>>

(* Mutated form: a timeout returns its error and stops nothing.            *)
GiveUpOnly(o) ==
  /\ pc[o] = "wait" /\ inbox[o] = <<>> /\ Return(o, Failed)
  /\ UNCHANGED <<lock, callVars, session, compute, childVars, readVars>>

(* The timeout, or a thread that has ended: receive_value stops the        *)
(* session before its caller sees the error.                               *)
GiveUp(o) ==
  /\ pc[o] = "wait" /\ inbox[o] = <<>>
  /\ Goto(o, "kill")
  /\ UNCHANGED <<lock, callVars, got, session, compute, childVars, readVars>>

-----------------------------------------------------------------------------
(***************************************************************************)
(* stop, and the rest of Drop.  Stopping a stopped session changes nothing *)
(* but goes the same way.                                                  *)
(***************************************************************************)
(* Mutated form: the lock is given up with the input.                      *)
KillFreeing(o) ==
  /\ pc[o] = "kill" /\ Goto(o, "reap") /\ Free(o)
  /\ session' = [session EXCEPT ![o] = "stopped"]
  /\ UNCHANGED <<callVars, got, compute, childVars, readVars>>

Kill(o) ==
  /\ pc[o] = "kill" /\ Goto(o, "reap")
  /\ session' = [session EXCEPT ![o] = "stopped"]
  /\ UNCHANGED <<lock, callVars, got, compute, childVars, readVars>>

Reap(o) ==
  /\ pc[o] = "reap" /\ child[o] # "alive" /\ Goto(o, "release")
  /\ child' = [child EXCEPT ![o] = "reaped"]
  /\ UNCHANGED <<lock, callVars, got, session, compute, work, stdin, stdout, readVars>>

Outcome(o) == IF op[o] = "close" THEN Nothing ELSE Failed

(* What stopped the session also drops it. *)
Drops(o) == op[o] \in {"stage1", "open", "close"}

(* Mutated form: only dropping the session gives the lock up.              *)
ReleaseOnDrop(o) ==
  /\ pc[o] = "release"
  /\ \/ ~Drops(o) /\ Return(o, Outcome(o)) /\ UNCHANGED lock
     \/ Drops(o) /\ Goto(o, "join") /\ Free(o) /\ UNCHANGED got
  /\ UNCHANGED <<callVars, session, compute, childVars, readVars>>

Release(o) ==
  /\ pc[o] = "release" /\ Free(o)
  /\ \/ ~Drops(o) /\ Return(o, Outcome(o))
     \/ Drops(o) /\ Goto(o, "join") /\ UNCHANGED got
  /\ UNCHANGED <<callVars, session, compute, childVars, readVars>>

Join(o) ==
  /\ pc[o] = "join" /\ reader[o] # "running" /\ Return(o, Outcome(o))
  /\ session' = [session EXCEPT ![o] = "none"]
  /\ reader' = [reader EXCEPT ![o] = "none"] /\ inbox' = [inbox EXCEPT ![o] = <<>>]
  /\ compute' = [compute EXCEPT ![o] = FALSE]
  /\ UNCHANGED <<lock, callVars, childVars>>

(* The owner's process is killed: the system closes its descriptors.       *)
Crash(o) ==
  /\ pc[o] # "crashed" /\ Goto(o, "crashed") /\ Free(o)
  /\ session' = [session EXCEPT ![o] = "none"]
  /\ reader' = [reader EXCEPT ![o] = "none"] /\ inbox' = [inbox EXCEPT ![o] = <<>>]
  /\ op' = [op EXCEPT ![o] = "none"] /\ call' = [call EXCEPT ![o] = 0]
  /\ got' = [got EXCEPT ![o] = Nothing] /\ compute' = [compute EXCEPT ![o] = FALSE]
  /\ UNCHANGED childVars

-----------------------------------------------------------------------------
(***************************************************************************)
(* The thread: frames until the first that is broken, or the end.          *)
(***************************************************************************)
ReadFrame(o) ==
  /\ reader[o] = "running" /\ stdout[o] # <<>>
  /\ stdout' = [stdout EXCEPT ![o] = Tail(@)]
  /\ inbox' = [inbox EXCEPT ![o] = Append(@, Head(stdout[o]))]
  /\ reader' = [reader EXCEPT ![o] = IF Head(stdout[o]) = Broken THEN "ended" ELSE @]
  /\ UNCHANGED <<lock, pc, callVars, got, session, compute, child, work, stdin>>

ReadEnd(o) ==
  /\ reader[o] = "running" /\ stdout[o] = <<>> /\ child[o] # "alive"
  /\ inbox' = [inbox EXCEPT ![o] = Append(@, Broken)]
  /\ reader' = [reader EXCEPT ![o] = "ended"]
  /\ UNCHANGED <<lock, pc, callVars, got, session, compute, childVars>>

-----------------------------------------------------------------------------
(***************************************************************************)
(* The child.                                                              *)
(***************************************************************************)
Expected(o, m) ==
  IF m.kind \in {"stage1", "request"} THEN work[o] = Nothing
  ELSE work[o] = Message("request", m.call)

Exits(o) ==
  /\ child' = [child EXCEPT ![o] = "dead"]
  /\ work' = [work EXCEPT ![o] = Nothing] /\ stdin' = [stdin EXCEPT ![o] = <<>>]

ReadMessage(o) ==
  /\ Reading(o) /\ stdin[o] # <<>>
  /\ \/ /\ Expected(o, Head(stdin[o]))
        /\ work' = [work EXCEPT ![o] = Head(stdin[o])]
        /\ stdin' = [stdin EXCEPT ![o] = Tail(@)] /\ UNCHANGED child
     \/ ~Expected(o, Head(stdin[o])) /\ Exits(o)
  /\ UNCHANGED <<lock, pc, callVars, got, session, compute, stdout, readVars>>

(* Mutated form: a child with a request under way keeps waiting.           *)
EndOfInputIdle(o) ==
  /\ Reading(o) /\ work[o] = Nothing /\ stdin[o] = <<>> /\ session[o] # "open" /\ Exits(o)
  /\ UNCHANGED <<lock, pc, callVars, got, session, compute, stdout, readVars>>

EndOfInput(o) ==
  /\ Reading(o) /\ stdin[o] = <<>> /\ session[o] # "open" /\ Exits(o)
  /\ UNCHANGED <<lock, pc, callVars, got, session, compute, stdout, readVars>>

(* Nobody reads: the write fails and ends the child. *)
Unread(o) == pc[o] = "crashed" \/ reader[o] = "ended"

Answer(o) ==
  /\ child[o] = "alive" /\ ~Reading(o)
  /\ \/ /\ ~Unread(o) /\ work' = [work EXCEPT ![o] = Nothing]
        /\ \E kind \in CASE work[o].kind = "stage1" -> {"stage1_result", "engine_error"}
                         [] work[o].kind = "reference" -> {"final_response"}
                         [] OTHER -> {"cancelled"} :
             stdout' = [stdout EXCEPT ![o] = Append(@, Message(kind, work[o].call))]
        /\ UNCHANGED <<child, stdin>>
     \/ Unread(o) /\ Exits(o) /\ UNCHANGED stdout
  /\ UNCHANGED <<lock, pc, callVars, got, session, compute, readVars>>

(* The child ends by itself, in the middle of a frame or not, or is killed. *)
Die(o) ==
  /\ child[o] = "alive" /\ Exits(o)
  /\ stdout' \in {stdout, [stdout EXCEPT ![o] = Append(@, Broken)]}
  /\ UNCHANGED <<lock, pc, callVars, got, session, compute, readVars>>

(* Something that is not a frame reaches the child's output. *)
Babble(o) ==
  /\ child[o] = "alive" /\ reader[o] = "running" /\ stdout[o] = <<>>
  /\ stdout' = [stdout EXCEPT ![o] = <<Broken>>]
  /\ UNCHANGED <<lock, pc, callVars, got, session, compute, child, work, stdin, readVars>>

-----------------------------------------------------------------------------
OwnerStep(o) ==
  \/ Gate(o) \/ Ungate(o) \/ Acquire(o) \/ Spawn(o) \/ StartReader(o)
  \/ Send(o) \/ SendFails(o) \/ Receive(o) \/ GiveUp(o)
  \/ Kill(o) \/ Reap(o) \/ Release(o) \/ Join(o)

CallerStep(o) ==
  \/ \E isCompute \in BOOLEAN : Open(o, isCompute)
  \/ \E kind \in {"stage1", "exchange", "cancel"} : Begin(o, kind)
  \/ RefuseFrame(o) \/ Close(o) \/ Crash(o)

ReaderStep(o) == ReadFrame(o) \/ ReadEnd(o)

ChildStep(o) == ReadMessage(o) \/ EndOfInput(o) \/ Answer(o)

Next ==
  \/ \E o \in Owners :
       OwnerStep(o) \/ CallerStep(o) \/ ReaderStep(o) \/ ChildStep(o) \/ Die(o) \/ Babble(o)
  \/ Build

(* Mutated form: the input is closed and no signal is sent.                *)
SignalledNever(o) == FALSE

(* The owner has sent the signal no process survives.                      *)
Signalled(o) == pc[o] = "reap"

(* Threads run, and a signal that was sent arrives.  Nothing is assumed of *)
(* the child itself.                                                       *)
Fairness ==
  \A o \in Owners :
    /\ WF_vars(OwnerStep(o)) /\ WF_vars(ReaderStep(o)) /\ WF_vars(Signalled(o) /\ Die(o))

Spec == Init /\ [][Next]_vars /\ Fairness

-----------------------------------------------------------------------------
Kinds == {"none", "failed", "opened", "broken", "stage1", "request", "reference", "cancel",
          "stage1_result", "engine_error", "final_response", "cancelled"}
Messages == [kind : Kinds, call : 0 .. MaxCalls]

Places == {"idle", "gate", "gated", "acquire", "spawn", "thread", "request", "send", "wait",
           "kill", "reap", "release", "join", "crashed"}

Types ==
  /\ lock \in Owners \cup {"nobody", "build"}
  /\ pc \in [Owners -> Places]
  /\ op \in [Owners -> {"none", "open", "close", "stage1", "exchange", "cancel"}]
  /\ call \in [Owners -> 0 .. MaxCalls]
  /\ got \in [Owners -> Messages]
  /\ session \in [Owners -> {"none", "open", "stopped"}] /\ compute \in [Owners -> BOOLEAN]
  /\ child \in [Owners -> {"none", "alive", "dead", "reaped"}] /\ work \in [Owners -> Messages]
  /\ stdin \in [Owners -> Seq(Messages)] /\ stdout \in [Owners -> Seq(Messages)]
  /\ reader \in [Owners -> {"none", "running", "ended"}] /\ inbox \in [Owners -> Seq(Messages)]

(* Every variable has its type; in particular the owner's channel, which   *)
(* has no bound of its own, never holds more than an answer and the end,   *)
(* however many calls fail.                                                *)
TypeOK == Types /\ \A o \in Owners : Len(inbox[o]) <= 2

(* While a compute child lives and its owner does, the owner has the lock: *)
(* no two such children ever run side by side, nor one beside a build,     *)
(* whatever fails and in whatever order sessions are stopped.              *)
Exclusive ==
  \A o \in Owners : child[o] = "alive" /\ compute[o] /\ pc[o] # "crashed" => lock = o

Wanted(o) ==
  CASE op[o] = "stage1" -> "stage1_result"
    [] op[o] = "exchange" -> "final_response"
    [] OTHER -> "cancelled"

(* What a call returns was sent in answer to that call: an answer that     *)
(* comes after the timeout is never taken for that of a later call.        *)
OwnAnswer ==
  \A o \in Owners :
    got[o] \notin {Nothing, Failed, Opened} => got[o] = Message(Wanted(o), call[o])

(* Between operations, an owner whose session is dropped or stopped has    *)
(* left nothing behind: no child, no thread once dropped, and no lock.     *)
NothingLeft ==
  \A o \in Owners : pc[o] = "idle" /\ session[o] # "open" =>
    /\ child[o] \in {"none", "reaped"} /\ lock # o
    /\ session[o] = "none" => reader[o] = "none"

(* README.md, 132: "Its owner kills and waits for the child and joins its  *)
(* output reader on normal drop, error, timeout and panic": when an        *)
(* operation has failed, its child is gone.                                *)
ErrorReaps ==
  \A o \in Owners : pc[o] = "idle" /\ got[o] = Failed => child[o] \in {"none", "reaped"}

(* Every operation on messages that fit in the pipe ends, even when the    *)
(* child reads nothing and never answers again.  Writing has no timeout:   *)
(* a message that does not fit waits for as long as the child does not     *)
(* read, which no run promises anything about.                             *)
Returns ==
  \A o \in Owners : pc[o] \notin {"idle", "crashed"} ~> pc[o] \in {"idle", "crashed"}

(* A child that keeps running does not outlive a crash of its owner.       *)
OrphansEnd ==
  (\A o \in Owners : WF_vars(ChildStep(o))) =>
    \A o \in Owners : pc[o] = "crashed" ~> child[o] # "alive"

=============================================================================
