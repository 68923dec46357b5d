---------------------------- MODULE SessionProofs ----------------------------
(***************************************************************************)
(* For any number of owners, calls and sizes of pipes: compute children    *)
(* never run side by side, a session that was dropped or stopped leaves    *)
(* nothing behind, and what a call returns is the child's answer to it.    *)
(***************************************************************************)
EXTENDS WorkerSession, TLAPS

USE DEF Goto, Free, Return

(***************************************************************************)
(* What one owner's variables and the lock have to do with each other.     *)
(***************************************************************************)
Opening == {"gate", "gated", "acquire", "spawn"}

HoldsLock(o) ==
  /\ pc[o] = "gated" => lock = o
  /\ compute[o] /\ (session[o] = "open" \/ pc[o] = "spawn") => lock = o
  /\ compute[o] /\ child[o] = "alive" /\ pc[o] # "crashed" => lock = o
  /\ lock = o => session[o] = "open" \/ pc[o] \in {"gated", "spawn", "reap", "release"}

Owned(o) ==
  /\ child[o] = "alive" /\ pc[o] # "crashed" => session[o] = "open" \/ pc[o] = "reap"
  /\ o \in Stage /\ (session[o] # "none" \/ pc[o] \in Opening) => compute[o]
  /\ session[o] = "stopped" => child[o] = "reaped" \/ pc[o] = "reap"
  /\ session[o] = "none" /\ pc[o] # "crashed" => child[o] \in {"none", "reaped"} /\ reader[o] = "none"

Placed(o) ==
  /\ session[o] = "open" => pc[o] \in {"idle", "thread", "request", "send", "wait", "kill"}
  /\ session[o] = "none" => pc[o] \in Opening \cup {"idle", "crashed"}
  /\ pc[o] \in Opening => session[o] = "none"
  /\ pc[o] \in {"release", "join"} => child[o] = "reaped"

OwnerInv(o) == HoldsLock(o) /\ Owned(o) /\ Placed(o)

(***************************************************************************)
(* Of another owner a step sees the lock and nothing else.                 *)
(***************************************************************************)
Step(o) ==
  OwnerStep(o) \/ CallerStep(o) \/ ReaderStep(o) \/ ChildStep(o) \/ Die(o) \/ Babble(o)

Own(o) ==
  <<pc[o], op[o], call[o], got[o], session[o], compute[o], child[o], work[o], stdin[o], stdout[o],
    reader[o], inbox[o]>>

LEMMA Apart ==
  ASSUME Types, NEW p \in Owners, Step(p), NEW o \in Owners, o # p
  PROVE  Own(o)' = Own(o) /\ (lock' = o <=> lock = o)
<1> USE OwnersAssumption DEF Types, Places, Own, callVars, childVars, readVars
<1>1. CASE \E isCompute \in BOOLEAN : Open(p, isCompute)
  BY <1>1 DEF Open
<1>2. CASE \E kind \in {"stage1", "exchange", "cancel"} : Begin(p, kind)
  BY <1>2 DEF Begin
<1>3. CASE Gate(p)
  BY <1>3 DEF Gate
<1>4. CASE Ungate(p)
  BY <1>4 DEF Ungate
<1>5. CASE Acquire(p)
  BY <1>5 DEF Acquire
<1>6. CASE Spawn(p)
  BY <1>6 DEF Spawn
<1>7. CASE StartReader(p)
  BY <1>7 DEF StartReader
<1>8. CASE Send(p)
  BY <1>8 DEF Send, Write, NextMessage, Message, Reading
<1>9. CASE SendFails(p) \/ RefuseFrame(p)
  BY <1>9 DEF SendFails, RefuseFrame, Fail
<1>10. CASE Receive(p)
  BY <1>10 DEF Receive, Fail, Accepts
<1>11. CASE GiveUp(p)
  BY <1>11 DEF GiveUp
<1>12. CASE Kill(p)
  BY <1>12 DEF Kill
<1>13. CASE Reap(p)
  BY <1>13 DEF Reap
<1>14. CASE Release(p)
  BY <1>14 DEF Release, Outcome, Drops
<1>15. CASE Join(p)
  BY <1>15 DEF Join, Outcome
<1>16. CASE Close(p)
  BY <1>16 DEF Close
<1>17. CASE Crash(p)
  BY <1>17 DEF Crash
<1>18. CASE ReadFrame(p)
  BY <1>18 DEF ReadFrame
<1>19. CASE ReadEnd(p)
  BY <1>19 DEF ReadEnd
<1>20. CASE ReadMessage(p)
  BY <1>20 DEF ReadMessage, Exits, Reading
<1>21. CASE EndOfInput(p)
  BY <1>21 DEF EndOfInput, Exits, Reading
<1>22. CASE Answer(p)
  BY <1>22 DEF Answer, Exits
<1>23. CASE Die(p)
  BY <1>23 DEF Die, Exits
<1>24. CASE Babble(p)
  BY <1>24 DEF Babble
<1> QED BY <1>1, <1>2, <1>3, <1>4, <1>5, <1>6, <1>7, <1>8, <1>9, <1>10, <1>11, <1>12, <1>13, <1>14, <1>15, <1>16, <1>17, <1>18, <1>19, <1>20, <1>21, <1>22, <1>23, <1>24
     DEF Step, OwnerStep, CallerStep, ReaderStep, ChildStep

LEMMA OwnStep ==
  ASSUME Types, NEW p \in Owners, OwnerInv(p), Step(p)
  PROVE  OwnerInv(p)'
<1> USE OwnersAssumption DEF Types, Places, OwnerInv, HoldsLock, Owned, Placed, Opening, callVars, childVars, readVars
<1>1. CASE \E isCompute \in BOOLEAN : Open(p, isCompute)
  <2>1. PICK isCompute \in BOOLEAN : Open(p, isCompute)
    BY <1>1
  <2> QED BY <2>1 DEF Open
<1>2. CASE \E kind \in {"stage1", "exchange", "cancel"} : Begin(p, kind)
  <2>1. PICK kind \in {"stage1", "exchange", "cancel"} : Begin(p, kind)
    BY <1>2
  <2>2. compute'[p] = (compute[p] \/ p \in Stage)
    BY <2>1 DEF Begin
  <2>3. CASE p \in Stage /\ kind = "stage1" /\ Goto(p, IF session[p] = "none" THEN "gate" ELSE "send")
    BY <2>1, <2>2, <2>3 DEF Begin
  <2>4. CASE p \in Echo /\ kind \in {"exchange", "cancel"} /\ session[p] # "none" /\ Goto(p, "request")
    BY <2>1, <2>2, <2>4 DEF Begin
  <2> QED BY <2>1, <2>3, <2>4 DEF Begin
<1>3. CASE Gate(p)
  BY <1>3 DEF Gate
<1>4. CASE Ungate(p)
  BY <1>4 DEF Ungate
<1>5. CASE Acquire(p)
  BY <1>5 DEF Acquire
<1>6. CASE Spawn(p)
  BY <1>6 DEF Spawn
<1>7. CASE StartReader(p)
  BY <1>7 DEF StartReader
<1>8. CASE Send(p)
  BY <1>8 DEF Send, Write, NextMessage, Message, Reading
<1>9. CASE SendFails(p) \/ RefuseFrame(p)
  BY <1>9 DEF SendFails, RefuseFrame, Fail
<1>10. CASE Receive(p)
  BY <1>10 DEF Receive, Fail, Accepts
<1>11. CASE GiveUp(p)
  BY <1>11 DEF GiveUp
<1>12. CASE Kill(p)
  BY <1>12 DEF Kill
<1>13. CASE Reap(p)
  BY <1>13 DEF Reap
<1>14. CASE Release(p)
  BY <1>14 DEF Release, Outcome, Drops
<1>15. CASE Join(p)
  BY <1>15 DEF Join, Outcome
<1>16. CASE Close(p)
  BY <1>16 DEF Close
<1>17. CASE Crash(p)
  BY <1>17 DEF Crash
<1>18. CASE ReadFrame(p)
  BY <1>18 DEF ReadFrame
<1>19. CASE ReadEnd(p)
  BY <1>19 DEF ReadEnd
<1>20. CASE ReadMessage(p)
  BY <1>20 DEF ReadMessage, Exits, Reading
<1>21. CASE EndOfInput(p)
  BY <1>21 DEF EndOfInput, Exits, Reading
<1>22. CASE Answer(p)
  BY <1>22 DEF Answer, Exits
<1>23. CASE Die(p)
  BY <1>23 DEF Die, Exits
<1>24. CASE Babble(p)
  BY <1>24 DEF Babble
<1> QED BY <1>1, <1>2, <1>3, <1>4, <1>5, <1>6, <1>7, <1>8, <1>9, <1>10, <1>11, <1>12, <1>13, <1>14, <1>15, <1>16, <1>17, <1>18, <1>19, <1>20, <1>21, <1>22, <1>23, <1>24
     DEF Step, OwnerStep, CallerStep, ReaderStep, ChildStep

-----------------------------------------------------------------------------
(***************************************************************************)
(* Types.                                                                  *)
(***************************************************************************)
LEMMA MessageTypes ==
  /\ Nothing \in Messages /\ Failed \in Messages /\ Opened \in Messages /\ Broken \in Messages
  /\ \A kind \in Kinds, n \in 0 .. MaxCalls : Message(kind, n) \in Messages
  /\ \A m \in Messages : m.kind \in Kinds /\ m.call \in 0 .. MaxCalls
BY CallsAssumption DEF Messages, Kinds, Message, Nothing, Failed, Opened, Broken

LEMMA PlaceTypes ==
  \A l \in {"idle", "gate", "gated", "acquire", "spawn", "thread", "request", "send", "wait",
            "kill", "reap", "release", "join", "crashed"} : l \in Places
BY DEF Places

LEMMA QueueTypes ==
  /\ <<>> \in Seq(Messages)
  /\ \A q \in Seq(Messages), m \in Messages : Append(q, m) \in Seq(Messages)
  /\ \A q \in Seq(Messages) : q # <<>> => Head(q) \in Messages /\ Tail(q) \in Seq(Messages)
OBVIOUS

LEMMA TypeStep ==
  ASSUME Types, NEW p \in Owners, Step(p)
  PROVE  Types'
<1> USE MessageTypes, QueueTypes, PlaceTypes, CallsAssumption DEF Types, callVars, childVars, readVars
<1>1. CASE \E isCompute \in BOOLEAN : Open(p, isCompute)
  BY <1>1 DEF Open
<1>2. CASE \E kind \in {"stage1", "exchange", "cancel"} : Begin(p, kind)
  <2>1. PICK kind \in {"stage1", "exchange", "cancel"} : Begin(p, kind)
    BY <1>2
  <2>2. pc' \in [Owners -> Places]
    BY <2>1 DEF Begin
  <2>3. call' \in [Owners -> 0 .. MaxCalls] /\ compute' \in [Owners -> BOOLEAN]
    BY <2>1 DEF Begin
  <2> QED BY <2>1, <2>2, <2>3 DEF Begin
<1>3. CASE Gate(p)
  BY <1>3 DEF Gate
<1>4. CASE Ungate(p)
  BY <1>4 DEF Ungate
<1>5. CASE Acquire(p)
  BY <1>5 DEF Acquire
<1>6. CASE Spawn(p)
  <2>1. lock' \in Owners \cup {"nobody", "build"} /\ got' \in [Owners -> Messages]
    BY <1>6 DEF Spawn
  <2>2. PICK l \in Places : Goto(p, l)
    BY <1>6 DEF Spawn
  <2>3. pc' \in [Owners -> Places]
    BY <2>2
  <2>4. session' \in {session, [session EXCEPT ![p] = "open"]} /\ child' \in {child, [child EXCEPT ![p] = "alive"]}
    BY <1>6 DEF Spawn
  <2>5. /\ session' \in [Owners -> {"none", "open", "stopped"}]
        /\ child' \in [Owners -> {"none", "alive", "dead", "reaped"}]
    BY <2>4
  <2>6. /\ work' \in {work, [work EXCEPT ![p] = Nothing]}
        /\ stdin' \in {stdin, [stdin EXCEPT ![p] = <<>>]} /\ stdout' \in {stdout, [stdout EXCEPT ![p] = <<>>]}
    BY <1>6 DEF Spawn
  <2>7. /\ work' \in [Owners -> Messages]
        /\ stdin' \in [Owners -> Seq(Messages)] /\ stdout' \in [Owners -> Seq(Messages)]
    <3>1. <<>> \in Seq(Messages) /\ Nothing \in Messages
      BY MessageTypes, QueueTypes
    <3>2. work' \in [Owners -> Messages]
      BY <2>6, <3>1
    <3>3. stdin' \in [Owners -> Seq(Messages)]
      BY <2>6, <3>1
    <3>4. stdout' \in [Owners -> Seq(Messages)]
      BY <2>6, <3>1
    <3> QED BY <3>2, <3>3, <3>4
  <2> QED BY <1>6, <2>1, <2>3, <2>5, <2>7 DEF Spawn
<1>7. CASE StartReader(p)
  <2>1. reader' \in {reader, [reader EXCEPT ![p] = "running"]} /\ got' \in {got, [got EXCEPT ![p] = Opened]}
    BY <1>7 DEF StartReader
  <2>2. reader' \in [Owners -> {"none", "running", "ended"}] /\ got' \in [Owners -> Messages]
    BY <2>1
  <2>3. PICK l \in Places : Goto(p, l)
    BY <1>7 DEF StartReader
  <2>4. pc' \in [Owners -> Places]
    BY <2>3
  <2> QED BY <1>7, <2>2, <2>4 DEF StartReader
<1>8. CASE Send(p)
  <2>1. NextMessage(p) \in Messages
    <3>1. PICK kind \in {"request", "reference", "cancel", "stage1"} : NextMessage(p) = Message(kind, call[p])
      BY DEF NextMessage
    <3>2. kind \in Kinds
      BY DEF Kinds
    <3> QED BY <3>1, <3>2
  <2>2. stdin' \in [Owners -> Seq(Messages)]
    BY <1>8, <2>1 DEF Send, Write
  <2>3. PICK l \in Places : Goto(p, l)
    BY <1>8 DEF Send
  <2>4. pc' \in [Owners -> Places]
    BY <2>3
  <2> QED BY <1>8, <2>2, <2>4 DEF Send, Write
<1>9. CASE SendFails(p) \/ RefuseFrame(p)
  BY <1>9 DEF SendFails, RefuseFrame, Fail
<1>10. CASE Receive(p)
  <2>1. Head(inbox[p]) \in Messages /\ inbox' \in [Owners -> Seq(Messages)]
    BY <1>10 DEF Receive
  <2>2. got' \in [Owners -> Messages]
    BY <1>10, <2>1 DEF Receive, Fail
  <2>3. pc' \in [Owners -> Places]
    BY <1>10 DEF Receive, Fail
  <2> QED BY <1>10, <2>1, <2>2, <2>3 DEF Receive
<1>11. CASE GiveUp(p)
  BY <1>11 DEF GiveUp
<1>12. CASE Kill(p)
  BY <1>12 DEF Kill
<1>13. CASE Reap(p)
  BY <1>13 DEF Reap
<1>14. CASE Release(p)
  <2>1. Outcome(p) \in Messages /\ lock' \in Owners \cup {"nobody", "build"}
    BY <1>14 DEF Release, Outcome
  <2>2. got' \in {got, [got EXCEPT ![p] = Outcome(p)]}
    BY <1>14 DEF Release
  <2>3. got' \in [Owners -> Messages]
    BY <2>1, <2>2
  <2>4. PICK l \in Places : Goto(p, l)
    BY <1>14 DEF Release
  <2>5. pc' \in [Owners -> Places]
    BY <2>4
  <2> QED BY <1>14, <2>1, <2>3, <2>5 DEF Release
<1>15. CASE Join(p)
  BY <1>15 DEF Join, Outcome
<1>16. CASE Close(p)
  BY <1>16 DEF Close
<1>17. CASE Crash(p)
  BY <1>17 DEF Crash
<1>18. CASE ReadFrame(p)
  BY <1>18 DEF ReadFrame
<1>19. CASE ReadEnd(p)
  BY <1>19 DEF ReadEnd
<1>20. CASE ReadMessage(p)
  <2>1. Head(stdin[p]) \in Messages /\ Tail(stdin[p]) \in Seq(Messages)
    BY <1>20 DEF ReadMessage
  <2>2. /\ work' \in {[work EXCEPT ![p] = Head(stdin[p])], [work EXCEPT ![p] = Nothing]}
        /\ stdin' \in {[stdin EXCEPT ![p] = Tail(stdin[p])], [stdin EXCEPT ![p] = <<>>]}
        /\ child' \in {child, [child EXCEPT ![p] = "dead"]}
    BY <1>20 DEF ReadMessage, Exits
  <2>3. work' \in [Owners -> Messages]
    BY <2>1, <2>2
  <2>4. stdin' \in [Owners -> Seq(Messages)]
    <3>1. PICK q \in Seq(Messages) : stdin' = [stdin EXCEPT ![p] = q]
      BY <2>1, <2>2
    <3> QED BY <3>1
  <2>5. child' \in [Owners -> {"none", "alive", "dead", "reaped"}]
    BY <2>2
  <2> QED BY <1>20, <2>3, <2>4, <2>5 DEF ReadMessage
<1>21. CASE EndOfInput(p)
  BY <1>21 DEF EndOfInput, Exits
<1>22. CASE Answer(p)
  <2>1. PICK kind \in Kinds :
          stdout' \in {stdout, [stdout EXCEPT ![p] = Append(stdout[p], Message(kind, work[p].call))]}
    BY <1>22 DEF Answer, Kinds
  <2>2. Append(stdout[p], Message(kind, work[p].call)) \in Seq(Messages)
    OBVIOUS
  <2>3. stdout' \in [Owners -> Seq(Messages)]
    BY <2>1, <2>2
  <2>4. /\ work' \in [Owners -> Messages] /\ stdin' \in [Owners -> Seq(Messages)]
        /\ child' \in [Owners -> {"none", "alive", "dead", "reaped"}]
    <3>1. /\ work' = [work EXCEPT ![p] = Nothing]
          /\ stdin' \in {stdin, [stdin EXCEPT ![p] = <<>>]} /\ child' \in {child, [child EXCEPT ![p] = "dead"]}
      BY <1>22 DEF Answer, Exits
    <3>2. Nothing \in Messages /\ <<>> \in Seq(Messages)
      OBVIOUS
    <3>3. work' \in [Owners -> Messages]
      BY <3>1, <3>2
    <3>4. stdin' \in [Owners -> Seq(Messages)]
      BY <3>1, <3>2
    <3>5. child' \in [Owners -> {"none", "alive", "dead", "reaped"}]
      BY <3>1
    <3> QED BY <3>3, <3>4, <3>5
  <2> QED BY <1>22, <2>3, <2>4 DEF Answer
<1>23. CASE Die(p)
  <2>1. /\ work' \in [Owners -> Messages] /\ stdin' \in [Owners -> Seq(Messages)]
        /\ child' \in [Owners -> {"none", "alive", "dead", "reaped"}]
    BY <1>23 DEF Die, Exits
  <2>2. Append(stdout[p], Broken) \in Seq(Messages)
    OBVIOUS
  <2>3. stdout' \in {stdout, [stdout EXCEPT ![p] = Append(stdout[p], Broken)]}
    BY <1>23 DEF Die
  <2>4. stdout' \in [Owners -> Seq(Messages)]
    BY <2>2, <2>3
  <2> QED BY <1>23, <2>1, <2>4 DEF Die
<1>24. CASE Babble(p)
  BY <1>24 DEF Babble
<1> QED BY <1>1, <1>2, <1>3, <1>4, <1>5, <1>6, <1>7, <1>8, <1>9, <1>10, <1>11, <1>12, <1>13, <1>14, <1>15, <1>16, <1>17, <1>18, <1>19, <1>20, <1>21, <1>22, <1>23, <1>24
     DEF Step, OwnerStep, CallerStep, ReaderStep, ChildStep

-----------------------------------------------------------------------------
(***************************************************************************)
(* Every owner's invariant holds throughout: its own steps keep it, and    *)
(* other owners and the build only touch a lock it does not hold.          *)
(***************************************************************************)
SessionInv == Types /\ \A o \in Owners : OwnerInv(o)

LEMMA SessionStep ==
  ASSUME SessionInv, [Next]_vars
  PROVE  SessionInv'
<1>1. ASSUME NEW p \in Owners, Step(p) PROVE SessionInv'
  <2>1. Types'
    BY <1>1, TypeStep DEF SessionInv
  <2>2. ASSUME NEW o \in Owners, o # p PROVE OwnerInv(o)'
    <3>1. Own(o)' = Own(o) /\ (lock' = o <=> lock = o)
      BY <1>1, <2>2, Apart DEF SessionInv
    <3> QED BY <3>1 DEF SessionInv, OwnerInv, HoldsLock, Owned, Placed, Own
  <2>3. OwnerInv(p)'
    BY <1>1, OwnStep DEF SessionInv
  <2> QED BY <2>1, <2>2, <2>3 DEF SessionInv
<1>2. CASE Build
  <2>1. /\ \A o \in Owners : lock # o /\ lock' # o
        /\ lock' \in {"nobody", "build"}
        /\ UNCHANGED <<pc, callVars, got, session, compute, childVars, readVars>>
    BY <1>2, OwnersAssumption DEF Build
  <2>2. Types'
    BY <2>1 DEF SessionInv, Types, callVars, childVars, readVars
  <2>3. ASSUME NEW o \in Owners PROVE OwnerInv(o)'
    BY <2>1, <2>3 DEF SessionInv, OwnerInv, HoldsLock, Owned, Placed, callVars, childVars, readVars
  <2> QED BY <2>2, <2>3 DEF SessionInv
<1>3. CASE UNCHANGED vars
  BY <1>3 DEF vars, SessionInv, Types, OwnerInv, HoldsLock, Owned, Placed, callVars, childVars, readVars
<1> QED BY <1>1, <1>2, <1>3 DEF Next, Step

LEMMA SessionInitially == Init => SessionInv
BY OwnersAssumption, CallsAssumption, MessageTypes
DEF Init, SessionInv, Types, Places, OwnerInv, HoldsLock, Owned, Placed, Opening

LEMMA SessionInvariant == Spec => []SessionInv
BY SessionInitially, SessionStep, PTL DEF Spec

(***************************************************************************)
(* Compute children of owners that have not crashed never run side by      *)
(* side, nor beside a build.                                               *)
(***************************************************************************)
THEOREM ChildrenExclude == Spec => []Exclusive
<1>1. SessionInv => Exclusive
  BY DEF SessionInv, OwnerInv, HoldsLock, Exclusive
<1> QED BY <1>1, SessionInvariant, PTL

(***************************************************************************)
(* Between operations a session that is not open has left neither child,   *)
(* nor thread, nor lock behind.                                            *)
(***************************************************************************)
THEOREM SessionsLeaveNothing == Spec => []NothingLeft
<1>1. SessionInv => NothingLeft
  BY DEF SessionInv, Types, OwnerInv, HoldsLock, Owned, Placed, NothingLeft
<1> QED BY <1>1, SessionInvariant, PTL


-----------------------------------------------------------------------------
(***************************************************************************)
(* What is on its way between an owner and its child.  As long as the      *)
(* thread reads and nothing broken is next, there is one message at most   *)
(* that the child will answer, or one answer, and none unless the owner    *)
(* waits for it or has given the session up; what follows something broken *)
(* never arrives.                                                          *)
(***************************************************************************)
Final(m) == m.kind \notin {"none", "request"}

Asking(o) == \E i \in DOMAIN stdin[o] : Final(stdin[o][i])

Cut(o) == stdout[o] # <<>> /\ stdout[o][1] = Broken

Quiet(o) ==
  /\ inbox[o] = <<>>
  /\ ~Cut(o) => stdout[o] = <<>> /\ ~Asking(o) /\ ~Final(work[o])

OneAnswer(o) ==
  /\ Len(inbox[o]) <= 1 /\ \A i \in DOMAIN inbox[o] : inbox[o][i] # Broken
  /\ ~Cut(o) =>
       /\ Len(stdout[o]) >= 2 => stdout[o][2] = Broken
       /\ \A i \in DOMAIN stdin[o] : Final(stdin[o][i]) => i = Len(stdin[o])
       /\ Final(work[o]) => ~Asking(o)
       /\ stdout[o] # <<>> \/ inbox[o] # <<>> => ~Asking(o) /\ ~Final(work[o])
       /\ stdout[o] # <<>> => inbox[o] = <<>>

AskedBy(what) ==
  CASE what = "stage1" -> "stage1" [] what = "exchange" -> "reference" [] OTHER -> "cancel"

AnswersTo(what) ==
  CASE what = "stage1" -> {"stage1_result", "engine_error"}
    [] what = "exchange" -> {"final_response"}
    [] OTHER -> {"cancelled"}

IsAnswer(what, n, m) == \E kind \in AnswersTo(what) : m = Message(kind, n)

Awaited(o) ==
  /\ \A i \in DOMAIN inbox[o] : inbox[o][i] # Broken => IsAnswer(op[o], call[o], inbox[o][i])
  /\ reader[o] = "running" /\ ~Cut(o) =>
       /\ \A i \in DOMAIN stdin[o] : Final(stdin[o][i]) => stdin[o][i] = Message(AskedBy(op[o]), call[o])
       /\ Final(work[o]) => work[o] = Message(AskedBy(op[o]), call[o])
       /\ stdout[o] # <<>> => IsAnswer(op[o], call[o], stdout[o][1])

ChannelInv(o) ==
  /\ session[o] = "none" => reader[o] = "none"
  /\ reader[o] = "none" => inbox[o] = <<>>
  /\ pc[o] = "thread" => reader[o] = "none" /\ Quiet(o)
  /\ reader[o] = "running" => OneAnswer(o)
  /\ reader[o] = "ended" =>
       Len(inbox[o]) <= 2 /\ \A i \in DOMAIN inbox[o] : inbox[o][i] = Broken <=> i = Len(inbox[o])
  /\ session[o] = "open" /\ pc[o] \in {"idle", "request", "send"} =>
       /\ reader[o] = "running" => Quiet(o)
       /\ reader[o] = "ended" => Len(inbox[o]) <= 1
  /\ pc[o] = "wait" => session[o] = "open" /\ Awaited(o)
  /\ pc[o] \in Opening \cup {"thread"} => op[o] \in {"open", "stage1"}
  /\ pc[o] = "request" => op[o] \in {"exchange", "cancel"}
  /\ pc[o] \in {"send", "wait"} => op[o] \in {"stage1", "exchange", "cancel"}
  /\ got[o] \notin {Nothing, Failed, Opened} => got[o] = Message(Wanted(o), call[o])


(* Steps that leave the pipes alone.                                       *)
Pipes(o) == <<work[o], stdin[o], stdout[o], inbox[o]>>

LEMMA PipesKept ==
  ASSUME NEW o \in Owners, Pipes(o)' = Pipes(o)
  PROVE  /\ Quiet(o)' <=> Quiet(o)
         /\ OneAnswer(o)' <=> OneAnswer(o)
         /\ op'[o] = op[o] /\ call'[o] = call[o] /\ reader'[o] = reader[o] =>
              (Awaited(o)' <=> Awaited(o))
<1> USE DEF Pipes, Asking, Cut
<1>1. Quiet(o)' <=> Quiet(o)
  BY DEF Quiet
<1>2. OneAnswer(o)' <=> OneAnswer(o)
  BY DEF OneAnswer
<1>3. ASSUME op'[o] = op[o], call'[o] = call[o], reader'[o] = reader[o]
      PROVE  Awaited(o)' <=> Awaited(o)
  BY <1>3 DEF Awaited
<1> QED BY <1>1, <1>2, <1>3

LEMMA QuietIsOneAnswer ==
  ASSUME NEW o \in Owners, stdin[o] \in Seq(Messages), Quiet(o)
  PROVE  OneAnswer(o) /\ Awaited(o)
BY DEF Quiet, OneAnswer, Awaited, Asking

(* The operation, the call and what it returned.                           *)
Calls(o) == <<op[o], call[o], got[o]>>

LEMMA ControlStep ==
  ASSUME Types, NEW p \in Owners, OwnerInv(p), ChannelInv(p),
         \/ \E isCompute \in BOOLEAN : Open(p, isCompute)
         \/ \E kind \in {"stage1", "exchange", "cancel"} : Begin(p, kind)
         \/ Gate(p) \/ Ungate(p) \/ Acquire(p) \/ StartReader(p) \/ SendFails(p) \/ RefuseFrame(p)
         \/ GiveUp(p)
         \/ Kill(p) \/ Reap(p) \/ Release(p) \/ Close(p)
  PROVE  ChannelInv(p)'
<1> USE DEF Types, callVars, childVars, readVars
<1>1. Pipes(p)' = Pipes(p)
  BY DEF Open, Begin, Gate, Ungate, Acquire, StartReader, SendFails, RefuseFrame, Fail, GiveUp,
         Kill, Reap, Release, Close, Pipes
<1>2. inbox'[p] = inbox[p]
  BY <1>1 DEF Pipes
<1>3. Quiet(p)' <=> Quiet(p)
  BY <1>1, PipesKept
<1>4. OneAnswer(p)' <=> OneAnswer(p)
  BY <1>1, PipesKept
<1>5. CASE \E isCompute \in BOOLEAN : Open(p, isCompute)
  BY <1>2, <1>4, <1>5 DEF Open, ChannelInv, Opening
<1>6. CASE \E kind \in {"stage1", "exchange", "cancel"} : Begin(p, kind)
  <2>1. PICK kind \in {"stage1", "exchange", "cancel"} : Begin(p, kind)
    BY <1>6
  <2>2. /\ op'[p] = kind /\ got'[p] = Nothing /\ session'[p] = session[p] /\ reader'[p] = reader[p]
        /\ pc[p] = "idle"
    BY <2>1 DEF Begin
  <2>3. \/ kind = "stage1" /\ pc'[p] \in {"gate", "send"} /\ (pc'[p] = "gate" => session[p] = "none")
        \/ kind \in {"exchange", "cancel"} /\ pc'[p] = "request"
    BY <2>1 DEF Begin
  <2> QED BY <1>2, <1>3, <1>4, <2>2, <2>3 DEF ChannelInv, Opening
<1>7. CASE Gate(p) \/ Ungate(p) \/ Acquire(p)
  <2>1. /\ pc[p] \in Opening /\ op'[p] = op[p] /\ call'[p] = call[p]
        /\ session'[p] = session[p] /\ reader'[p] = reader[p]
        /\ \/ pc'[p] \in Opening /\ got'[p] = got[p]
           \/ pc'[p] = "idle" /\ got'[p] = Failed
    BY <1>7 DEF Gate, Ungate, Acquire, Opening
  <2>2. session[p] = "none"
    BY <2>1 DEF OwnerInv, Placed
  <2>3. got'[p] \notin {Nothing, Failed, Opened} => got'[p] = Message(Wanted(p)', call'[p])
    BY <2>1 DEF ChannelInv, Wanted
  <2>4. reader[p] = "none" /\ inbox[p] = <<>>
    BY <2>2 DEF ChannelInv
  <2>5. op[p] \in {"open", "stage1"}
    BY <2>1 DEF ChannelInv
  <2> QED BY <1>2, <2>1, <2>2, <2>3, <2>4, <2>5 DEF ChannelInv, Opening
<1>8. CASE StartReader(p)
  <2>1. /\ pc[p] = "thread" /\ op'[p] = op[p] /\ call'[p] = call[p] /\ session'[p] = session[p]
        /\ \/ reader'[p] = "running" /\ op[p] = "open" /\ pc'[p] = "idle" /\ got'[p] = Opened
           \/ reader'[p] = "running" /\ op[p] # "open" /\ pc'[p] = "send" /\ got'[p] = got[p]
           \/ reader'[p] = reader[p] /\ pc'[p] = "kill" /\ got'[p] = got[p]
    BY <1>8 DEF StartReader
  <2>2. Quiet(p) /\ OneAnswer(p) /\ inbox[p] = <<>> /\ op[p] \in {"open", "stage1"} /\ reader[p] = "none"
    BY <2>1, QuietIsOneAnswer DEF ChannelInv, Quiet
  <2>3. got'[p] \notin {Nothing, Failed, Opened} => got'[p] = Message(Wanted(p)', call'[p])
    BY <2>1 DEF ChannelInv, Wanted
  <2>4. session[p] # "none"
    BY <2>1 DEF OwnerInv, Placed, Opening
  <2> QED BY <1>2, <1>3, <1>4, <2>1, <2>2, <2>3, <2>4 DEF ChannelInv, Opening
<1>9. CASE SendFails(p) \/ RefuseFrame(p)
  <2>1. /\ pc[p] \in {"request", "send"} /\ op'[p] = op[p] /\ call'[p] = call[p]
        /\ session'[p] = session[p] /\ reader'[p] = reader[p]
        /\ \/ op[p] = "cancel" /\ pc'[p] = "idle" /\ got'[p] = Failed
           \/ pc'[p] = "kill" /\ got'[p] = got[p]
    BY <1>9 DEF SendFails, RefuseFrame, Fail
  <2> QED BY <1>2, <1>3, <1>4, <2>1 DEF ChannelInv, Opening, Wanted
<1>10. CASE GiveUp(p) \/ Kill(p) \/ Reap(p) \/ Close(p)
  <2>1. /\ pc'[p] \in {"kill", "reap", "release"} /\ reader'[p] = reader[p]
        /\ session'[p] \in {session[p], "stopped"}
        /\ \/ op'[p] = op[p] /\ call'[p] = call[p] /\ got'[p] = got[p]
           \/ got'[p] = Nothing
    BY <1>10 DEF GiveUp, Kill, Reap, Close
  <2>2. got'[p] \notin {Nothing, Failed, Opened} => got'[p] = Message(Wanted(p)', call'[p])
    BY <2>1 DEF ChannelInv, Wanted
  <2> QED BY <1>2, <1>4, <2>1, <2>2 DEF ChannelInv, Opening
<1>11. CASE Release(p)
  <2>1. /\ reader'[p] = reader[p] /\ session'[p] = session[p] /\ op'[p] = op[p] /\ call'[p] = call[p]
        /\ pc[p] = "release"
        /\ \/ pc'[p] = "idle" /\ got'[p] \in {Nothing, Failed}
           \/ pc'[p] = "join" /\ got'[p] = got[p]
    BY <1>11 DEF Release, Outcome
  <2>2. session[p] # "open"
    BY <2>1 DEF OwnerInv, Placed
  <2> QED BY <1>2, <1>4, <2>1, <2>2 DEF ChannelInv, Opening, Wanted
<1> QED BY <1>5, <1>6, <1>7, <1>8, <1>9, <1>10, <1>11


LEMMA AppendOf ==
  ASSUME NEW S, NEW q \in Seq(S), NEW m \in S
  PROVE  /\ Append(q, m) \in Seq(S) /\ Append(q, m) # <<>>
         /\ Len(q) \in Nat /\ Len(Append(q, m)) = Len(q) + 1
         /\ DOMAIN Append(q, m) = 1 .. Len(q) + 1 /\ DOMAIN q = 1 .. Len(q)
         /\ Append(q, m)[Len(q) + 1] = m
         /\ \A i \in 1 .. Len(q) : Append(q, m)[i] = q[i]
         /\ q = <<>> <=> Len(q) = 0
OBVIOUS

LEMMA TailOf ==
  ASSUME NEW S, NEW q \in Seq(S), q # <<>>
  PROVE  /\ Tail(q) \in Seq(S) /\ Head(q) = q[1] /\ Head(q) \in S
         /\ Len(q) \in Nat /\ Len(q) >= 1 /\ DOMAIN q = 1 .. Len(q)
         /\ Len(Tail(q)) = Len(q) - 1 /\ DOMAIN Tail(q) = 1 .. Len(q) - 1
         /\ \A i \in 1 .. Len(q) - 1 : Tail(q)[i] = q[i + 1]
         /\ Tail(q) = <<>> <=> Len(q) = 1
<1>1. /\ Tail(q) \in Seq(S) /\ Head(q) = q[1]
      /\ Len(q) \in Nat /\ Len(q) >= 1 /\ DOMAIN q = 1 .. Len(q)
      /\ Len(Tail(q)) = Len(q) - 1 /\ DOMAIN Tail(q) = 1 .. Len(q) - 1
      /\ \A i \in 1 .. Len(q) - 1 : Tail(q)[i] = q[i + 1]
  OBVIOUS
<1>2. Head(q) \in S
  BY <1>1
<1>3. Tail(q) = <<>> <=> Len(Tail(q)) = 0
  BY <1>1
<1> QED BY <1>1, <1>2, <1>3

(* Steps of the child: they feed the thread and leave the owner alone.     *)
LEMMA ChildOnly ==
  ASSUME NEW p \in Owners, ChannelInv(p),
         /\ pc'[p] = pc[p] /\ op'[p] = op[p] /\ call'[p] = call[p] /\ got'[p] = got[p]
         /\ session'[p] = session[p] /\ reader'[p] = reader[p] /\ inbox'[p] = inbox[p],
         Quiet(p) => Quiet(p)',
         reader[p] = "running" /\ OneAnswer(p) => OneAnswer(p)',
         Awaited(p) /\ (reader[p] = "running" => OneAnswer(p)) => Awaited(p)'
  PROVE  ChannelInv(p)'
BY DEF ChannelInv, Opening, Wanted

(* The child is gone, in the middle of a frame or not.                     *)
LEMMA ExitKeeps ==
  ASSUME Types, NEW p \in Owners,
         stdin'[p] = <<>>, work'[p] = Nothing, inbox'[p] = inbox[p],
         stdout'[p] \in {stdout[p], Append(stdout[p], Broken)},
         op'[p] = op[p], call'[p] = call[p], reader'[p] = reader[p]
  PROVE  /\ Quiet(p) => Quiet(p)'
         /\ OneAnswer(p) => OneAnswer(p)'
         /\ Awaited(p) => Awaited(p)'
<1> USE MessageTypes DEF Types
<1>1. ~Asking(p)' /\ ~Final(work[p])' /\ \A i \in DOMAIN stdin'[p] : FALSE
  BY DEF Asking, Final, Nothing, Message
<1>2. stdout[p] \in Seq(Messages) /\ stdout'[p] \in Seq(Messages)
  <2>1. stdout[p] \in Seq(Messages) /\ Broken \in Messages
    BY MessageTypes
  <2>2. Append(stdout[p], Broken) \in Seq(Messages)
    BY <2>1, AppendOf
  <2> QED BY <2>1, <2>2
<1>3. \/ stdout'[p] = stdout[p]
      \/ /\ Len(stdout'[p]) = Len(stdout[p]) + 1 /\ stdout'[p][Len(stdout[p]) + 1] = Broken
         /\ \A i \in 1 .. Len(stdout[p]) : stdout'[p][i] = stdout[p][i]
         /\ stdout'[p] # <<>>
  <2>1. stdout[p] \in Seq(Messages) /\ Broken \in Messages
    BY MessageTypes
  <2> HIDE DEF Types
  <2>2. /\ Len(Append(stdout[p], Broken)) = Len(stdout[p]) + 1
        /\ Append(stdout[p], Broken)[Len(stdout[p]) + 1] = Broken
        /\ \A i \in 1 .. Len(stdout[p]) : Append(stdout[p], Broken)[i] = stdout[p][i]
        /\ Append(stdout[p], Broken) # <<>>
    BY <2>1, AppendOf
  <2>3. stdout'[p] = stdout[p] \/ stdout'[p] = Append(stdout[p], Broken)
    OBVIOUS
  <2> QED BY <2>2, <2>3
<1>4. ~Cut(p)' => /\ ~Cut(p)
                  /\ stdout'[p] = <<>> => stdout[p] = <<>>
                  /\ stdout[p] = <<>> => stdout'[p] = <<>>
                  /\ stdout'[p] # <<>> => stdout'[p][1] = stdout[p][1]
                  /\ Len(stdout'[p]) >= 2 =>
                       stdout'[p][2] = Broken \/ (Len(stdout[p]) >= 2 /\ stdout'[p][2] = stdout[p][2])
  BY <1>2, <1>3 DEF Cut
<1>5. Quiet(p) => Quiet(p)'
  BY <1>1, <1>4 DEF Quiet
<1>6. OneAnswer(p) => OneAnswer(p)'
  BY <1>1, <1>4 DEF OneAnswer
<1>7. ASSUME Awaited(p) PROVE Awaited(p)'
  <2>1. \A i \in DOMAIN inbox'[p] : inbox'[p][i] # Broken => IsAnswer(op'[p], call'[p], inbox'[p][i])
    BY <1>7 DEF Awaited
  <2>2. ASSUME reader'[p] = "running", ~Cut(p)'
        PROVE  stdout'[p] # <<>> => IsAnswer(op'[p], call'[p], stdout'[p][1])
    BY <1>4, <1>7, <2>2 DEF Awaited
  <2> QED BY <1>1, <2>1, <2>2 DEF Awaited
<1> QED BY <1>5, <1>6, <1>7

LEMMA ChildStepKeeps ==
  ASSUME Types, NEW p \in Owners, OwnerInv(p), ChannelInv(p),
         ReadMessage(p) \/ EndOfInput(p) \/ Answer(p) \/ Die(p) \/ Babble(p)
  PROVE  ChannelInv(p)'
<1> USE DEF Types
<1>1. /\ pc'[p] = pc[p] /\ op'[p] = op[p] /\ call'[p] = call[p] /\ got'[p] = got[p]
      /\ session'[p] = session[p] /\ reader'[p] = reader[p] /\ inbox'[p] = inbox[p]
  BY DEF ReadMessage, EndOfInput, Answer, Die, Babble, callVars, readVars
<1>2. CASE Exits(p) /\ stdout'[p] \in {stdout[p], Append(stdout[p], Broken)}
  <2>1. stdin'[p] = <<>> /\ work'[p] = Nothing
    BY <1>2 DEF Exits
  <2>2. /\ Quiet(p) => Quiet(p)'
        /\ OneAnswer(p) => OneAnswer(p)'
        /\ Awaited(p) => Awaited(p)'
    BY <1>1, <1>2, <2>1, ExitKeeps
  <2> QED BY <1>1, <2>2, ChildOnly
<1>3. CASE /\ Reading(p) /\ stdin[p] # <<>> /\ stdout'[p] = stdout[p]
           /\ work'[p] = Head(stdin[p]) /\ stdin'[p] = Tail(stdin[p])
  <2> DEFINE q == stdin[p]
  <2>1. q \in Seq(Messages) /\ q # <<>>
    BY <1>3
  <2> HIDE DEF q
  <2>2. /\ Len(q) >= 1 /\ Head(q) = q[1] /\ Len(Tail(q)) = Len(q) - 1 /\ DOMAIN q = 1 .. Len(q)
        /\ DOMAIN Tail(q) = 1 .. Len(q) - 1 /\ Len(q) \in Nat
        /\ \A i \in DOMAIN Tail(q) : Tail(q)[i] = q[i + 1]
    BY <2>1
  <2>3. ~Final(work[p])
    BY <1>3 DEF Reading, Final
  <2>4. /\ Asking(p)' => Asking(p)
        /\ Final(work[p])' => Asking(p) /\ work'[p] = q[1]
    <3>1. ASSUME NEW i \in DOMAIN Tail(q), Final(Tail(q)[i]) PROVE Asking(p)
      <4>1. i + 1 \in DOMAIN q /\ Final(q[i + 1])
        BY <2>2, <3>1
      <4> QED BY <4>1 DEF Asking, q
    <3>2. 1 \in DOMAIN q
      BY <2>2
    <3> QED BY <1>3, <2>2, <3>1, <3>2 DEF Asking, q
  <2>5. Quiet(p) => Quiet(p)'
    BY <1>1, <1>3, <2>4 DEF Quiet, Cut
  <2>6. ASSUME OneAnswer(p) PROVE OneAnswer(p)'
    <3>1. (Cut(p)' <=> Cut(p)) /\ stdout'[p] = stdout[p] /\ inbox'[p] = inbox[p]
      BY <1>1, <1>3 DEF Cut
    <3>2. ASSUME ~Cut(p) PROVE \A i \in DOMAIN stdin'[p] : Final(stdin'[p][i]) => i = Len(stdin'[p])
      <4>1. ASSUME NEW i \in DOMAIN Tail(q), Final(Tail(q)[i]) PROVE i = Len(Tail(q))
        <5>4. \A k, l \in Nat : k + 1 = l => k = l - 1
          OBVIOUS
        <5>1. i + 1 \in DOMAIN q /\ Final(q[i + 1]) /\ i \in Nat
          BY <2>2, <4>1
        <5>2. i + 1 = Len(q)
          BY <2>6, <3>2, <5>1 DEF OneAnswer, q
        <5>3. i = Len(q) - 1
          BY <2>2, <5>1, <5>2, <5>4
        <5> QED BY <2>2, <5>3
      <4> QED BY <1>3, <4>1 DEF q
    <3>3. ASSUME ~Cut(p), Final(work[p])' PROVE ~Asking(p)'
      <4>1. 1 \in DOMAIN q /\ Final(q[1])
        BY <2>2, <2>4, <3>3
      <4>2. Len(q) = 1
        BY <2>6, <3>3, <4>1 DEF OneAnswer, q
      <4>3. DOMAIN Tail(q) = {}
        BY <2>2, <4>2
      <4> QED BY <1>3, <4>3 DEF Asking, q
    <3> QED BY <2>4, <2>6, <3>1, <3>2, <3>3 DEF OneAnswer
  <2>7. ASSUME Awaited(p) PROVE Awaited(p)'
    <3>1. (Cut(p)' <=> Cut(p)) /\ stdout'[p] = stdout[p]
      BY <1>1, <1>3 DEF Cut
    <3>4. ASSUME reader[p] = "running", ~Cut(p)
          PROVE  /\ \A i \in DOMAIN Tail(q) : Final(Tail(q)[i]) => Tail(q)[i] = Message(AskedBy(op[p]), call[p])
                 /\ Final(work[p])' => work'[p] = Message(AskedBy(op[p]), call[p])
      <4>1. \A i \in DOMAIN q : Final(q[i]) => q[i] = Message(AskedBy(op[p]), call[p])
        BY <2>7, <3>4 DEF Awaited, q
      <4>2. 1 \in DOMAIN q /\ \A i \in DOMAIN Tail(q) : i + 1 \in DOMAIN q
        BY <2>2
      <4> QED BY <1>3, <2>2, <4>1, <4>2 DEF q
    <3> QED BY <1>1, <1>3, <2>7, <3>1, <3>4 DEF Awaited, q
  <2> QED BY <1>1, <2>5, <2>6, <2>7, ChildOnly
<1>4. CASE Answer(p) /\ ~Unread(p)
  <2>1. PICK kind : /\ \/ work[p].kind = "stage1" /\ kind \in {"stage1_result", "engine_error"}
                       \/ work[p].kind = "reference" /\ kind = "final_response"
                       \/ work[p].kind \notin {"stage1", "reference"} /\ kind = "cancelled"
                    /\ stdout' = [stdout EXCEPT ![p] = Append(@, Message(kind, work[p].call))]
    BY <1>4 DEF Answer
  <2> DEFINE a == Message(kind, work[p].call)
             q == stdout[p]
  <2>2. q \in Seq(Messages) /\ a \in Messages /\ a # Broken /\ stdout'[p] = Append(q, a)
    <3>1. kind \in Kinds /\ work[p].call \in 0 .. MaxCalls /\ kind # "broken"
      BY <2>1, MessageTypes DEF Kinds
    <3>2. a # Broken
      <4>1. a.kind = kind /\ Broken.kind = "broken"
        BY DEF Message, Broken
      <4> QED BY <3>1, <4>1
    <3> QED BY <2>1, <3>1, <3>2, MessageTypes
  <2>3. Final(work[p]) /\ ~Final(work[p])' /\ stdin'[p] = stdin[p]
    BY <1>4 DEF Answer, Reading, Final, Nothing, Message
  <2> HIDE DEF a, q
  <2>4. /\ Len(Append(q, a)) = Len(q) + 1 /\ Append(q, a) # <<>> /\ Len(q) \in Nat
        /\ q = <<>> => Append(q, a)[1] = a /\ Len(Append(q, a)) = 1
        /\ q # <<>> => Append(q, a)[1] = q[1]
    <3>1. /\ Append(q, a) # <<>> /\ Len(q) \in Nat /\ Len(Append(q, a)) = Len(q) + 1
          /\ Append(q, a)[Len(q) + 1] = a
          /\ \A i \in 1 .. Len(q) : Append(q, a)[i] = q[i]
          /\ q = <<>> <=> Len(q) = 0
      BY <2>2, AppendOf
    <3>2. CASE q = <<>>
      BY <3>1, <3>2
    <3>3. CASE q # <<>>
      <4>1. 1 \in 1 .. Len(q)
        BY <3>1, <3>3
      <4> QED BY <3>1, <3>3, <4>1
    <3> QED BY <3>2, <3>3
  <2>5. Cut(p) => Cut(p)'
    BY <2>2, <2>4 DEF Cut, q
  <2>6. Asking(p)' <=> Asking(p)
    BY <2>3 DEF Asking
  <2>7. Quiet(p) => Quiet(p)'
    BY <1>1, <2>3, <2>5 DEF Quiet
  <2>8. OneAnswer(p) /\ ~Cut(p)' => q = <<>> /\ ~Asking(p) /\ inbox[p] = <<>>
    BY <2>3, <2>5 DEF OneAnswer, q
  <2>9. ASSUME OneAnswer(p) PROVE OneAnswer(p)'
    <3>1. ASSUME ~Cut(p)'
          PROVE  Len(stdout'[p]) = 1 /\ ~Asking(p)' /\ inbox'[p] = <<>>
      BY <1>1, <2>2, <2>4, <2>6, <2>8, <2>9, <3>1
    <3>2. ASSUME ~Cut(p)' PROVE \A i \in DOMAIN stdin'[p] : ~Final(stdin'[p][i])
      BY <3>1, <3>2 DEF Asking
    <3> QED BY <1>1, <2>3, <2>9, <3>1, <3>2 DEF OneAnswer
  <2>10. ASSUME Awaited(p), reader[p] = "running", OneAnswer(p) PROVE Awaited(p)'
    <3>1. ASSUME ~Cut(p)' PROVE IsAnswer(op'[p], call'[p], stdout'[p][1])
      <4>1. ~Cut(p) /\ work[p] = Message(AskedBy(op[p]), call[p])
        BY <2>3, <2>5, <2>10, <3>1 DEF Awaited
      <4>2. work[p].call = call[p] /\ work[p].kind = AskedBy(op[p])
        BY <4>1 DEF Message
      <4>3. kind \in AnswersTo(op[p])
        BY <2>1, <4>2 DEF AskedBy, AnswersTo
      <4>4. stdout'[p][1] = Message(kind, call[p])
        BY <2>2, <2>4, <2>8, <2>10, <3>1, <4>2 DEF a
      <4> QED BY <1>1, <4>3, <4>4 DEF IsAnswer
    <3>2. ASSUME ~Cut(p)' PROVE \A i \in DOMAIN stdin'[p] : ~Final(stdin'[p][i])
      <4>1. ~Asking(p)'
        BY <2>6, <2>8, <2>10, <3>2
      <4> QED BY <4>1 DEF Asking
    <3>3. \A i \in DOMAIN inbox'[p] : inbox'[p][i] # Broken => IsAnswer(op'[p], call'[p], inbox'[p][i])
      BY <1>1, <2>10 DEF Awaited
    <3> QED BY <2>3, <3>1, <3>2, <3>3 DEF Awaited
  <2>11. ASSUME Awaited(p), reader[p] # "running" PROVE Awaited(p)'
    BY <1>1, <2>11 DEF Awaited
  <2> QED BY <1>1, <2>7, <2>9, <2>10, <2>11, ChildOnly
<1>5. CASE Babble(p)
  <2>1. Cut(p)'
    BY <1>5 DEF Babble, Cut
  <2>2. Quiet(p) => Quiet(p)'
    BY <1>1, <2>1 DEF Quiet
  <2>3. OneAnswer(p) => OneAnswer(p)'
    BY <1>1, <2>1 DEF OneAnswer
  <2>4. Awaited(p) => Awaited(p)'
    BY <1>1, <2>1 DEF Awaited
  <2> QED BY <1>1, <2>2, <2>3, <2>4, ChildOnly
<1>6. CASE ReadMessage(p)
  <2>1. stdout'[p] = stdout[p]
    BY <1>6 DEF ReadMessage
  <2> QED BY <1>2, <1>3, <1>6, <2>1 DEF ReadMessage
<1>7. CASE EndOfInput(p)
  <2>1. Exits(p) /\ stdout'[p] = stdout[p]
    BY <1>7 DEF EndOfInput
  <2> QED BY <1>2, <2>1
<1>8. CASE Answer(p) /\ Unread(p)
  <2>1. Exits(p) /\ stdout'[p] = stdout[p]
    BY <1>8 DEF Answer
  <2> QED BY <1>2, <2>1
<1>9. CASE Die(p)
  <2>1. Exits(p) /\ stdout'[p] \in {stdout[p], Append(stdout[p], Broken)}
    BY <1>9 DEF Die
  <2> QED BY <1>2, <2>1
<1> QED BY <1>4, <1>5, <1>6, <1>7, <1>8, <1>9


(* The thread hands on what it reads.                                      *)
LEMMA ReaderStepKeeps ==
  ASSUME Types, NEW p \in Owners, OwnerInv(p), ChannelInv(p), ReadFrame(p) \/ ReadEnd(p)
  PROVE  ChannelInv(p)'
<1> DEFINE i0 == inbox[p]
           q == stdout[p]
<1>1. i0 \in Seq(Messages) /\ q \in Seq(Messages) /\ Broken \in Messages
  BY MessageTypes DEF Types
<1>2. /\ pc'[p] = pc[p] /\ op'[p] = op[p] /\ call'[p] = call[p] /\ got'[p] = got[p]
      /\ session'[p] = session[p] /\ stdin'[p] = stdin[p] /\ work'[p] = work[p]
      /\ reader[p] = "running"
  BY DEF ReadFrame, ReadEnd, callVars, childVars
<1>3. session[p] # "none" /\ pc[p] # "thread"
  BY <1>2 DEF ChannelInv
<1>4. OneAnswer(p) /\ Len(i0) <= 1 /\ \A i \in DOMAIN i0 : i0[i] # Broken
  BY <1>2 DEF ChannelInv, OneAnswer
<1>5. Asking(p)' <=> Asking(p)
  BY <1>2 DEF Asking
<1> HIDE DEF i0, q
<1>6. CASE reader'[p] = "ended" /\ inbox'[p] = Append(i0, Broken)
  <2>1. /\ Len(inbox'[p]) = Len(i0) + 1 /\ Len(i0) \in Nat
        /\ DOMAIN inbox'[p] = 1 .. Len(i0) + 1 /\ DOMAIN i0 = 1 .. Len(i0)
        /\ inbox'[p][Len(i0) + 1] = Broken
        /\ \A i \in 1 .. Len(i0) : inbox'[p][i] = i0[i]
    BY <1>1, <1>6, AppendOf
  <2>2. Len(inbox'[p]) <= 2 /\ \A i \in DOMAIN inbox'[p] : inbox'[p][i] = Broken <=> i = Len(inbox'[p])
    <3>1. Len(inbox'[p]) <= 2
      BY <1>4, <2>1
    <3>2. ASSUME NEW i \in 1 .. Len(i0) + 1 PROVE inbox'[p][i] = Broken <=> i = Len(i0) + 1
      <4>1. CASE i = Len(i0) + 1
        BY <2>1, <4>1
      <4>2. CASE i # Len(i0) + 1
        <5>1. i \in 1 .. Len(i0)
          BY <2>1, <4>2
        <5> QED BY <1>4, <2>1, <4>2, <5>1
      <4> QED BY <4>1, <4>2
    <3> QED BY <2>1, <3>1, <3>2
  <2>3. session[p] = "open" /\ pc[p] \in {"idle", "request", "send"} => Len(inbox'[p]) <= 1
    <3>1. session[p] = "open" /\ pc[p] \in {"idle", "request", "send"} => i0 = <<>>
      BY <1>2 DEF ChannelInv, Quiet, i0
    <3> QED BY <2>1, <3>1
  <2>4. pc[p] = "wait" => Awaited(p)'
    <3>1. ASSUME Awaited(p), NEW i \in DOMAIN inbox'[p], inbox'[p][i] # Broken
          PROVE  IsAnswer(op[p], call[p], inbox'[p][i])
      <4>1. i # Len(i0) + 1 /\ i \in 1 .. Len(i0) + 1
        BY <2>1, <3>1
      <4>2. i \in 1 .. Len(i0)
        BY <2>1, <4>1
      <4> QED BY <2>1, <3>1, <4>2 DEF Awaited, i0
    <3> QED BY <1>2, <1>6, <3>1 DEF Awaited, ChannelInv
  <2> QED BY <1>2, <1>3, <1>6, <2>2, <2>3, <2>4 DEF ChannelInv, Opening, Wanted
<1>7. CASE ReadFrame(p) /\ Head(q) # Broken
  <2>1. /\ reader'[p] = "running" /\ stdout'[p] = Tail(q) /\ inbox'[p] = Append(i0, Head(q))
        /\ q # <<>>
    BY <1>2, <1>7 DEF ReadFrame, Types, i0, q
  <2>2. /\ Tail(q) \in Seq(Messages) /\ Head(q) = q[1] /\ Head(q) \in Messages
        /\ Len(q) \in Nat /\ Len(q) >= 1 /\ Len(Tail(q)) = Len(q) - 1
        /\ \A i \in 1 .. Len(q) - 1 : Tail(q)[i] = q[i + 1]
        /\ Tail(q) = <<>> <=> Len(q) = 1
    BY <1>1, <2>1, TailOf
  <2>3. ~Cut(p)
    BY <1>7, <2>2 DEF Cut, q
  <2>4. i0 = <<>> /\ ~Asking(p) /\ ~Final(work[p]) /\ (Len(q) >= 2 => q[2] = Broken)
    BY <1>4, <2>1, <2>3 DEF OneAnswer, i0, q
  <2>5. Len(inbox'[p]) = 1 /\ DOMAIN inbox'[p] = {1} /\ inbox'[p][1] = Head(q)
    <3>1. /\ Len(Append(i0, Head(q))) = Len(i0) + 1 /\ Append(i0, Head(q))[Len(i0) + 1] = Head(q)
          /\ DOMAIN Append(i0, Head(q)) = 1 .. Len(i0) + 1 /\ (i0 = <<>> <=> Len(i0) = 0)
      BY <1>1, <2>2, AppendOf
    <3> QED BY <2>1, <2>4, <3>1
  <2>6. Cut(p)' \/ stdout'[p] = <<>>
    <3>1. ASSUME Tail(q) # <<>> PROVE Tail(q)[1] = Broken
      <4>1. Len(q) >= 2
        BY <2>2, <3>1
      <4>2. 1 \in 1 .. Len(q) - 1
        BY <2>2, <4>1
      <4> QED BY <2>2, <2>4, <4>1, <4>2
    <3> QED BY <2>1, <3>1 DEF Cut
  <2>7. OneAnswer(p)'
    <3>1. Len(inbox'[p]) <= 1 /\ \A i \in DOMAIN inbox'[p] : inbox'[p][i] # Broken
      BY <1>7, <2>5
    <3>2. ASSUME ~Cut(p)' PROVE stdout'[p] = <<>> /\ Len(stdout'[p]) = 0
      BY <2>6, <3>2
    <3>3. \A i \in DOMAIN stdin'[p] : ~Final(stdin'[p][i])
      BY <1>5, <2>4 DEF Asking
    <3> QED BY <1>2, <1>5, <2>4, <3>1, <3>2, <3>3 DEF OneAnswer
  <2>8. pc[p] = "wait" => Awaited(p)'
    <3>1. ASSUME Awaited(p) PROVE Awaited(p)'
      <4>1. IsAnswer(op'[p], call'[p], inbox'[p][1])
        BY <1>2, <2>1, <2>2, <2>3, <2>5, <3>1 DEF Awaited, q
      <4>2. \A i \in DOMAIN stdin'[p] : ~Final(stdin'[p][i])
        BY <1>5, <2>4 DEF Asking
      <4> QED BY <1>2, <2>4, <2>5, <2>6, <4>1, <4>2 DEF Awaited
    <3> QED BY <3>1 DEF ChannelInv
  <2>9. ~(session[p] = "open" /\ pc[p] \in {"idle", "request", "send"})
    BY <1>2, <2>1, <2>3 DEF ChannelInv, Quiet, q
  <2> QED BY <1>2, <1>3, <2>1, <2>7, <2>8, <2>9 DEF ChannelInv, Opening, Wanted
<1>8. CASE ReadFrame(p) /\ Head(q) = Broken
  BY <1>2, <1>6, <1>8 DEF ReadFrame, Types, i0, q
<1>9. CASE ReadEnd(p)
  BY <1>2, <1>6, <1>9 DEF ReadEnd, Types, i0, q
<1> QED BY <1>7, <1>8, <1>9

(* A session begins and ends with empty pipes on the owner's side.         *)
LEMMA EndsKeep ==
  ASSUME Types, NEW p \in Owners, OwnerInv(p), ChannelInv(p), Spawn(p) \/ Join(p) \/ Crash(p)
  PROVE  ChannelInv(p)'
<1> USE DEF Types
<1>1. CASE Spawn(p)
  <2>1. /\ pc[p] = "spawn" /\ session[p] = "none" /\ reader'[p] = reader[p] /\ inbox'[p] = inbox[p]
        /\ op'[p] = op[p] /\ call'[p] = call[p]
    BY <1>1 DEF Spawn, callVars, readVars, OwnerInv, Placed, Opening
  <2>2. reader[p] = "none" /\ inbox[p] = <<>>
    BY <2>1 DEF ChannelInv, OwnerInv, Owned
  <2>3. CASE pc'[p] = "thread" /\ got'[p] = got[p] /\ stdin'[p] = <<>> /\ stdout'[p] = <<>> /\ work'[p] = Nothing
    <3>1. Quiet(p)'
      BY <2>1, <2>2, <2>3 DEF Quiet, Asking, Final, Nothing, Message
    <3> QED BY <2>1, <2>2, <2>3, <3>1 DEF ChannelInv, Opening, Wanted
  <2>4. CASE pc'[p] = "idle" /\ got'[p] = Failed /\ session'[p] = session[p]
    BY <2>1, <2>2, <2>4 DEF ChannelInv, Opening
  <2> QED BY <1>1, <2>3, <2>4 DEF Spawn
<1>2. CASE Join(p) \/ Crash(p)
  <2>1. /\ pc'[p] \in {"idle", "crashed"} /\ session'[p] = "none" /\ reader'[p] = "none"
        /\ inbox'[p] = <<>> /\ got'[p] \in {Nothing, Failed}
    BY <1>2 DEF Join, Crash, Outcome
  <2> QED BY <2>1 DEF ChannelInv, Opening
<1> QED BY <1>1, <1>2

(* The owner writes: a request before its last message, which the child    *)
(* will answer.                                                            *)
LEMMA SendKeeps ==
  ASSUME Types, NEW p \in Owners, OwnerInv(p), ChannelInv(p), Send(p)
  PROVE  ChannelInv(p)'
<1> DEFINE q == stdin[p]
           m == NextMessage(p)
<1>1. /\ pc[p] \in {"request", "send"} /\ pc'[p] = (IF pc[p] = "request" THEN "send" ELSE "wait")
      /\ session[p] = "open" /\ session'[p] = session[p] /\ op'[p] = op[p] /\ call'[p] = call[p]
      /\ got'[p] = got[p] /\ reader'[p] = reader[p] /\ inbox'[p] = inbox[p]
      /\ stdout'[p] = stdout[p] /\ work'[p] = work[p] /\ stdin'[p] = Append(q, m)
  BY DEF Send, Write, Types, callVars, readVars
<1>2. /\ pc[p] = "request" => ~Final(m)
      /\ pc[p] = "send" => m = Message(AskedBy(op[p]), call[p])
  <2>1. pc[p] = "request" => m = Message("request", call[p])
    BY DEF NextMessage
  <2>2. op[p] \in {"stage1", "exchange", "cancel"} \/ pc[p] # "send"
    BY DEF ChannelInv
  <2>3. pc[p] = "send" => m = Message(AskedBy(op[p]), call[p])
    BY <2>2 DEF NextMessage, AskedBy
  <2> QED BY <2>1, <2>3 DEF Final, Message
<1>3. q \in Seq(Messages) /\ m \in Messages
  <2>1. PICK kind \in {"request", "reference", "cancel", "stage1"} : m = Message(kind, call[p])
    BY DEF NextMessage
  <2>2. kind \in Kinds /\ call[p] \in 0 .. MaxCalls
    BY DEF Kinds, Types
  <2> QED BY <2>1, <2>2, MessageTypes DEF Types
<1> HIDE DEF q, m
<1>4. /\ Len(q) \in Nat /\ Len(Append(q, m)) = Len(q) + 1
      /\ DOMAIN Append(q, m) = 1 .. Len(q) + 1 /\ DOMAIN q = 1 .. Len(q)
      /\ Append(q, m)[Len(q) + 1] = m
      /\ \A i \in 1 .. Len(q) : Append(q, m)[i] = q[i]
  BY <1>3, AppendOf
<1>5. \A i \in DOMAIN Append(q, m) :
        Final(Append(q, m)[i]) => Asking(p) \/ (i = Len(q) + 1 /\ Final(m) /\ Append(q, m)[i] = m)
  <2>1. ASSUME NEW i \in 1 .. Len(q) + 1, Final(Append(q, m)[i])
        PROVE  Asking(p) \/ (i = Len(q) + 1 /\ Final(m) /\ Append(q, m)[i] = m)
    <3>1. CASE i = Len(q) + 1
      BY <1>4, <2>1, <3>1
    <3>2. CASE i # Len(q) + 1
      <4>1. i \in 1 .. Len(q)
        BY <1>4, <3>2
      <4> QED BY <1>4, <2>1, <4>1 DEF Asking, q
    <3> QED BY <3>1, <3>2
  <2> QED BY <1>4, <2>1
<1>6. /\ Cut(p)' <=> Cut(p)
      /\ reader[p] = "running" => Quiet(p)
      /\ reader[p] = "ended" => Len(inbox[p]) <= 1
      /\ reader[p] = "none" => inbox[p] = <<>>
  BY <1>1 DEF Cut, ChannelInv
<1>7. got'[p] \notin {Nothing, Failed, Opened} => got'[p] = Message(Wanted(p)', call'[p])
  BY <1>1 DEF ChannelInv, Wanted
<1>8. reader[p] = "running" => OneAnswer(p)'
  <2> HAVE reader[p] = "running"
  <2>1. inbox'[p] = <<>> /\ (~Cut(p)' => stdout'[p] = <<>> /\ ~Asking(p) /\ ~Final(work[p]'))
    BY <1>1, <1>6 DEF Quiet
  <2>2. ~Cut(p)' => \A i \in DOMAIN stdin'[p] : Final(stdin'[p][i]) => i = Len(stdin'[p])
    BY <1>1, <1>4, <1>5, <2>1
  <2> QED BY <2>1, <2>2 DEF OneAnswer
<1>9. CASE pc[p] = "request"
  <2>1. reader[p] = "running" => Quiet(p)'
    <3> HAVE reader[p] = "running"
    <3>1. Quiet(p)
      BY <1>6
    <3>2. ~Cut(p) => ~Asking(p)'
      BY <1>1, <1>2, <1>5, <1>9, <3>1 DEF Quiet, Asking
    <3> QED BY <1>1, <1>6, <3>1, <3>2 DEF Quiet
  <2> QED BY <1>1, <1>6, <1>7, <1>8, <1>9, <2>1 DEF ChannelInv, Opening
<1>10. CASE pc[p] = "send"
  <2>1. \A i \in DOMAIN inbox'[p] : inbox'[p][i] # Broken => IsAnswer(op'[p], call'[p], inbox'[p][i])
    <3>1. CASE inbox[p] = <<>>
      BY <1>1, <3>1
    <3>2. CASE reader[p] = "ended" /\ Len(inbox[p]) <= 1
      <4>1. inbox[p] \in Seq(Messages)
        BY DEF Types
      <4>2. \A i \in DOMAIN inbox[p] : i = Len(inbox[p])
        BY <3>2, <4>1
      <4> QED BY <1>1, <3>2, <4>2 DEF ChannelInv
    <3> QED BY <1>6, <3>1, <3>2 DEF ChannelInv, Quiet, Types
  <2>2. ASSUME reader'[p] = "running", ~Cut(p)'
        PROVE  /\ \A i \in DOMAIN stdin'[p] :
                    Final(stdin'[p][i]) => stdin'[p][i] = Message(AskedBy(op'[p]), call'[p])
               /\ ~Final(work'[p]) /\ stdout'[p] = <<>>
    <3>1. stdout[p] = <<>> /\ ~Asking(p) /\ ~Final(work[p])
      BY <1>1, <1>6, <2>2 DEF Quiet
    <3> QED BY <1>1, <1>2, <1>5, <1>10, <3>1
  <2>3. Awaited(p)'
    BY <2>1, <2>2 DEF Awaited
  <2>4. op[p] \in {"stage1", "exchange", "cancel"}
    BY <1>10 DEF ChannelInv
  <2> QED BY <1>1, <1>6, <1>7, <1>8, <1>10, <2>3, <2>4 DEF ChannelInv, Opening
<1> QED BY <1>1, <1>9, <1>10

(* The owner takes the answer it waited for, or the end.                   *)
LEMMA ReceiveKeeps ==
  ASSUME Types, NEW p \in Owners, OwnerInv(p), ChannelInv(p), Receive(p)
  PROVE  ChannelInv(p)'
<1> DEFINE q == inbox[p]
           m == Head(q)
<1>1. /\ pc[p] = "wait" /\ session[p] = "open" /\ session'[p] = session[p]
      /\ op'[p] = op[p] /\ call'[p] = call[p] /\ reader'[p] = reader[p]
      /\ stdin'[p] = stdin[p] /\ stdout'[p] = stdout[p] /\ work'[p] = work[p]
      /\ q # <<>> /\ inbox'[p] = Tail(q)
  BY DEF Receive, ChannelInv, Types, callVars, childVars
<1>2. \/ Accepts(p, m) /\ pc'[p] = "idle" /\ got'[p] = m
      \/ ~Accepts(p, m) /\ op[p] = "cancel" /\ pc'[p] = "idle" /\ got'[p] = Failed
      \/ ~Accepts(p, m) /\ op[p] # "cancel" /\ pc'[p] = "kill" /\ got'[p] = got[p]
  BY DEF Receive, Fail, Types
<1>3. q \in Seq(Messages)
  BY DEF Types
<1> HIDE DEF q
<1>4. /\ m = q[1] /\ Len(q) \in Nat /\ Len(q) >= 1 /\ DOMAIN q = 1 .. Len(q)
      /\ Len(Tail(q)) = Len(q) - 1 /\ DOMAIN Tail(q) = 1 .. Len(q) - 1
      /\ \A i \in 1 .. Len(q) - 1 : Tail(q)[i] = q[i + 1]
      /\ Tail(q) = <<>> <=> Len(q) = 1
  BY <1>1, <1>3, TailOf
<1>5. Awaited(p) /\ op[p] \in {"stage1", "exchange", "cancel"}
  BY <1>1 DEF ChannelInv
<1>6. m # Broken => IsAnswer(op[p], call[p], m)
  <2>1. 1 \in DOMAIN q
    BY <1>4
  <2> QED BY <1>4, <1>5, <2>1 DEF Awaited, q
<1>7. Accepts(p, m) => m = Message(Wanted(p), call[p])
  <2> HAVE Accepts(p, m)
  <2>1. m # Broken
    BY DEF Accepts, Broken, Message
  <2>2. PICK kind \in AnswersTo(op[p]) : m = Message(kind, call[p])
    BY <1>6, <2>1 DEF IsAnswer
  <2>3. m.kind = kind
    BY <2>2 DEF Message
  <2>4. kind = Wanted(p)
    BY <1>5, <2>3 DEF Accepts, AnswersTo, Wanted
  <2> QED BY <2>2, <2>4
<1>8. got'[p] \notin {Nothing, Failed, Opened} => got'[p] = Message(Wanted(p)', call'[p])
  <2>1. Wanted(p)' = Wanted(p)
    BY <1>1 DEF Wanted
  <2> QED BY <1>1, <1>2, <1>7, <2>1 DEF ChannelInv
<1>9. reader[p] \in {"running", "ended"}
  BY <1>1 DEF ChannelInv, Types, q
<1>10. CASE reader[p] = "running"
  <2>1. OneAnswer(p)
    BY <1>10 DEF ChannelInv
  <2>2. inbox'[p] = <<>> /\ Len(inbox'[p]) = 0
    <3>1. Len(q) <= 1
      BY <2>1 DEF OneAnswer, q
    <3> QED BY <1>1, <1>4, <3>1
  <2>3. (Cut(p)' <=> Cut(p)) /\ (Asking(p)' <=> Asking(p)) /\ (Final(work[p])' <=> Final(work[p]))
    BY <1>1 DEF Cut, Asking
  <2>4. ~Cut(p) => stdout[p] = <<>> /\ ~Asking(p) /\ ~Final(work[p])
    BY <1>1, <2>1 DEF OneAnswer, q
  <2>5. Quiet(p)'
    BY <1>1, <2>2, <2>3, <2>4 DEF Quiet
  <2>6. OneAnswer(p)'
    BY <2>2, <2>5 DEF Quiet, OneAnswer, Asking
  <2> QED BY <1>1, <1>2, <1>8, <1>10, <2>2, <2>5, <2>6 DEF ChannelInv, Opening
<1>11. CASE reader[p] = "ended"
  <2>1. Len(q) <= 2 /\ \A i \in DOMAIN q : q[i] = Broken <=> i = Len(q)
    BY <1>11 DEF ChannelInv, q
  <2>2. Len(inbox'[p]) <= 1
    BY <1>1, <1>4, <2>1
  <2>3. Len(inbox'[p]) <= 2
    BY <1>1, <1>4, <2>1
  <2>4. ASSUME NEW i \in 1 .. Len(q) - 1 PROVE Tail(q)[i] = Broken <=> i = Len(Tail(q))
    <3>1. i + 1 \in DOMAIN q /\ (i + 1 = Len(q) <=> i = Len(q) - 1)
      BY <1>4
    <3> QED BY <1>4, <2>1, <3>1
  <2>5. \A i \in DOMAIN inbox'[p] : inbox'[p][i] = Broken <=> i = Len(inbox'[p])
    BY <1>1, <1>4, <2>4
  <2> QED BY <1>1, <1>2, <1>8, <1>11, <2>2, <2>3, <2>5 DEF ChannelInv, Opening
<1> QED BY <1>9, <1>10, <1>11


ChannelsInv == SessionInv /\ \A o \in Owners : ChannelInv(o)

(* What another owner's step leaves of an owner.                           *)
LEMMA ChannelApart ==
  ASSUME NEW o \in Owners, ChannelInv(o), Own(o)' = Own(o)
  PROVE  ChannelInv(o)'
<1>1. /\ Pipes(o)' = Pipes(o)
      /\ pc'[o] = pc[o] /\ op'[o] = op[o] /\ call'[o] = call[o] /\ got'[o] = got[o]
      /\ session'[o] = session[o] /\ reader'[o] = reader[o] /\ inbox'[o] = inbox[o]
  BY DEF Own, Pipes
<1>2. (Quiet(o)' <=> Quiet(o)) /\ (OneAnswer(o)' <=> OneAnswer(o)) /\ (Awaited(o)' <=> Awaited(o))
  BY <1>1, PipesKept
<1> QED BY <1>1, <1>2 DEF ChannelInv, Opening, Wanted

LEMMA ChannelStep ==
  ASSUME ChannelsInv, [Next]_vars
  PROVE  ChannelsInv'
<1>1. SessionInv'
  BY SessionStep DEF ChannelsInv
<1>2. Types
  BY DEF ChannelsInv, SessionInv
<1>3. ASSUME NEW p \in Owners, Step(p), NEW o \in Owners PROVE ChannelInv(o)'
  <2>1. ChannelInv(o) /\ OwnerInv(o)
    BY DEF ChannelsInv, SessionInv
  <2>2. CASE o # p
    <3>1. Own(o)' = Own(o)
      BY <1>2, <1>3, <2>2, Apart
    <3> QED BY <2>1, <3>1, ChannelApart
  <2>3. CASE o = p
    <3>1. CASE Send(o)
      BY <1>2, <2>1, <3>1, SendKeeps
    <3>2. CASE Receive(o)
      BY <1>2, <2>1, <3>2, ReceiveKeeps
    <3>3. CASE Spawn(o) \/ Join(o) \/ Crash(o)
      BY <1>2, <2>1, <3>3, EndsKeep
    <3>4. CASE ReadFrame(o) \/ ReadEnd(o)
      BY <1>2, <2>1, <3>4, ReaderStepKeeps
    <3>5. CASE ReadMessage(o) \/ EndOfInput(o) \/ Answer(o) \/ Die(o) \/ Babble(o)
      BY <1>2, <2>1, <3>5, ChildStepKeeps
    <3>6. CASE \/ \E isCompute \in BOOLEAN : Open(o, isCompute)
               \/ \E kind \in {"stage1", "exchange", "cancel"} : Begin(o, kind)
               \/ Gate(o) \/ Ungate(o) \/ Acquire(o) \/ StartReader(o) \/ SendFails(o) \/ RefuseFrame(o)
               \/ GiveUp(o)
               \/ Kill(o) \/ Reap(o) \/ Release(o) \/ Close(o)
      BY <1>2, <2>1, <3>6, ControlStep
    <3> QED BY <1>3, <2>3, <3>1, <3>2, <3>3, <3>4, <3>5, <3>6
         DEF Step, OwnerStep, CallerStep, ReaderStep, ChildStep
  <2> QED BY <2>2, <2>3
<1>4. ASSUME Build \/ UNCHANGED vars, NEW o \in Owners PROVE ChannelInv(o)'
  <2>1. Own(o)' = Own(o)
    BY <1>4 DEF Build, vars, Own, callVars, childVars, readVars
  <2> QED BY <2>1, ChannelApart DEF ChannelsInv
<1> QED BY <1>1, <1>3, <1>4 DEF ChannelsInv, Next, Step

LEMMA ChannelInvariant == Spec => []ChannelsInv
<1>1. Init => SessionInv
  BY SessionInitially
<1>2. ASSUME Init, NEW o \in Owners PROVE ChannelInv(o)
  <2>1. /\ pc[o] = "idle" /\ op[o] = "none" /\ call[o] = 0 /\ got[o] = Nothing
        /\ session[o] = "none" /\ reader[o] = "none" /\ inbox[o] = <<>>
    BY <1>2 DEF Init
  <2> QED BY <2>1 DEF ChannelInv, Opening
<1>3. Init => ChannelsInv
  BY <1>1, <1>2 DEF ChannelsInv
<1> QED BY <1>3, ChannelStep, PTL DEF Spec

(***************************************************************************)
(* What a call of an owner returns was sent in answer to that call, by     *)
(* stage1.rs' transport as by a WorkerSession: no answer that was given up *)
(* on is taken for that of a later call.                                   *)
(***************************************************************************)
THEOREM AnswersAreOwn == Spec => []OwnAnswer
<1>1. ChannelsInv => OwnAnswer
  BY DEF ChannelsInv, ChannelInv, OwnAnswer
<1> QED BY <1>1, ChannelInvariant, PTL

(***************************************************************************)
(* Every variable of a session has its type, and the channel from the      *)
(* thread to the owner, which session.rs leaves unbounded, never holds     *)
(* more than an answer and the end, however many calls fail.               *)
(***************************************************************************)
THEOREM SessionTypes == Spec => []TypeOK
<1>1. ASSUME ChannelsInv, NEW o \in Owners PROVE Len(inbox[o]) <= 2
  <2>1. reader[o] \in {"none", "running", "ended"} /\ inbox[o] \in Seq(Messages)
    BY <1>1 DEF ChannelsInv, SessionInv, Types
  <2>2. /\ reader[o] = "none" => inbox[o] = <<>>
        /\ reader[o] = "running" => Len(inbox[o]) <= 1
        /\ reader[o] = "ended" => Len(inbox[o]) <= 2
    BY <1>1 DEF ChannelsInv, ChannelInv, OneAnswer
  <2> QED BY <2>1, <2>2
<1>2. ChannelsInv => TypeOK
  BY <1>1 DEF ChannelsInv, SessionInv, TypeOK
<1> QED BY <1>2, ChannelInvariant, PTL


=============================================================================
