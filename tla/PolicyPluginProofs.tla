------------------------- MODULE PolicyPluginProofs -------------------------
(***************************************************************************)
(* Proofs about PolicyPlugin for any number of calls, both failure modes   *)
(* and any faults: type correctness, the process a call talks to, verdicts, *)
(* scripts, the step between what is written to a plugin and what is read  *)
(* from it, and that the policy implements PolicyService.                  *)
(***************************************************************************)
EXTENDS PolicyPlugin, TLAPS

-----------------------------------------------------------------------------
(* Type correctness. *)

\* Where a call can be, and where it is while it holds the mutex.
Places == {"idle", "lock", "reload", "start", "exec", "giveup", "write", "blocked", "read",
           "done", "panic"}
Busy   == {"reload", "start", "exec", "giveup", "write", "blocked", "read"}

\* Nothing is in an empty pipe, and it takes one value at its end.
LEMMA EmptyPipe ==
  ASSUME NEW S
  PROVE  /\ <<>> \in Seq(S)
         /\ \A s \in Seq(S) : s # <<>> => Head(s) \in S /\ Tail(s) \in Seq(S)
         /\ \A s \in Seq(S), e \in S : Append(s, e) \in Seq(S)
  OBVIOUS

LEMMA TypeInit == Init => TypeOK
<1>. SUFFICES ASSUME Init PROVE TypeOK
  OBVIOUS
<1>1. inbox \in Seq(Calls) /\ outbox \in Seq(Line)
  BY EmptyPipe DEF Init
<1>2. /\ verdict \in [Calls -> Verdicts \cup {"none"}]
      /\ judge \in [Calls -> Nat] /\ since \in [Calls -> Nat]
      /\ attempt \in [Calls -> 0 .. 2] /\ pc \in [Calls -> Places]
  BY DEF Init, Places
<1>. QED BY <1>1, <1>2 DEF Init, TypeOK, Places

\* Returning keeps the types of what it changes, whatever the verdict.
LEMMA ReturnType ==
  ASSUME TypeOK, NEW c \in Calls, NEW v \in Verdicts, NEW by \in Nat, Return(c, v, by)
  PROVE  /\ pc' \in [Calls -> Places] /\ mutex' \in Calls \cup {Free}
         /\ verdict' \in [Calls -> Verdicts \cup {"none"}] /\ judge' \in [Calls -> Nat]
  BY DEF TypeOK, Return, Places

\* So does failing.
LEMMA FailType ==
  ASSUME TypeOK, NEW c \in Calls, Fail(c)
  PROVE  /\ pc' \in [Calls -> Places] /\ mutex' \in Calls \cup {Free}
         /\ verdict' \in [Calls -> Verdicts \cup {"none"}] /\ judge' \in [Calls -> Nat]
<1>1. FailureVerdict \in Verdicts /\ 0 \in Nat
  BY DEF FailureVerdict, Verdicts
<1>. QED BY <1>1, ReturnType DEF Fail

\* And so does stopping the plugin.
LEMMA StopType ==
  ASSUME TypeOK, Stop
  PROVE  /\ plugin' \in {"none", "up", "down"} /\ version' \in Nat
         /\ inbox' \in Seq(Calls) /\ outbox' \in Seq(Line) /\ broken' \in BOOLEAN
  BY EmptyPipe DEF TypeOK, Stop

\* A line of the plugin goes to the end of its output.
LEMMA SayType ==
  ASSUME TypeOK, NEW c \in Calls \cup {NoCall}, NEW a \in Actions, Say(c, a)
  PROVE  outbox' \in Seq(Line) /\ said' \subseteq Calls \X Verdicts
  BY DEF TypeOK, Say, Line

\* A call that is at work holds the mutex.
MutexInv == \A c \in Calls : pc[c] \in Busy => mutex = c

\* A call has failed to write less than twice when it writes, and once it has
\* failed there is no process until it has started one.
AttemptInv ==
    \A c \in Calls :
        /\ pc[c] \in {"idle", "lock", "reload"} => attempt[c] = 0
        /\ pc[c] \in {"write", "blocked"} => attempt[c] < 2
        /\ pc[c] = "start" /\ attempt[c] > 0 => plugin = "none"

\* Every step keeps the types.
LEMMA TypeStep == TypeOK /\ AttemptInv /\ [Next]_vars => TypeOK'
<1>. SUFFICES ASSUME TypeOK, AttemptInv, [Next]_vars PROVE TypeOK'
  OBVIOUS
<1>. USE PolicyAssumption DEF process, results
<1>1. ASSUME NEW c \in Calls, Arrive(c) \/ WriteBlocks(c) \/ Ready(c) PROVE TypeOK'
  <2>1. PICK place \in Places : pc' = [pc EXCEPT ![c] = place]
    BY <1>1 DEF Arrive, WriteBlocks, Ready, Goto, Places
  <2>2. pc' \in [Calls -> Places]
    BY <2>1 DEF TypeOK, Places
  <2>. QED BY <1>1, <2>2 DEF TypeOK, Arrive, WriteBlocks, Ready, Places
<1>16. ASSUME NEW c \in Calls, Acquire(c) PROVE TypeOK'
  BY <1>16 DEF TypeOK, Acquire, Goto
<1>17. ASSUME NEW c \in Calls, Stat(c) PROVE TypeOK'
  BY <1>17 DEF TypeOK, Stat, Goto
<1>2. ASSUME NEW c \in Calls, Reload(c) PROVE TypeOK'
  <2>1. CASE Stop /\ modTime' = script
    BY <1>2, <2>1, StopType DEF TypeOK, Reload, Goto
  <2>2. CASE UNCHANGED process
    BY <1>2, <2>2 DEF TypeOK, Reload, Goto
  <2>. QED BY <1>2, <2>1, <2>2 DEF Reload
<1>3. ASSUME NEW c \in Calls, ReloadFail(c) \/ StartFail(c) PROVE TypeOK'
  <2>1. Fail(c) /\ UNCHANGED <<script, process, late, attempt, since, said>>
    BY <1>3 DEF ReloadFail, StartFail
  <2>. QED BY <2>1, FailType DEF TypeOK, Places
<1>4. ASSUME NEW c \in Calls, Exec(c) PROVE TypeOK'
  BY <1>4 DEF TypeOK, Exec, Goto
<1>5. ASSUME NEW c \in Calls, GiveUp(c) \/ ReadEof(c) PROVE TypeOK'
  <2>1. Stop /\ Fail(c) /\ UNCHANGED <<script, modTime, late, attempt, since, said>>
    BY <1>5 DEF GiveUp, ReadEof
  <2>. QED BY <2>1, StopType, FailType DEF TypeOK, Places
<1>6. ASSUME NEW c \in Calls, Write(c) \/ TakeBlocked(c) PROVE TypeOK'
  <2>1. inbox' \in Seq(Calls)
    <3>1. inbox \in Seq(Calls) /\ inbox' = Append(inbox, c)
      BY <1>6 DEF TypeOK, Write, TakeBlocked
    <3>. QED BY <3>1, EmptyPipe
  <2>2. pc' = [pc EXCEPT ![c] = "read"]
    BY <1>6 DEF Write, TakeBlocked, Goto
  <2>3. UNCHANGED <<script, plugin, version, modTime, outbox, broken, late, mutex, attempt,
                    results, since, said>>
    BY <1>6 DEF Write, TakeBlocked
  <2>. QED BY <2>1, <2>2, <2>3 DEF TypeOK
<1>7. ASSUME NEW c \in Calls, WriteFail(c) PROVE TypeOK'
  <2>1. attempt[c] + 1 \in 0 .. 2
    <3>1. attempt[c] \in 0 .. 2 /\ attempt[c] < 2
      BY <1>7 DEF TypeOK, AttemptInv, WriteFail
    <3>. QED BY <3>1
  <2>. QED BY <1>7, <2>1, StopType DEF TypeOK, WriteFail, Goto
<1>8. ASSUME NEW c \in Calls, Read(c) PROVE TypeOK'
  <2>1. Head(outbox) \in Line /\ Tail(outbox) \in Seq(Line)
    BY <1>8 DEF TypeOK, Read
  <2>2. CASE Stop /\ Fail(c)
    BY <1>8, <2>2, StopType, FailType DEF TypeOK, Read, Places
  <2>3. CASE /\ outbox' = Tail(outbox)
             /\ IF IsAnswer(c, Head(outbox)) THEN Return(c, Head(outbox).action, version)
                ELSE Fail(c)
             /\ UNCHANGED <<plugin, version, inbox, broken>>
    <3>1. /\ pc' \in [Calls -> Places] /\ mutex' \in Calls \cup {Free}
          /\ verdict' \in [Calls -> Verdicts \cup {"none"}] /\ judge' \in [Calls -> Nat]
      <4>1. CASE IsAnswer(c, Head(outbox))
        <5>1. Head(outbox).action \in Verdicts /\ version \in Nat
          BY <4>1 DEF IsAnswer, TypeOK
        <5>. QED BY <2>3, <4>1, <5>1, ReturnType
      <4>2. CASE ~IsAnswer(c, Head(outbox))
        BY <2>3, <4>2, FailType
      <4>. QED BY <4>1, <4>2
    <3>. QED BY <1>8, <2>1, <2>3, <3>1 DEF TypeOK, Read, Places
  <2>. QED BY <1>8, <2>2, <2>3 DEF Read
<1>9. ASSUME NEW c \in Calls, Timeout(c) PROVE TypeOK'
  <2>1. late' \in Nat
    BY <1>9 DEF TypeOK, Timeout
  <2>. QED BY <1>9, <2>1, StopType, FailType DEF TypeOK, Timeout, Places
<1>10. CASE LateRead
  <2>1. outbox' \in Seq(Line)
    <3>1. /\ outbox \in Seq(Line)
          /\ outbox' = outbox \/ (outbox # <<>> /\ outbox' = Tail(outbox))
      BY <1>10 DEF TypeOK, LateRead
    <3>. QED BY <3>1, EmptyPipe
  <2>2. pc' \in [Calls -> Places]
    BY <1>10 DEF TypeOK, LateRead, Places
  <2>3. late' \in Nat
    BY <1>10 DEF TypeOK, LateRead
  <2>. QED BY <1>10, <2>1, <2>2, <2>3 DEF TypeOK, LateRead, Places
<1>11. CASE Close
  BY <1>11, StopType DEF TypeOK, Close
<1>12. CASE Answer
  <2>1. Head(inbox) \in Calls /\ Tail(inbox) \in Seq(Calls)
    BY <1>12 DEF TypeOK, Answer
  <2>2. PICK a \in Actions : Say(Head(inbox), a)
    BY <1>12 DEF Answer, Actions
  <2>3. outbox' \in Seq(Line) /\ said' \subseteq Calls \X Verdicts
    BY <2>1, <2>2, SayType
  <2>. QED BY <1>12, <2>1, <2>3 DEF TypeOK, Answer
<1>13. CASE Chatter
  <2>1. PICK c \in Calls \cup {NoCall}, a \in Actions : Say(c, a)
    BY <1>13 DEF Chatter, Actions
  <2>2. outbox' \in Seq(Line) /\ said' \subseteq Calls \X Verdicts
    BY <2>1, SayType
  <2>. QED BY <1>13, <2>2 DEF TypeOK, Chatter
<1>14. CASE Exit \/ ChangeScript
  BY <1>14 DEF TypeOK, Exit, ChangeScript
<1>18. CASE WaitCloses
  BY <1>18, EmptyPipe DEF TypeOK, WaitCloses
<1>15. CASE UNCHANGED vars
  BY <1>15 DEF TypeOK, vars
<1>. QED
  BY <1>1, <1>2, <1>3, <1>4, <1>5, <1>6, <1>7, <1>8, <1>9, <1>10, <1>11, <1>12, <1>13,
     <1>14, <1>15, <1>16, <1>17, <1>18
     DEF Next, CallStep


\* Only the holder of the mutex works, and it works until it releases the mutex.
LEMMA MutexStep == TypeOK /\ MutexInv /\ [Next]_vars => MutexInv'
<1>. SUFFICES ASSUME TypeOK, MutexInv, [Next]_vars PROVE MutexInv'
  OBVIOUS
<1>. USE PolicyAssumption DEF process, results
<1>0. pc \in [Calls -> Places] /\ mutex \in Calls \cup {Free}
  BY DEF TypeOK, Places
<1>1. CASE UNCHANGED <<pc, mutex>>
  BY <1>1 DEF MutexInv
<1>2. ASSUME NEW c \in Calls, mutex = c, mutex' = mutex,
             NEW place \in Places, pc' = [pc EXCEPT ![c] = place]
      PROVE  MutexInv'
  BY <1>0, <1>2 DEF MutexInv
<1>3. ASSUME NEW c \in Calls, mutex = c, mutex' = Free, pc' = [pc EXCEPT ![c] = "done"]
      PROVE  MutexInv'
  BY <1>0, <1>3 DEF MutexInv, Busy
<1>4. ASSUME NEW c \in Calls, Arrive(c) PROVE MutexInv'
  BY <1>0, <1>4 DEF MutexInv, Arrive, Goto, Busy
<1>5. ASSUME NEW c \in Calls, Acquire(c) PROVE MutexInv'
  BY <1>0, <1>5 DEF MutexInv, Acquire, Goto, Busy
<1>6. ASSUME NEW c \in Calls, CallStep(c) \/ WriteBlocks(c) \/ TakeBlocked(c)
      PROVE  MutexInv'
  <2>1. mutex = c
    BY <1>6 DEF MutexInv, Busy, CallStep, Reload, ReloadFail, Ready, Stat, Exec, StartFail,
                GiveUp, Write, WriteFail, Read, ReadEof, Timeout, WriteBlocks, TakeBlocked
  <2>2. CASE \/ Reload(c) \/ Ready(c) \/ Stat(c) \/ Exec(c) \/ Write(c) \/ WriteFail(c)
             \/ WriteBlocks(c) \/ TakeBlocked(c)
    <3>1. mutex' = mutex /\ \E place \in Places : pc' = [pc EXCEPT ![c] = place]
      BY <2>2 DEF Reload, Ready, Stat, Exec, Write, WriteFail, WriteBlocks, TakeBlocked, Goto,
                  Places
    <3>. QED BY <1>2, <2>1, <3>1
  <2>3. CASE \/ ReloadFail(c) \/ StartFail(c) \/ GiveUp(c) \/ Read(c) \/ ReadEof(c)
             \/ Timeout(c)
    <3>1. mutex' = Free /\ pc' = [pc EXCEPT ![c] = "done"]
      BY <2>3 DEF ReloadFail, StartFail, GiveUp, Read, ReadEof, Timeout, Fail, Return
    <3>. QED BY <1>3, <2>1, <3>1
  <2>. QED BY <1>6, <2>2, <2>3 DEF CallStep
<1>7. CASE LateRead
  BY <1>0, <1>7 DEF MutexInv, LateRead, Busy
<1>8. CASE Close \/ Answer \/ Chatter \/ Exit \/ WaitCloses \/ ChangeScript
  BY <1>1, <1>8 DEF Close, Answer, Chatter, Exit, WaitCloses, ChangeScript
<1>. QED BY <1>1, <1>4, <1>5, <1>6, <1>7, <1>8 DEF Next, vars

LEMMA AttemptStep == TypeOK /\ MutexInv /\ AttemptInv /\ [Next]_vars => AttemptInv'
<1>. SUFFICES ASSUME TypeOK, MutexInv, AttemptInv, [Next]_vars PROVE AttemptInv'
  OBVIOUS
<1>. USE DEF process, results
<1>0. pc \in [Calls -> Places] /\ attempt \in [Calls -> 0 .. 2]
  BY DEF TypeOK, Places
<1>1. CASE UNCHANGED <<pc, attempt, plugin>>
  BY <1>1 DEF AttemptInv
<1>2. ASSUME NEW c \in Calls, NEW place \in {"lock", "reload", "start", "write", "blocked",
                                             "exec", "read", "done"},
             pc' = [pc EXCEPT ![c] = place], attempt' = attempt,
             plugin' \in {plugin, "none"},
             place \in {"lock", "reload"} => attempt[c] = 0,
             place \in {"write", "blocked"} => attempt[c] < 2,
             place = "start" => attempt[c] = 0
      PROVE  AttemptInv'
  BY <1>0, <1>2 DEF AttemptInv
<1>3. ASSUME NEW c \in Calls, Arrive(c) PROVE AttemptInv'
  BY <1>0, <1>2, <1>3 DEF AttemptInv, Arrive, Goto
<1>4. ASSUME NEW c \in Calls, Acquire(c) PROVE AttemptInv'
  BY <1>0, <1>2, <1>4 DEF AttemptInv, Acquire, Goto
<1>5. ASSUME NEW c \in Calls, Reload(c) PROVE AttemptInv'
  BY <1>0, <1>2, <1>5 DEF AttemptInv, Reload, Stop, Goto
<1>6. ASSUME NEW c \in Calls, Ready(c) PROVE AttemptInv'
  <2>1. attempt[c] \in 0 .. 2 /\ ~(attempt[c] > 0)
    BY <1>0, <1>6 DEF AttemptInv, Ready
  <2>2. attempt[c] < 2
    BY <2>1
  <2>. QED BY <1>2, <1>6, <2>2 DEF Ready, Goto
<1>7. ASSUME NEW c \in Calls, Stat(c) \/ Write(c) \/ TakeBlocked(c) PROVE AttemptInv'
  BY <1>0, <1>2, <1>7 DEF Stat, Write, TakeBlocked, Goto
<1>8. ASSUME NEW c \in Calls, WriteBlocks(c) PROVE AttemptInv'
  BY <1>0, <1>2, <1>8 DEF AttemptInv, WriteBlocks, Goto
<1>9. ASSUME NEW c \in Calls, Exec(c) PROVE AttemptInv'
  <2>1. \A d \in Calls : d # c => pc[d] # "start"
    BY <1>9 DEF MutexInv, Exec, Busy
  <2>2. /\ attempt' = attempt
        /\ \/ pc' = [pc EXCEPT ![c] = "write"] /\ attempt[c] < 2
           \/ pc' = [pc EXCEPT ![c] = "giveup"]
    BY <1>9 DEF Exec, Goto, MaxAttempts
  <2>. QED BY <1>0, <2>1, <2>2 DEF AttemptInv
<1>10. ASSUME NEW c \in Calls, WriteFail(c) PROVE AttemptInv'
  <2>1. /\ plugin' = "none" /\ pc' = [pc EXCEPT ![c] = "start"]
        /\ attempt' = [attempt EXCEPT ![c] = attempt[c] + 1]
    BY <1>10 DEF WriteFail, Stop, Goto
  <2>. QED BY <1>0, <2>1 DEF AttemptInv
<1>11. ASSUME NEW c \in Calls,
              \/ ReloadFail(c) \/ StartFail(c) \/ GiveUp(c) \/ Read(c) \/ ReadEof(c)
              \/ Timeout(c)
       PROVE  AttemptInv'
  <2>1. pc' = [pc EXCEPT ![c] = "done"] /\ attempt' = attempt /\ plugin' \in {plugin, "none"}
    BY <1>11 DEF ReloadFail, StartFail, GiveUp, Read, ReadEof, Timeout, Fail, Return, Stop
  <2>. QED BY <1>2, <2>1
<1>12. CASE LateRead
  BY <1>0, <1>12 DEF AttemptInv, LateRead
<1>13. CASE Close
  BY <1>13 DEF AttemptInv, Close, Stop
<1>14. CASE Exit
  BY <1>14 DEF AttemptInv, Exit
<1>15. CASE Answer \/ Chatter \/ WaitCloses \/ ChangeScript
  BY <1>1, <1>15 DEF Answer, Chatter, WaitCloses, ChangeScript
<1>. QED
  BY <1>1, <1>3, <1>4, <1>5, <1>6, <1>7, <1>8, <1>9, <1>10, <1>11, <1>12, <1>13, <1>14, <1>15
     DEF Next, CallStep, vars

\* The invariant behind the types holds in every state.
LEMMA Basics == Spec => [](TypeOK /\ MutexInv /\ AttemptInv)
<1>1. Init => TypeOK /\ MutexInv /\ AttemptInv
  <2>1. Init => MutexInv /\ AttemptInv
    BY DEF Init, MutexInv, AttemptInv, Busy
  <2>. QED BY <2>1, TypeInit
<1>2. TypeOK /\ MutexInv /\ AttemptInv /\ [Next]_vars => (TypeOK /\ MutexInv /\ AttemptInv)'
  BY TypeStep, MutexStep, AttemptStep
<1>. QED BY <1>1, <1>2, PTL DEF Spec

\* Every variable keeps its type, and no request writes more than twice (plugin.go).
THEOREM TypeCorrect == Spec => []TypeOK
  BY Basics, PTL

-----------------------------------------------------------------------------
(* The process a call talks to. *)

\* Where a call uses the pipes.
Talking == {"write", "blocked", "read"}

\* A call writes to a process and reads from one, in every attempt: until it is
\* done, neither another call nor Close takes away the pipes it uses, of which a
\* late answer, a crash or a reload may leave none (requestLocked,
\* ensureStartedLocked, readLineWithTimeoutLocked).
HasProcess == \A c \in Calls : pc[c] \in {"write", "blocked", "read"} => plugin # "none"

\* Every step keeps the process of those who use it: whoever stops it holds the
\* mutex, so nobody else uses it, and goes where it is not used.
LEMMA ProcessStep == TypeOK /\ MutexInv /\ HasProcess /\ [Next]_vars => HasProcess'
<1>. SUFFICES ASSUME TypeOK, MutexInv, HasProcess, [Next]_vars PROVE HasProcess'
  OBVIOUS
<1>. USE DEF process, results
<1>0. pc \in [Calls -> Places] /\ \A c \in Calls : pc[c] \in Talking => mutex = c
  BY DEF TypeOK, Places, MutexInv, Busy, Talking
<1>1. ASSUME UNCHANGED pc, plugin' = plugin \/ plugin' # "none" PROVE HasProcess'
  BY <1>1 DEF HasProcess
<1>2. ASSUME NEW c \in Calls, NEW place \in Places, pc' = [pc EXCEPT ![c] = place],
             place \in Talking => plugin' # "none",
             mutex = c \/ plugin' = plugin
      PROVE  HasProcess'
  <2>1. SUFFICES ASSUME NEW d \in Calls, pc'[d] \in Talking PROVE plugin' # "none"
    BY DEF HasProcess, Talking
  <2>2. CASE d = c
    <3>1. pc'[d] = place
      BY <1>0, <1>2, <2>2
    <3>. QED BY <1>2, <2>1, <3>1
  <2>3. CASE d # c
    <3>1. pc'[d] = pc[d]
      BY <1>0, <1>2, <2>3
    <3>2. pc[d] \in Talking
      BY <2>1, <3>1
    <3>3. mutex = d
      BY <1>0, <3>2
    <3>4. plugin' = plugin
      BY <1>2, <2>3, <3>3
    <3>. QED BY <3>2, <3>4 DEF HasProcess, Talking
  <2>. QED BY <2>2, <2>3
<1>3. ASSUME NEW c \in Calls, Arrive(c) \/ Acquire(c) PROVE HasProcess'
  <2>1. plugin' = plugin /\ \E place \in Places \ Talking : pc' = [pc EXCEPT ![c] = place]
    BY <1>3 DEF Arrive, Acquire, Goto, Places, Talking
  <2>. QED BY <1>2, <2>1
<1>4. ASSUME NEW c \in Calls, CallStep(c) \/ WriteBlocks(c) \/ TakeBlocked(c)
      PROVE  HasProcess'
  <2>1. mutex = c
    BY <1>4 DEF MutexInv, Busy, CallStep, Reload, ReloadFail, Ready, Stat, Exec, StartFail,
                GiveUp, Write, WriteFail, Read, ReadEof, Timeout, WriteBlocks, TakeBlocked
  <2>2. CASE Ready(c) \/ Exec(c) \/ Write(c) \/ WriteBlocks(c) \/ TakeBlocked(c)
    <3>1. plugin' # "none" /\ \E place \in Places : pc' = [pc EXCEPT ![c] = place]
      BY <2>2 DEF Ready, Exec, Write, WriteBlocks, TakeBlocked, Goto, Places
    <3>. QED BY <1>2, <2>1, <3>1
  <2>3. CASE Reload(c) \/ Stat(c) \/ WriteFail(c)
    <3>1. \E place \in Places \ Talking : pc' = [pc EXCEPT ![c] = place]
      BY <2>3 DEF Reload, Stat, WriteFail, Goto, Places, Talking
    <3>. QED BY <1>2, <2>1, <3>1
  <2>4. CASE \/ ReloadFail(c) \/ StartFail(c) \/ GiveUp(c) \/ Read(c) \/ ReadEof(c)
             \/ Timeout(c)
    <3>1. pc' = [pc EXCEPT ![c] = "done"]
      BY <2>4 DEF ReloadFail, StartFail, GiveUp, Read, ReadEof, Timeout, Fail, Return
    <3>2. "done" \in Places \ Talking
      BY DEF Places, Talking
    <3>. QED BY <1>2, <2>1, <3>1, <3>2
  <2>. QED BY <1>4, <2>2, <2>3, <2>4 DEF CallStep
<1>5. CASE LateRead
  <2>1. CASE pc' = [c \in Calls |-> "panic"]
    BY <2>1 DEF HasProcess
  <2>2. CASE UNCHANGED <<pc, plugin>>
    BY <1>1, <2>2
  <2>. QED BY <1>5, <2>1, <2>2 DEF LateRead
<1>6. CASE Close
  <2>1. \A c \in Calls : pc[c] \notin Talking
    BY <1>0, <1>6, PolicyAssumption DEF Close
  <2>. QED BY <1>6, <2>1 DEF Close, HasProcess, Talking
<1>7. CASE Answer \/ Chatter \/ Exit \/ WaitCloses \/ ChangeScript
  BY <1>1, <1>7 DEF Answer, Chatter, Exit, WaitCloses, ChangeScript
<1>8. CASE UNCHANGED vars
  BY <1>1, <1>8 DEF vars
<1>. QED BY <1>3, <1>4, <1>5, <1>6, <1>7, <1>8 DEF Next

\* Any number of calls, reloads, crashes and late answers: no call writes to or
\* reads from a process that is not there (requestLocked, ensureStartedLocked).
THEOREM ProcessIsThere == Spec => []HasProcess
<1>1. Init => HasProcess
  BY DEF Init, HasProcess
<1>. QED BY <1>1, ProcessStep, Basics, PTL DEF Spec

-----------------------------------------------------------------------------
(* Verdicts. *)

\* What is in the plugin's output was said, and so was what was returned.
SaidInv ==
    /\ \A i \in DOMAIN outbox :
          outbox[i].id \in Calls /\ outbox[i].action \in Verdicts =>
              <<outbox[i].id, outbox[i].action>> \in said
    /\ VerdictIsOwn

\* A call that fails returns the verdict of the failure mode.
LEMMA FailVerdict ==
  ASSUME TypeOK, SaidInv, NEW c \in Calls, Fail(c), said \subseteq said'
  PROVE  VerdictIsOwn'
  BY DEF TypeOK, SaidInv, VerdictIsOwn, Fail, Return, FailureVerdict

\* Stopping the plugin empties its output.
LEMMA StopSaid ==
  ASSUME Stop
  PROVE  \A i \in DOMAIN outbox' : FALSE
  BY DEF Stop

\* The lines that are left after one was read were there before.
LEMMA TailSaid ==
  ASSUME TypeOK, SaidInv, outbox # <<>>, outbox' = Tail(outbox), said' = said
  PROVE  \A i \in DOMAIN outbox' :
            outbox'[i].id \in Calls /\ outbox'[i].action \in Verdicts =>
                <<outbox'[i].id, outbox'[i].action>> \in said'
<1>1. outbox \in Seq(Line)
  BY DEF TypeOK
<1>2. ASSUME NEW i \in DOMAIN outbox'
      PROVE  i + 1 \in DOMAIN outbox /\ outbox'[i] = outbox[i + 1]
  BY <1>1, <1>2
<1>. QED BY <1>2 DEF SaidInv

\* What the plugin says is remembered.
LEMMA SaySaid ==
  ASSUME TypeOK, SaidInv, NEW c \in Calls \cup {NoCall}, NEW a \in Actions, Say(c, a)
  PROVE  /\ said \subseteq said'
         /\ \A i \in DOMAIN outbox' :
               outbox'[i].id \in Calls /\ outbox'[i].action \in Verdicts =>
                   <<outbox'[i].id, outbox'[i].action>> \in said'
<1>1. outbox \in Seq(Line) /\ [id |-> c, action |-> a] \in Line
  BY DEF TypeOK, Line
<1>2. outbox' = Append(outbox, [id |-> c, action |-> a]) /\ said \subseteq said'
  BY DEF Say
<1>3. ASSUME NEW i \in DOMAIN outbox'
      PROVE  \/ i \in DOMAIN outbox /\ outbox'[i] = outbox[i]
             \/ outbox'[i] = [id |-> c, action |-> a]
  BY <1>1, <1>2, <1>3
<1>4. c \in Calls /\ a \in Verdicts => <<c, a>> \in said'
  BY DEF Say
<1>. QED BY <1>2, <1>3, <1>4 DEF SaidInv

LEMMA SaidStep == TypeOK /\ SaidInv /\ [Next]_vars => SaidInv'
<1>. SUFFICES ASSUME TypeOK, SaidInv, [Next]_vars PROVE SaidInv'
  OBVIOUS
<1>. USE DEF process, results
<1>1. CASE UNCHANGED <<outbox, said, verdict>>
  BY <1>1 DEF SaidInv, VerdictIsOwn
<1>2. CASE Stop /\ UNCHANGED <<said, verdict>>
  BY <1>2, StopSaid DEF SaidInv, VerdictIsOwn
<1>3. ASSUME NEW c \in Calls, Stop, Fail(c), said' = said PROVE SaidInv'
  BY <1>3, StopSaid, FailVerdict DEF SaidInv
<1>4. ASSUME NEW c \in Calls, ReloadFail(c) \/ StartFail(c) PROVE SaidInv'
  <2>1. Fail(c) /\ UNCHANGED <<outbox, said>>
    BY <1>4 DEF ReloadFail, StartFail
  <2>. QED BY <2>1, FailVerdict DEF SaidInv
<1>5. ASSUME NEW c \in Calls, Reload(c) \/ WriteFail(c) PROVE SaidInv'
  BY <1>1, <1>2, <1>5 DEF Reload, WriteFail
<1>6. ASSUME NEW c \in Calls, GiveUp(c) \/ ReadEof(c) \/ Timeout(c) PROVE SaidInv'
  BY <1>3, <1>6 DEF GiveUp, ReadEof, Timeout
<1>7. ASSUME NEW c \in Calls, Read(c) PROVE SaidInv'
  <2>1. CASE Stop /\ Fail(c)
    BY <1>3, <1>7, <2>1 DEF Read
  <2>2. CASE outbox' = Tail(outbox) /\ Fail(c)
    BY <1>7, <2>2, TailSaid, FailVerdict DEF Read, SaidInv
  <2>3. CASE /\ outbox' = Tail(outbox) /\ IsAnswer(c, Head(outbox))
             /\ Return(c, Head(outbox).action, version)
    <3>1. outbox # <<>> /\ said' = said
      BY <1>7 DEF Read
    <3>2. 1 \in DOMAIN outbox /\ Head(outbox) = outbox[1]
      BY <3>1 DEF TypeOK
    <3>3. <<c, Head(outbox).action>> \in said
      BY <2>3, <3>2 DEF SaidInv, IsAnswer
    <3>4. VerdictIsOwn'
      BY <2>3, <3>1, <3>3 DEF Return, SaidInv, VerdictIsOwn, TypeOK, FailureVerdict
    <3>. QED BY <2>3, <3>1, <3>4, TailSaid DEF SaidInv
  <2>. QED BY <1>7, <2>1, <2>2, <2>3 DEF Read
<1>8. CASE LateRead
  <2>1. UNCHANGED <<said, verdict>>
    BY <1>8 DEF LateRead
  <2>2. outbox' = outbox \/ (outbox # <<>> /\ outbox' = Tail(outbox))
    BY <1>8 DEF LateRead
  <2>. QED BY <1>1, <2>1, <2>2, TailSaid DEF SaidInv, VerdictIsOwn
<1>9. CASE Answer
  <2>1. Head(inbox) \in Calls
    BY <1>9, EmptyPipe DEF Answer, TypeOK
  <2>2. verdict' = verdict /\ \E a \in Actions : Say(Head(inbox), a)
    BY <1>9 DEF Answer, Actions
  <2>. QED BY <2>1, <2>2, SaySaid DEF SaidInv, VerdictIsOwn, FailureVerdict
<1>10. CASE Chatter
  <2>1. verdict' = verdict /\ \E c \in Calls \cup {NoCall}, a \in Actions : Say(c, a)
    BY <1>10 DEF Chatter, Actions
  <2>. QED BY <2>1, SaySaid DEF SaidInv, VerdictIsOwn, FailureVerdict
<1>11. CASE WaitCloses
  BY <1>11 DEF WaitCloses, SaidInv, VerdictIsOwn, FailureVerdict
<1>12. CASE Close
  BY <1>2, <1>12 DEF Close
<1>13. ASSUME NEW c \in Calls,
              \/ Arrive(c) \/ Acquire(c) \/ Ready(c) \/ Stat(c) \/ Exec(c) \/ Write(c)
              \/ WriteBlocks(c) \/ TakeBlocked(c)
       PROVE  UNCHANGED <<outbox, said, verdict>>
  BY <1>13 DEF Arrive, Acquire, Ready, Stat, Exec, Write, WriteBlocks, TakeBlocked
<1>14. CASE Exit \/ ChangeScript
  BY <1>1, <1>14 DEF Exit, ChangeScript
<1>. QED
  BY <1>1, <1>4, <1>5, <1>6, <1>7, <1>8, <1>9, <1>10, <1>11, <1>12, <1>13, <1>14
     DEF Next, CallStep, vars

\* A request is judged by what a plugin said of that very request, or else by
\* the configured failure mode (EvaluateRequest).
THEOREM VerdictsAreOwn == Spec => []VerdictIsOwn
<1>1. Init => SaidInv
  BY DEF Init, SaidInv, VerdictIsOwn
<1>2. SaidInv => VerdictIsOwn
  BY DEF SaidInv
<1>. QED BY <1>1, <1>2, TypeCorrect, SaidStep, PTL DEF Spec

-----------------------------------------------------------------------------
(* Scripts. *)

\* Where a call is once it has looked whether the script has changed.
Checked == {"start", "exec", "giveup", "write", "blocked", "read"}

\* A process was started from a script at least as new as p.scriptModTime, which
\* is no newer than the script, and a call that has compared the two uses a
\* process at least as new as the script was at its turn.  A call whose turn has
\* not come is not judged, and there is nothing to read without a process.
ScriptInv ==
    /\ modTime <= script
    /\ IsScript /\ plugin # "none" => modTime <= version
    /\ \A c \in Calls : since[c] <= script
    /\ IsScript /\ plugin # "none" =>
          \A c \in Calls : pc[c] \in Checked => since[c] <= version
    /\ \A c \in Calls : pc[c] \in {"idle", "lock"} => judge[c] = 0
    /\ plugin = "none" => outbox = <<>>
    /\ ScriptIsCurrent

LEMMA ScriptStep == TypeOK /\ ScriptInv /\ [Next]_vars => ScriptInv'
<1>. SUFFICES ASSUME TypeOK, ScriptInv, [Next]_vars PROVE ScriptInv'
  OBVIOUS
<1>. USE DEF process, results
<1>0. /\ pc \in [Calls -> Places] /\ since \in [Calls -> Nat] /\ judge \in [Calls -> Nat]
      /\ script \in Nat /\ version \in Nat /\ modTime \in Nat
  BY DEF TypeOK, Places
\* Most steps leave the process and the script alone, or stop the process, and
\* bring no call to where it needs a process that is new enough.
<1>1. ASSUME UNCHANGED <<script, modTime, version, since, judge>>,
             plugin' \in {plugin, "none"} \/ plugin # "none",
             plugin' = "none" => outbox' = <<>>,
             \A c \in Calls :
                /\ pc'[c] \in Checked => pc[c] \in Checked
                /\ pc'[c] \in {"idle", "lock"} => pc[c] \in {"idle", "lock"}
      PROVE  ScriptInv'
  BY <1>1 DEF ScriptInv, ScriptIsCurrent
<1>2. ASSUME NEW c \in Calls, Fail(c), UNCHANGED <<script, modTime, version, since>>,
             plugin' \in {plugin, "none"}, plugin' = "none" => outbox' = <<>>
      PROVE  ScriptInv'
  <2>1. judge' = [judge EXCEPT ![c] = 0] /\ pc' = [pc EXCEPT ![c] = "done"]
    BY <1>2 DEF Fail, Return
  <2>2. ScriptIsCurrent'
    BY <1>0, <1>2, <2>1 DEF ScriptInv, ScriptIsCurrent
  <2>3. \A d \in Calls :
           /\ pc'[d] \in Checked => pc[d] \in Checked
           /\ pc'[d] \in {"idle", "lock"} => pc[d] \in {"idle", "lock"} /\ judge'[d] = judge[d]
    BY <1>0, <2>1 DEF Checked
  <2>. QED BY <1>2, <2>2, <2>3 DEF ScriptInv
<1>3. ASSUME NEW c \in Calls,
             \/ Arrive(c) \/ Ready(c) \/ Write(c) \/ WriteBlocks(c) \/ TakeBlocked(c)
             \/ WriteFail(c)
      PROVE  ScriptInv'
  <2>1. /\ UNCHANGED <<script, modTime, version, since, judge>>
        /\ \/ plugin' = plugin /\ outbox' = outbox
           \/ plugin' = "none" /\ outbox' = <<>>
    BY <1>3 DEF Arrive, Ready, Write, WriteBlocks, TakeBlocked, WriteFail, Stop
  <2>2. \/ pc[c] = "idle" /\ pc' = [pc EXCEPT ![c] = "lock"]
        \/ pc[c] \in Checked /\ \E place \in Checked : pc' = [pc EXCEPT ![c] = place]
    BY <1>3 DEF Arrive, Ready, Write, WriteBlocks, TakeBlocked, WriteFail, Goto, Checked
  <2>3. \A d \in Calls :
           /\ pc'[d] \in Checked => pc[d] \in Checked
           /\ pc'[d] \in {"idle", "lock"} => pc[d] \in {"idle", "lock"}
    BY <1>0, <2>2 DEF Checked
  <2>4. plugin' = "none" => outbox' = <<>>
    BY <2>1 DEF ScriptInv
  <2>. QED BY <1>1, <2>1, <2>3, <2>4
<1>4. ASSUME NEW c \in Calls, Acquire(c) PROVE ScriptInv'
  <2>1. /\ UNCHANGED <<script, modTime, version, judge, plugin, outbox>>
        /\ pc' = [pc EXCEPT ![c] = "reload"] /\ since' = [since EXCEPT ![c] = script]
        /\ pc[c] = "lock"
    BY <1>4 DEF Acquire, Goto
  <2>2. ScriptIsCurrent'
    BY <1>0, <2>1 DEF ScriptInv, ScriptIsCurrent
  <2>. QED BY <1>0, <2>1, <2>2 DEF ScriptInv, Checked
<1>5. ASSUME NEW c \in Calls, Reload(c) PROVE ScriptInv'
  <2>1. pc' = [pc EXCEPT ![c] = "start"] /\ UNCHANGED <<script, version, since, judge>>
    BY <1>5 DEF Reload, Stop, Goto
  <2>2. CASE plugin' = "none" /\ outbox' = <<>> /\ modTime' = script
    BY <1>0, <2>1, <2>2 DEF ScriptInv, ScriptIsCurrent
  <2>3. CASE ~(Watches /\ script > modTime) /\ UNCHANGED <<plugin, modTime, outbox>>
    <3>1. IsScript /\ plugin # "none" => since[c] <= version
      BY <1>0, <2>3 DEF Watches, ScriptInv
    <3>. QED BY <1>0, <2>1, <2>3, <3>1 DEF ScriptInv, ScriptIsCurrent
  <2>. QED BY <1>5, <2>2, <2>3 DEF Reload, Stop
<1>6. ASSUME NEW c \in Calls, Stat(c) PROVE ScriptInv'
  <2>1. /\ pc[c] = "start" /\ pc' = [pc EXCEPT ![c] = "exec"]
        /\ UNCHANGED <<script, version, since, judge, plugin, outbox>>
        /\ plugin = "none" /\ modTime' \in {modTime, script}
    BY <1>6 DEF Stat, Goto
  <2>. QED BY <1>0, <2>1 DEF ScriptInv, ScriptIsCurrent
<1>7. ASSUME NEW c \in Calls, Exec(c) PROVE ScriptInv'
  <2>1. /\ version' = script /\ plugin' = "up"
        /\ UNCHANGED <<script, modTime, since, judge>>
        /\ pc[c] = "exec" /\ \E place \in Checked : pc' = [pc EXCEPT ![c] = place]
    BY <1>7 DEF Exec, Goto, Checked
  <2>2. \A d \in Calls : pc'[d] \in {"idle", "lock"} => pc[d] \in {"idle", "lock"}
    BY <1>0, <2>1 DEF Checked
  <2>. QED BY <1>0, <2>1, <2>2 DEF ScriptInv, ScriptIsCurrent
<1>8. ASSUME NEW c \in Calls, Read(c) PROVE ScriptInv'
  <2>1. UNCHANGED <<script, modTime, version, since>> /\ plugin # "none" /\ pc[c] = "read"
    BY <1>8 DEF Read, Stop, ScriptInv
  <2>2. CASE Stop /\ Fail(c)
    BY <1>2, <2>1, <2>2 DEF Stop
  <2>3. CASE plugin' = plugin /\ Fail(c)
    BY <1>2, <2>1, <2>3
  <2>4. CASE plugin' = plugin /\ Return(c, Head(outbox).action, version)
    <3>1. judge' = [judge EXCEPT ![c] = version] /\ pc' = [pc EXCEPT ![c] = "done"]
      BY <2>4 DEF Return
    <3>2. IsScript => since[c] <= version
      BY <2>1 DEF ScriptInv, Checked
    <3>3. ScriptIsCurrent'
      BY <1>0, <2>1, <3>1, <3>2 DEF ScriptInv, ScriptIsCurrent
    <3>4. \A d \in Calls :
             /\ pc'[d] \in Checked => pc[d] \in Checked
             /\ pc'[d] \in {"idle", "lock"} =>
                   pc[d] \in {"idle", "lock"} /\ judge'[d] = judge[d]
      BY <1>0, <3>1 DEF Checked
    <3>. QED BY <2>1, <2>4, <3>3, <3>4 DEF ScriptInv
  <2>. QED BY <1>8, <2>2, <2>3, <2>4 DEF Read
<1>9. ASSUME NEW c \in Calls,
             ReloadFail(c) \/ StartFail(c) \/ GiveUp(c) \/ ReadEof(c) \/ Timeout(c)
      PROVE  ScriptInv'
  <2>1. /\ Fail(c) /\ UNCHANGED <<script, modTime, version, since>>
        /\ \/ plugin' = plugin /\ outbox' = outbox
           \/ plugin' = "none" /\ outbox' = <<>>
    BY <1>9 DEF ReloadFail, StartFail, GiveUp, ReadEof, Timeout, Stop
  <2>2. plugin' = "none" => outbox' = <<>>
    BY <2>1 DEF ScriptInv
  <2>. QED BY <1>2, <2>1, <2>2
<1>10. CASE LateRead
  <2>1. /\ UNCHANGED <<script, modTime, version, since, judge, plugin>>
        /\ pc' = pc \/ pc' = [c \in Calls |-> "panic"]
        /\ outbox' = outbox \/ plugin # "none"
    BY <1>10 DEF LateRead
  <2>2. \A d \in Calls :
           /\ pc'[d] \in Checked => pc[d] \in Checked
           /\ pc'[d] \in {"idle", "lock"} => pc[d] \in {"idle", "lock"}
    BY <2>1 DEF Checked
  <2>3. plugin' = "none" => outbox' = <<>>
    BY <2>1 DEF ScriptInv
  <2>. QED BY <1>1, <2>1, <2>2, <2>3
<1>11. CASE Close
  BY <1>1, <1>11 DEF Close, Stop
<1>12. CASE Exit
  BY <1>1, <1>12 DEF Exit
<1>13. CASE Answer \/ Chatter \/ WaitCloses
  BY <1>1, <1>13 DEF Answer, Chatter, WaitCloses
<1>14. CASE ChangeScript
  <2>1. script' = script + 1 /\ UNCHANGED <<modTime, version, since, judge, plugin, pc, outbox>>
    BY <1>14 DEF ChangeScript
  <2>. QED BY <1>0, <2>1 DEF ScriptInv, ScriptIsCurrent
<1>15. CASE UNCHANGED vars
  BY <1>1, <1>15 DEF vars, ScriptInv
<1>. QED
  BY <1>3, <1>4, <1>5, <1>6, <1>7, <1>8, <1>9, <1>10, <1>11, <1>12, <1>13, <1>14, <1>15
     DEF Next, CallStep

\* A request is not judged by a script older than the one that was in place when
\* its turn came (reloadIfChangedLocked, ensureStartedLocked).
THEOREM ScriptsAreCurrent == Spec => []ScriptIsCurrent
<1>1. Init => ScriptInv
  BY DEF Init, ScriptInv, ScriptIsCurrent, Checked
<1>2. ScriptInv => ScriptIsCurrent
  BY DEF ScriptInv
<1>. QED BY <1>1, <1>2, TypeCorrect, ScriptStep, PTL DEF Spec

-----------------------------------------------------------------------------
(* Writes and reads are in step. *)

Empty == inbox = <<>> /\ outbox = <<>>

\* Without a process the pipes are empty.  A process that was never out of step
\* has one line to answer or one answer to be read, and that only while a call is
\* waiting for it.
StepInv ==
    /\ plugin = "none" => Empty
    /\ ~broken => \/ Empty
                  \/ /\ \E c \in Calls : pc[c] = "read"
                     /\ \/ Len(inbox) = 1 /\ outbox = <<>>
                        \/ inbox = <<>> /\ Len(outbox) = 1

\* What is left of a pipe that held one value is nothing.
LEMMA LastTaken ==
  ASSUME NEW S, NEW s \in Seq(S), Len(s) = 1
  PROVE  Tail(s) = <<>>
<1>1. Tail(s) \in Seq(S) /\ Len(Tail(s)) = 0
  OBVIOUS
<1>2. \A t \in Seq(S) : Len(t) = 0 => t = <<>>
  OBVIOUS
<1>. QED BY <1>1, <1>2

\* A value in an empty pipe is alone there.
LEMMA FirstPut ==
  ASSUME NEW e
  PROVE  Len(Append(<<>>, e)) = 1
  OBVIOUS

LEMMA StepStep == TypeOK /\ MutexInv /\ StepInv /\ [Next]_vars => StepInv'
<1>. SUFFICES ASSUME TypeOK, MutexInv, StepInv, [Next]_vars PROVE StepInv'
  OBVIOUS
<1>. USE DEF process, results
<1>0. /\ pc \in [Calls -> Places]
      /\ inbox \in Seq(Calls) /\ outbox \in Seq(Line)
      /\ broken \in BOOLEAN
  BY DEF TypeOK, Places
<1>1. ASSUME Stop PROVE StepInv'
  BY <1>1 DEF Stop, StepInv, Empty
\* A step that leaves the pipes alone and takes no call away from its answer.
<1>2. ASSUME UNCHANGED <<inbox, outbox, broken>>, plugin' = "none" => plugin = "none",
             \A c \in Calls : pc[c] = "read" => pc'[c] = "read"
      PROVE  StepInv'
  BY <1>2 DEF StepInv, Empty
<1>3. ASSUME NEW c \in Calls,
             \/ Arrive(c) \/ Acquire(c) \/ Ready(c) \/ Stat(c) \/ Exec(c) \/ WriteBlocks(c)
             \/ ReloadFail(c) \/ StartFail(c)
      PROVE  StepInv'
  <2>1. /\ UNCHANGED <<inbox, outbox, broken>>
        /\ plugin' = "none" => plugin = "none"
        /\ pc[c] # "read" /\ \E place \in Places : pc' = [pc EXCEPT ![c] = place]
    BY <1>3 DEF Arrive, Acquire, Ready, Stat, Exec, WriteBlocks, ReloadFail, StartFail, Goto,
                Fail, Return, Places
  <2>2. \A d \in Calls : pc[d] = "read" => pc'[d] = "read"
    BY <1>0, <2>1
  <2>. QED BY <1>2, <2>1, <2>2
<1>4. ASSUME NEW c \in Calls, Reload(c) PROVE StepInv'
  <2>1. CASE Stop
    BY <1>1, <2>1
  <2>2. CASE UNCHANGED process
    <3>1. \A d \in Calls : pc[d] = "read" => pc'[d] = "read"
      BY <1>0, <1>4 DEF Reload, Goto
    <3>. QED BY <1>2, <2>2, <3>1
  <2>. QED BY <1>4, <2>1, <2>2 DEF Reload
<1>5. ASSUME NEW c \in Calls, Write(c) \/ TakeBlocked(c) PROVE StepInv'
  <2>1. /\ plugin = "up" /\ plugin' = plugin /\ outbox' = outbox /\ broken' = broken
        /\ inbox' = Append(inbox, c) /\ pc' = [pc EXCEPT ![c] = "read"]
        /\ pc[c] \in {"write", "blocked"}
    BY <1>5 DEF Write, TakeBlocked, Goto
  <2>2. \A d \in Calls : pc[d] # "read"
    BY <2>1 DEF MutexInv, Busy
  <2>3. ~broken => Empty
    BY <2>2 DEF StepInv
  <2>4. ~broken => Len(inbox') = 1 /\ outbox' = <<>>
    BY <2>1, <2>3, FirstPut DEF Empty
  <2>5. pc'[c] = "read"
    BY <1>0, <2>1
  <2>. QED BY <2>1, <2>4, <2>5 DEF StepInv
<1>6. ASSUME NEW c \in Calls, WriteFail(c) \/ GiveUp(c) \/ ReadEof(c) \/ Timeout(c)
      PROVE  StepInv'
  BY <1>1, <1>6 DEF WriteFail, GiveUp, ReadEof, Timeout
<1>7. ASSUME NEW c \in Calls, Read(c) PROVE StepInv'
  <2>1. CASE Stop
    BY <1>1, <2>1
  <2>2. CASE outbox' = Tail(outbox) /\ UNCHANGED <<plugin, version, inbox, broken>>
    <3>1. outbox # <<>> /\ plugin # "none"
      BY <1>7 DEF Read, StepInv, Empty
    <3>2. ~broken => inbox = <<>> /\ Len(outbox) = 1
      BY <3>1 DEF StepInv, Empty
    <3>3. ~broken => inbox' = <<>> /\ outbox' = <<>>
      BY <1>0, <2>2, <3>2, LastTaken
    <3>. QED BY <2>2, <3>1, <3>3 DEF StepInv, Empty
  <2>. QED BY <1>7, <2>1, <2>2 DEF Read
<1>8. CASE LateRead
  <2>1. CASE plugin = "none"
    <3>1. plugin' = plugin /\ inbox' = inbox /\ outbox' = outbox
      BY <1>8, <2>1 DEF LateRead
    <3>. QED BY <2>1, <3>1 DEF StepInv, Empty
  <2>2. CASE plugin # "none"
    <3>1. /\ outbox # <<>> /\ outbox' = Tail(outbox)
          /\ UNCHANGED <<plugin, inbox, broken>>
      BY <1>8, <2>2 DEF LateRead
    <3>2. ~broken => inbox = <<>> /\ Len(outbox) = 1
      BY <3>1 DEF StepInv, Empty
    <3>3. ~broken => inbox' = <<>> /\ outbox' = <<>>
      BY <1>0, <3>1, <3>2, LastTaken
    <3>. QED BY <2>2, <3>1, <3>3 DEF StepInv, Empty
  <2>. QED BY <2>1, <2>2
<1>9. CASE Close
  BY <1>1, <1>9 DEF Close
<1>10. CASE Answer
  <2>1. /\ plugin = "up" /\ inbox # <<>> /\ inbox' = Tail(inbox)
        /\ UNCHANGED <<plugin, broken, pc>>
    BY <1>10 DEF Answer
  <2>2. PICK a \in Actions : Say(Head(inbox), a)
    BY <1>10 DEF Answer, Actions
  <2>3. ~broken => Len(inbox) = 1 /\ outbox = <<>> /\ \E c \in Calls : pc[c] = "read"
    BY <2>1 DEF StepInv, Empty
  <2>4. ~broken => inbox' = <<>>
    BY <1>0, <2>1, <2>3, LastTaken
  <2>5. ~broken => Len(outbox') = 1
    BY <2>2, <2>3, FirstPut DEF Say
  <2>. QED BY <2>1, <2>3, <2>4, <2>5 DEF StepInv
<1>11. CASE Chatter
  <2>1. plugin' # "none" /\ broken'
    BY <1>11 DEF Chatter
  <2>. QED BY <2>1 DEF StepInv
<1>12. CASE Exit
  BY <1>2, <1>12 DEF Exit
<1>13. CASE WaitCloses
  BY <1>13 DEF WaitCloses, StepInv, Empty
<1>14. CASE ChangeScript
  BY <1>2, <1>14 DEF ChangeScript
<1>15. CASE UNCHANGED vars
  BY <1>2, <1>15 DEF vars
<1>. QED
  BY <1>3, <1>4, <1>5, <1>6, <1>7, <1>8, <1>9, <1>10, <1>11, <1>12, <1>13, <1>14, <1>15
     DEF Next, CallStep

\* A plugin that answers each line once is never out of step: when a request is
\* written, the pipes are empty (requestLocked, readLineWithTimeoutLocked).
THEOREM StaysInStep == Spec => []InStep
<1>1. Init => StepInv
  BY DEF Init, StepInv, Empty
<1>2. MutexInv /\ StepInv => InStep
  BY DEF MutexInv, StepInv, Empty, InStep, Busy
<1>. QED BY <1>1, <1>2, Basics, StepStep, PTL DEF Spec

-----------------------------------------------------------------------------
(* The policy implements PolicyService. *)

\* A call has no verdict before it returns.
Unjudged == \A c \in Calls : pc[c] \in {"idle", "lock"} \cup Busy => verdict[c] = "none"

\* A process runs a version of the script.
RunsScript == 1 <= script /\ (plugin # "none" => 1 <= version /\ version <= script)

LEMMA UnjudgedStep == TypeOK /\ MutexInv /\ Unjudged /\ [Next]_vars => Unjudged'
<1>. SUFFICES ASSUME TypeOK, MutexInv, Unjudged, [Next]_vars PROVE Unjudged'
  OBVIOUS
<1>. USE DEF process, results
<1>0. pc \in [Calls -> Places] /\ verdict \in [Calls -> Verdicts \cup {"none"}]
  BY DEF TypeOK, Places
<1>1. CASE UNCHANGED <<pc, verdict>>
  BY <1>1 DEF Unjudged
<1>2. ASSUME NEW c \in Calls, pc[c] \in {"idle", "lock"} \cup Busy,
             NEW place, Goto(c, place), UNCHANGED verdict
      PROVE  Unjudged'
  BY <1>0, <1>2 DEF Unjudged, Goto
<1>3. ASSUME NEW c \in Calls, NEW v, NEW by, Return(c, v, by)
      PROVE  Unjudged'
  BY <1>0, <1>3 DEF Unjudged, Return, Busy
<1>4. ASSUME NEW c \in Calls,
             \/ Arrive(c) \/ Acquire(c) \/ Reload(c) \/ Ready(c) \/ Stat(c) \/ Exec(c)
             \/ Write(c) \/ WriteBlocks(c) \/ TakeBlocked(c) \/ WriteFail(c)
      PROVE  Unjudged'
  <2>1. /\ verdict' = verdict /\ pc[c] \in {"idle", "lock"} \cup Busy
        /\ \E place \in Places : Goto(c, place)
    BY <1>4 DEF Arrive, Acquire, Reload, Ready, Stat, Exec, Write, WriteBlocks, TakeBlocked,
                WriteFail, Busy, Places
  <2>. QED BY <1>2, <2>1
<1>5. ASSUME NEW c \in Calls,
             \/ ReloadFail(c) \/ StartFail(c) \/ GiveUp(c) \/ Read(c) \/ ReadEof(c)
             \/ Timeout(c)
      PROVE  Unjudged'
  <2>1. \E v, by : Return(c, v, by)
    BY <1>5 DEF ReloadFail, StartFail, GiveUp, Read, ReadEof, Timeout, Fail
  <2>. QED BY <1>3, <2>1
<1>6. CASE LateRead
  BY <1>0, <1>6 DEF Unjudged, LateRead, Busy
<1>7. CASE Close \/ Answer \/ Chatter \/ Exit \/ WaitCloses \/ ChangeScript \/ UNCHANGED vars
  BY <1>1, <1>7 DEF Close, Answer, Chatter, Exit, WaitCloses, ChangeScript, vars
<1>. QED BY <1>4, <1>5, <1>6, <1>7 DEF Next, CallStep

LEMMA RunsScriptStep == TypeOK /\ RunsScript /\ [Next]_vars => RunsScript'
<1>. SUFFICES ASSUME TypeOK, RunsScript, [Next]_vars PROVE RunsScript'
  OBVIOUS
<1>. USE DEF process, results
<1>0. script \in Nat /\ version \in Nat
  BY DEF TypeOK
<1>1. ASSUME NEW c \in Calls, Exec(c) PROVE RunsScript'
  BY <1>0, <1>1 DEF RunsScript, Exec
<1>2. CASE ChangeScript
  BY <1>0, <1>2 DEF RunsScript, ChangeScript
<1>3. CASE Exit
  BY <1>3 DEF RunsScript, Exit
<1>4. ASSUME UNCHANGED <<script, version>>, plugin' \in {plugin, "none"} PROVE RunsScript'
  BY <1>4 DEF RunsScript
<1>5. ASSUME NEW c \in Calls,
             \/ Arrive(c) \/ Acquire(c) \/ Reload(c) \/ Ready(c) \/ Stat(c) \/ Write(c)
             \/ WriteBlocks(c) \/ TakeBlocked(c) \/ WriteFail(c) \/ ReloadFail(c)
             \/ StartFail(c) \/ GiveUp(c) \/ Read(c) \/ ReadEof(c) \/ Timeout(c)
      PROVE  UNCHANGED <<script, version>> /\ plugin' \in {plugin, "none"}
  BY <1>5 DEF Arrive, Acquire, Reload, Ready, Stat, Write, WriteBlocks, TakeBlocked, WriteFail,
              ReloadFail, StartFail, GiveUp, Read, ReadEof, Timeout, Stop
<1>6. CASE LateRead \/ Close \/ Answer \/ Chatter \/ WaitCloses \/ UNCHANGED vars
  BY <1>4, <1>6 DEF LateRead, Close, Answer, Chatter, WaitCloses, Stop, vars
<1>. QED BY <1>1, <1>2, <1>3, <1>4, <1>5, <1>6 DEF Next, CallStep

\* What the refinement rests on.
ServiceInv ==
    /\ TypeOK /\ MutexInv /\ AttemptInv
    /\ SaidInv /\ ScriptInv /\ Unjudged /\ RunsScript

LEMMA ServiceInvHolds == Spec => []ServiceInv
<1>1. Init => SaidInv /\ ScriptInv /\ Unjudged /\ RunsScript
  BY DEF Init, SaidInv, VerdictIsOwn, ScriptInv, ScriptIsCurrent, Checked, Unjudged, RunsScript
<1>2. /\ TypeOK /\ MutexInv /\ AttemptInv
      /\ SaidInv /\ ScriptInv /\ Unjudged /\ RunsScript /\ [Next]_vars
      => (SaidInv /\ ScriptInv /\ Unjudged /\ RunsScript)'
  BY SaidStep, ScriptStep, UnjudgedStep, RunsScriptStep
<1>. QED BY <1>1, <1>2, Basics, PTL DEF Spec, ServiceInv

LEMMA ServiceInit == Init => Service!Init
  BY DEF Init, Service!Init

\* Every step of the policy is one of the service or changes nothing the service
\* sees: a call's turn is the time it holds the mutex.
LEMMA ServiceStep ==
  ServiceInv /\ [Next]_vars => [Service!Next]_(Service!serviceVars)
<1>. SUFFICES ASSUME ServiceInv, [Next]_vars
              PROVE  Service!Next \/ UNCHANGED Service!serviceVars
  OBVIOUS
<1>. USE DEF process, results
<1>0. TypeOK /\ MutexInv /\ SaidInv /\ ScriptInv /\ Unjudged /\ RunsScript
  BY DEF ServiceInv
<1>1. ASSUME NEW c \in Calls, Acquire(c) PROVE Service!Begin(c)
  BY <1>0, <1>1 DEF Acquire, Service!Begin, Unjudged
<1>2. ASSUME NEW c \in Calls, mutex = c, Fail(c), UNCHANGED <<script, said, since>>
      PROVE  Service!Fail(c)
  BY <1>2 DEF Fail, Return, Service!Fail, Service!Give
<1>3. ASSUME NEW c \in Calls, CallStep(c) PROVE mutex = c
  BY <1>0, <1>3
     DEF MutexInv, Busy, CallStep, Reload, ReloadFail, Ready, Stat, Exec, StartFail, GiveUp,
         Write, WriteFail, Read, ReadEof, Timeout
<1>4. ASSUME NEW c \in Calls,
             ReloadFail(c) \/ StartFail(c) \/ GiveUp(c) \/ ReadEof(c) \/ Timeout(c)
      PROVE  Service!Fail(c)
  <2>1. Fail(c) /\ UNCHANGED <<script, said, since>>
    BY <1>4 DEF ReloadFail, StartFail, GiveUp, ReadEof, Timeout
  <2>. QED BY <1>2, <1>3, <1>4, <2>1 DEF CallStep
<1>5. ASSUME NEW c \in Calls, Read(c) PROVE Service!Fail(c) \/ Service!Judge(c)
  <2>1. mutex = c /\ outbox # <<>> /\ UNCHANGED <<script, said, since>>
    BY <1>3, <1>5 DEF Read, CallStep
  <2>2. CASE Fail(c)
    BY <1>2, <2>1, <2>2
  <2>3. CASE IsAnswer(c, Head(outbox)) /\ Return(c, Head(outbox).action, version)
    <3>1. 1 \in DOMAIN outbox /\ Head(outbox) = outbox[1]
      BY <1>0, <2>1 DEF TypeOK
    <3>2. Head(outbox).action \in Verdicts /\ <<c, Head(outbox).action>> \in said
      BY <1>0, <2>3, <3>1 DEF SaidInv, IsAnswer
    <3>3. plugin # "none" /\ pc[c] = "read"
      BY <1>0, <1>5, <2>1 DEF ScriptInv, Read
    <3>4. version \in 1 .. script /\ (IsScript => since[c] <= version)
      BY <1>0, <3>3 DEF RunsScript, ScriptInv, Checked, TypeOK
    <3>5. Service!Give(c, Head(outbox).action, version)
      BY <2>1, <2>3 DEF Return, Service!Give
    <3>. QED BY <3>2, <3>4, <3>5 DEF Service!Judge
  <2>. QED BY <1>5, <2>2, <2>3 DEF Read
<1>6. ASSUME NEW c \in Calls,
             \/ Arrive(c) \/ Reload(c) \/ Ready(c) \/ Stat(c) \/ Exec(c) \/ Write(c)
             \/ WriteBlocks(c) \/ TakeBlocked(c) \/ WriteFail(c)
      PROVE  UNCHANGED Service!serviceVars
  BY <1>6 DEF Arrive, Reload, Ready, Stat, Exec, Write, WriteBlocks, TakeBlocked, WriteFail,
              Service!serviceVars
<1>7. ASSUME NEW c, NEW a \in Actions, Say(c, a),
             UNCHANGED <<script, mutex, since, verdict, judge>>
      PROVE  Service!Next \/ UNCHANGED Service!serviceVars
  <2>1. CASE c \in Calls /\ a \in Verdicts
    <3>1. Service!Say(c, a)
      BY <1>7, <2>1 DEF Say, Service!Say
    <3>. QED BY <2>1, <3>1 DEF Service!Next
  <2>2. CASE ~(c \in Calls /\ a \in Verdicts)
    <3>1. said' = said
      BY <1>7, <2>2 DEF Say
    <3>. QED BY <1>7, <3>1 DEF Service!serviceVars
  <2>. QED BY <2>1, <2>2
<1>8. CASE Answer \/ Chatter
  <2>1. /\ \E c : \E a \in Actions : Say(c, a)
        /\ UNCHANGED <<script, mutex, since, verdict, judge>>
    BY <1>8 DEF Answer, Chatter, Actions
  <2>. QED BY <1>7, <2>1
<1>9. CASE ChangeScript
  <2>1. Service!ChangeScript
    BY <1>9 DEF ChangeScript, Service!ChangeScript
  <2>. QED BY <2>1 DEF Service!Next
<1>10. CASE LateRead \/ Close \/ Exit \/ WaitCloses \/ UNCHANGED vars
  BY <1>10 DEF LateRead, Close, Exit, WaitCloses, vars, Service!serviceVars
<1>. QED
  BY <1>1, <1>4, <1>5, <1>6, <1>8, <1>9, <1>10 DEF Next, CallStep, Service!Next

\* Every behaviour of the policy is one of the service: a request gets one
\* verdict, in its turn, either the failure mode's or what a plugin said of that
\* request, started from a script that was in place after its turn came
\* (EvaluateRequest, reloadIfChangedLocked, requestLocked).
THEOREM PolicyImplementsService == Spec => ImplementsService
<1>1. Init /\ [][Next]_vars /\ []ServiceInv => Service!Spec
  BY ServiceInit, ServiceStep, PTL DEF Service!Spec
<1>. QED BY <1>1, ServiceInvHolds DEF Spec, ImplementsService
=============================================================================
