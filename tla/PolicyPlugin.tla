---------------------------- MODULE PolicyPlugin ----------------------------
(***************************************************************************)
(* The request policy (internal/requestpolicy/plugin.go).                  *)
(*                                                                         *)
(* A request is judged by a child process, the plugin: it is sent a line   *)
(* and answers with a line.  A mutex lets one request talk to the plugin   *)
(* at a time.  The plugin is started when it is needed, stopped when it    *)
(* fails or is late, and replaced when its script has changed.             *)
(*                                                                         *)
(* The plugin, the file system and the clock are external.  A plugin may   *)
(* answer with anything at any time, exit, or stop reading.  Only the one  *)
(* in p.cmd is modelled: nobody reads what a stopped one still writes.     *)
(* The line to be sent is one that can be marshalled; if it were not, the  *)
(* request would be rejected in both failure modes.                        *)
(***************************************************************************)
EXTENDS Integers, Sequences

CONSTANTS
    Calls,        \* the calls of EvaluateRequest, each of which runs once
    FailOpen,     \* Config.FailOpen
    IsScript,     \* the command is a path (looksLikeScriptPath)
    MaxScript,    \* bound on the versions of the script
    PolicyFaults  \* what may go wrong, a subset of PolicyFaultKinds

PolicyFaultKinds ==
    {"nonsense",    \* the plugin answers with something that is no verdict
     "chatter",     \* it writes lines of which nobody asked for
     "exit",        \* it exits
     "full",        \* it does not read, and the pipe is full
     "statfail",    \* the script cannot be looked at
     "startfail",   \* the plugin cannot be started
     "latereader"}  \* a reading goroutine begins after its timeout

Free   == "free"    \* nobody holds p.mu
NoCall == "nobody"  \* the id of no call

ASSUME PolicyAssumption ==
    /\ FailOpen \in BOOLEAN /\ IsScript \in BOOLEAN
    /\ MaxScript \in Nat \ {0}
    /\ PolicyFaults \subseteq PolicyFaultKinds
    /\ Free \notin Calls /\ NoCall \notin Calls

\* The verdicts (shadowReject is a reject without a message), an action that is
\* none, and a line that is empty or no JSON.
Verdicts == {"accept", "reject"}
Actions  == Verdicts \cup {"unknown", "garbage"}

\* A line of the plugin.
Line == [id : Calls \cup {NoCall}, action : Actions]

VARIABLES
    script,    \* the version of the script, as its modification time
    plugin,    \* p.cmd: no process, one that runs, one that has exited
    version,   \* the version of the script it was started from
    modTime,   \* p.scriptModTime
    inbox,     \* calls in the plugin's standard input
    outbox,    \* lines in its standard output
    late,      \* reading goroutines that have not begun although their call has ended
    mutex,     \* the call that holds p.mu, or Free
    pc,        \* where each call is in EvaluateRequest
    attempt,   \* writes that failed
    verdict,   \* what EvaluateRequest returned, "none" before that
    judge,     \* history: the version of the plugin that judged the call, 0 for none
    since,     \* history: the version of the script when the call got the mutex
    said,      \* history: the verdicts of the plugins
    broken     \* history: the running plugin wrote a line nobody asked for

process == <<plugin, version, modTime, inbox, outbox, broken>>
results == <<verdict, judge>>
vars    == <<script, process, late, mutex, pc, attempt, results, since, said>>

Init ==
    /\ script = 1 /\ plugin = "none" /\ version = 0 /\ modTime = 0
    /\ inbox = <<>> /\ outbox = <<>> /\ late = 0
    /\ mutex = Free
    /\ pc = [c \in Calls |-> "idle"]
    /\ attempt = [c \in Calls |-> 0]
    /\ verdict = [c \in Calls |-> "none"]
    /\ judge = [c \in Calls |-> 0]
    /\ since = [c \in Calls |-> 0]
    /\ said = {}
    /\ broken = FALSE

-----------------------------------------------------------------------------
\* The verdict of onPluginFailureLocked.
FailureVerdict == IF FailOpen THEN "accept" ELSE "reject"

\* stopLocked kills the process and forgets its pipes.
Stop ==
    /\ plugin' = "none" /\ inbox' = <<>> /\ outbox' = <<>> /\ broken' = FALSE
    /\ UNCHANGED version

\* Wrong variant of Return: the mutex stays locked.
ReturnLocked(c, v, by) ==
    /\ verdict' = [verdict EXCEPT ![c] = v]
    /\ judge' = [judge EXCEPT ![c] = by]
    /\ pc' = [pc EXCEPT ![c] = "done"]
    /\ UNCHANGED mutex

\* EvaluateRequest returns, and the deferred call unlocks the mutex.
Return(c, v, by) ==
    /\ verdict' = [verdict EXCEPT ![c] = v]
    /\ judge' = [judge EXCEPT ![c] = by]
    /\ pc' = [pc EXCEPT ![c] = "done"]
    /\ mutex' = Free

Fail(c) == Return(c, FailureVerdict, 0)

Goto(c, place) == pc' = [pc EXCEPT ![c] = place]

-----------------------------------------------------------------------------
(* EvaluateRequest *)

Arrive(c) ==
    /\ pc[c] = "idle"
    /\ Goto(c, "lock")
    /\ UNCHANGED <<script, process, late, mutex, attempt, results, since, said>>

\* Wrong variant of Acquire: the call does not wait for the mutex.
Barge(c) ==
    /\ pc[c] = "lock"
    /\ mutex' = c
    /\ since' = [since EXCEPT ![c] = script]
    /\ Goto(c, "reload")
    /\ UNCHANGED <<script, process, late, attempt, results, said>>

Acquire(c) ==
    /\ pc[c] = "lock" /\ mutex = Free
    /\ mutex' = c
    /\ since' = [since EXCEPT ![c] = script]
    /\ Goto(c, "reload")
    /\ UNCHANGED <<script, process, late, attempt, results, said>>

\* reloadIfChangedLocked looks at the file only if there is a process.
Watches == IsScript /\ plugin # "none"

\* Wrong variant of Reload: the new time is taken over, but the plugin goes on.
ReloadKeeps(c) ==
    /\ pc[c] = "reload"
    /\ modTime' = IF Watches THEN script ELSE modTime
    /\ Goto(c, "start")
    /\ UNCHANGED <<script, plugin, version, inbox, outbox, broken, late, mutex, attempt,
                   results, since, said>>

Reload(c) ==
    /\ pc[c] = "reload"
    /\ IF Watches /\ script > modTime
       THEN Stop /\ modTime' = script
       ELSE UNCHANGED process
    /\ Goto(c, "start")
    /\ UNCHANGED <<script, late, mutex, attempt, results, since, said>>

\* The file cannot be looked at: the plugin goes on, but does not judge.
ReloadFail(c) ==
    /\ "statfail" \in PolicyFaults
    /\ pc[c] = "reload" /\ Watches
    /\ Fail(c)
    /\ UNCHANGED <<script, process, late, attempt, since, said>>

\* ensureStartedLocked, before the first write and after one that failed.
\* The script may change between the look at the file and the start.
Ready(c) ==
    /\ pc[c] = "start" /\ plugin # "none"
    /\ Goto(c, "write")
    /\ UNCHANGED <<script, process, late, mutex, attempt, results, since, said>>

Stat(c) ==
    /\ pc[c] = "start" /\ plugin = "none"
    /\ modTime' = IF IsScript THEN script ELSE modTime
    /\ Goto(c, "exec")
    /\ UNCHANGED <<script, plugin, version, inbox, outbox, broken, late, mutex, attempt,
                   results, since, said>>

\* Wrong value of MaxAttempts.
OneMoreAttempt == 3

\* The writes in requestLocked.
MaxAttempts == 2

\* The process starts.  After the last attempt it is not used any more.
Exec(c) ==
    /\ pc[c] = "exec"
    /\ plugin' = "up" /\ version' = script
    /\ Goto(c, IF attempt[c] < MaxAttempts THEN "write" ELSE "giveup")
    /\ UNCHANGED <<script, modTime, inbox, outbox, broken, late, mutex, attempt, results,
                   since, said>>

StartFail(c) ==
    /\ "startfail" \in PolicyFaults
    /\ plugin = "none" /\ pc[c] \in {"start", "exec"}
    /\ Fail(c)
    /\ UNCHANGED <<script, process, late, attempt, since, said>>

\* "Plugin write failed after retries": EvaluateRequest stops the new process.
GiveUp(c) ==
    /\ pc[c] = "giveup"
    /\ Stop /\ Fail(c)
    /\ UNCHANGED <<script, modTime, late, attempt, since, said>>

Write(c) ==
    /\ pc[c] = "write" /\ plugin = "up"
    /\ inbox' = Append(inbox, c)
    /\ Goto(c, "read")
    /\ UNCHANGED <<script, plugin, version, modTime, outbox, broken, late, mutex, attempt,
                   results, since, said>>

\* The line does not fit into the pipe.  No timeout bounds the wait.
WriteBlocks(c) ==
    /\ "full" \in PolicyFaults
    /\ pc[c] = "write" /\ plugin = "up"
    /\ Goto(c, "blocked")
    /\ UNCHANGED <<script, process, late, mutex, attempt, results, since, said>>

WriteFail(c) ==
    /\ pc[c] \in {"write", "blocked"} /\ plugin = "down"
    /\ Stop
    /\ attempt' = [attempt EXCEPT ![c] = @ + 1]
    /\ Goto(c, "start")
    /\ UNCHANGED <<script, modTime, late, mutex, results, since, said>>

\* Wrong variant of IsAnswer: the id is not compared.
IsAnyAnswer(c, line) == line.action \in Verdicts

\* The line carries a verdict on this call.
IsAnswer(c, line) == line.id = c /\ line.action \in Verdicts

\* A line has arrived in time.  A line that cannot be parsed stops the plugin, a
\* foreign id and an unknown action do not.
Read(c) ==
    /\ pc[c] = "read" /\ outbox # <<>>
    /\ LET line == Head(outbox)
       IN  \/ /\ line.action = "garbage"
              /\ Stop /\ Fail(c)
           \/ /\ line.action # "garbage"
              /\ outbox' = Tail(outbox)
              /\ IF IsAnswer(c, line) THEN Return(c, line.action, version) ELSE Fail(c)
              /\ UNCHANGED <<plugin, version, inbox, broken>>
    /\ UNCHANGED <<script, modTime, late, attempt, since, said>>

\* The plugin has exited, and there is nothing left to read.
ReadEof(c) ==
    /\ pc[c] = "read" /\ outbox = <<>> /\ plugin = "down"
    /\ Stop /\ Fail(c)
    /\ UNCHANGED <<script, modTime, late, attempt, since, said>>

\* Wrong variant of Timeout: the plugin goes on.
TimeoutKeeps(c) ==
    /\ pc[c] = "read"
    /\ Fail(c)
    /\ UNCHANGED <<script, process, late, attempt, since, said>>

\* The timeout, which may win over a line that is there.  The goroutine that was
\* to read may not even have looked at p.stdout yet.
Timeout(c) ==
    /\ pc[c] = "read"
    /\ Stop /\ Fail(c)
    /\ \/ UNCHANGED late
       \/ "latereader" \in PolicyFaults /\ late' = late + 1
    /\ UNCHANGED <<script, modTime, attempt, since, said>>

\* A goroutine that is late reads a line of the plugin that now runs, or finds
\* none in p.stdout and brings the program down.
LateRead ==
    /\ late > 0
    /\ late' = late - 1
    /\ \/ /\ plugin = "none"
          /\ pc' = [c \in Calls |-> "panic"]
          /\ UNCHANGED outbox
       \/ /\ plugin # "none" /\ outbox # <<>>
          /\ outbox' = Tail(outbox)
          /\ UNCHANGED pc
    /\ UNCHANGED <<script, plugin, version, modTime, inbox, broken, mutex, attempt, results,
                   since, said>>

\* Close, when the program ends.
Close ==
    /\ mutex = Free
    /\ Stop
    /\ UNCHANGED <<script, modTime, late, mutex, pc, attempt, results, since, said>>

-----------------------------------------------------------------------------
(* The plugin and the file system *)

\* The plugin takes a line in full that did not fit into the pipe.
TakeBlocked(c) ==
    /\ pc[c] = "blocked" /\ plugin = "up"
    /\ inbox' = Append(inbox, c)
    /\ Goto(c, "read")
    /\ UNCHANGED <<script, plugin, version, modTime, outbox, broken, late, mutex, attempt,
                   results, since, said>>

\* The plugin writes a line.
Say(c, a) ==
    /\ outbox' = Append(outbox, [id |-> c, action |-> a])
    /\ said' = said \cup ({<<c, a>>} \cap (Calls \X Verdicts))

\* It answers a call, once.
Answer ==
    /\ plugin = "up" /\ inbox # <<>>
    /\ \E a \in IF "nonsense" \in PolicyFaults THEN Actions ELSE Verdicts : Say(Head(inbox), a)
    /\ inbox' = Tail(inbox)
    /\ UNCHANGED <<script, plugin, version, modTime, broken, late, mutex, pc, attempt,
                   results, since>>

\* It writes a line of which nobody asked, for a call it knows or for none.
Chatter ==
    /\ "chatter" \in PolicyFaults
    /\ plugin = "up" /\ ~broken
    /\ \E c \in {NoCall} \cup {d \in Calls : \E i \in DOMAIN inbox : inbox[i] = d},
          a \in Verdicts : Say(c, a)
    /\ broken' = TRUE
    /\ UNCHANGED <<script, plugin, version, modTime, inbox, late, mutex, pc, attempt,
                   results, since>>

\* It exits.  What it wrote may be read until cmd.Wait closes the pipe.
Exit ==
    /\ "exit" \in PolicyFaults
    /\ plugin = "up"
    /\ plugin' = "down"
    /\ UNCHANGED <<script, version, modTime, inbox, outbox, broken, late, mutex, pc, attempt,
                   results, since, said>>

WaitCloses ==
    /\ plugin = "down" /\ outbox # <<>>
    /\ outbox' = <<>>
    /\ UNCHANGED <<script, plugin, version, modTime, inbox, broken, late, mutex, pc, attempt,
                   results, since, said>>

ChangeScript ==
    /\ script < MaxScript
    /\ script' = script + 1
    /\ UNCHANGED <<process, late, mutex, pc, attempt, results, since, said>>

-----------------------------------------------------------------------------
\* What a call does once it has the mutex.
CallStep(c) ==
    \/ Reload(c) \/ ReloadFail(c) \/ Ready(c) \/ Stat(c) \/ Exec(c) \/ StartFail(c)
    \/ GiveUp(c) \/ Write(c) \/ WriteFail(c) \/ Read(c) \/ ReadEof(c) \/ Timeout(c)

Next ==
    \/ \E c \in Calls : \/ Arrive(c) \/ Acquire(c) \/ CallStep(c)
                        \/ WriteBlocks(c) \/ TakeBlocked(c)
    \/ LateRead \/ Close
    \/ Answer \/ Chatter \/ Exit \/ WaitCloses \/ ChangeScript

Spec == Init /\ [][Next]_vars

\* A call runs, sync.Mutex starves nobody, and the timer fires.  The plugin is
\* not trusted with anything.
Fairness == \A c \in Calls : SF_vars(Acquire(c)) /\ WF_vars(CallStep(c))

FairSpec == Spec /\ Fairness

-----------------------------------------------------------------------------
\* Type invariant of the plugin and the calls.
TypeOK ==
    /\ script \in Nat /\ version \in Nat /\ modTime \in Nat /\ late \in Nat
    /\ plugin \in {"none", "up", "down"}
    /\ inbox \in Seq(Calls) /\ outbox \in Seq(Line)
    /\ mutex \in Calls \cup {Free}
    /\ pc \in [Calls -> {"idle", "lock", "reload", "start", "exec", "giveup", "write",
                         "blocked", "read", "done", "panic"}]
    /\ attempt \in [Calls -> 0 .. 2]
    /\ verdict \in [Calls -> Verdicts \cup {"none"}]
    /\ judge \in [Calls -> Nat] /\ since \in [Calls -> Nat]
    /\ said \subseteq Calls \X Verdicts
    /\ broken \in BOOLEAN

\* A request is judged by what a plugin said of that very request, or else by the
\* configured failure mode, whatever plugins answer, late or twice: if the policy
\* fails closed, only the plugin accepts (EvaluateRequest).
VerdictIsOwn ==
    \A c \in Calls : verdict[c] \in {"none", FailureVerdict} \/ <<c, verdict[c]>> \in said

\* A plugin that answers each line once is never out of step: when a request is
\* written, neither an earlier request nor an answer to one is in the pipes,
\* however earlier requests ended (requestLocked, readLineWithTimeoutLocked).
InStep ==
    ~broken => \A c \in Calls : pc[c] = "write" => inbox = <<>> /\ outbox = <<>>

\* A request is not judged by a script older than the one that was in place when
\* its turn came (reloadIfChangedLocked, ensureStartedLocked).
ScriptIsCurrent ==
    IsScript => \A c \in Calls : judge[c] # 0 => judge[c] >= since[c]

\* Every call returns, unless the program goes down or a plugin leaves a line that
\* does not fit into the pipe there for ever (EvaluateRequest).
CallReturns ==
    (\A d \in Calls : []<>(pc[d] # "blocked")) =>
        \A c \in Calls : pc[c] = "lock" ~> pc[c] \in {"done", "panic"}

\* The policy keeps the promise of PolicyService.
Service ==
    INSTANCE PolicyService WITH Nobody <- Free, Watched <- IsScript, turn <- mutex

ImplementsService == Service!Spec
=============================================================================
