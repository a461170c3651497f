----------------------------- MODULE StatusPage ----------------------------
(***************************************************************************)
(* The two polling hooks of the web client: useResearchStatus, which shows *)
(* one run and asks again some time after each answer, and useResearchList *)
(* which asks every few seconds whether or not the last answer has come.   *)
(* The server answers a request at one moment and the answer is applied at *)
(* another, in any order.  The page is left and entered again with the     *)
(* refs of the hook kept, as React's strict mode does.                     *)
(***************************************************************************)
EXTENDS Naturals, FiniteSets

CONSTANTS
  Chains,           \* calls of fetchOnce that end in a timer and another call
  Loads,            \* list requests outstanding at a time
  MaxMounts,        \* bounds how often the page is entered
  MaxErrors,        \* bounds the failed requests
  MaxMoves          \* bounds the changes of the run's status

Statuses == {"pending", "running", "completed", "failed", "cancelled"}
Unknown  == "unknown"

VARIABLES
  server,           \* the run's status in the database
  moves,            \* how often it has changed
  reopened,         \* has it been completed or failed and then something else?
  mounted,          \* mountedRef
  mounts,           \* times the page was entered
  chain,            \* chain -> "none", "sent", "answered" or "timer", and the answer
  lastTimer,        \* timerRef: the chain that set the last timer, or "none"
  shown,            \* status
  load,             \* list request -> as a chain, without timers
  listed,           \* the run's status in items
  errors

serverVars == <<server, moves, reopened>>
pageVars   == <<serverVars, mounted, mounts, chain, lastTimer, shown, load, listed, errors>>

NoCall   == [at |-> "none", answer |-> Unknown]
NewCall  == [at |-> "sent", answer |-> Unknown]
Timer    == [at |-> "timer", answer |-> Unknown]

PageInit ==
  /\ server = "pending"
  /\ moves = 0
  /\ reopened = FALSE
  /\ mounted = FALSE
  /\ mounts = 0
  /\ chain = [c \in Chains |-> NoCall]
  /\ lastTimer = "none"
  /\ shown = Unknown
  /\ load = [i \in Loads |-> NoCall]
  /\ listed = Unknown
  /\ errors = 0

listVars == <<load, listed>>
runVars  == <<chain, lastTimer, shown, mounted, mounts>>

\* The status changes: a run begins, for a second time if the process was restarted,
\* and ends, also where a cancel has overtaken it; what comes after a completed write
\* may fail; and a cancel may be written when the run has ended in the meantime.
Advance ==
  /\ moves < MaxMoves
  /\ \/ server # "cancelled" /\ server' = "running"
     \/ server \in {"running", "cancelled"} /\ server' = "completed"
     \/ server \in {"running", "cancelled", "completed"} /\ server' = "failed"
     \/ server' = "cancelled"
  /\ server' # server
  /\ moves' = moves + 1
  /\ reopened' = (reopened \/ server \in {"completed", "failed"})
  /\ UNCHANGED <<runVars, listVars, errors>>

\* The effect: fetchOnce is called.
Mount(c) ==
  /\ ~ mounted /\ mounts < MaxMounts
  /\ chain[c].at = "none"
  /\ mounted' = TRUE
  /\ mounts' = mounts + 1
  /\ chain' = [chain EXCEPT ![c] = NewCall]
  /\ UNCHANGED <<serverVars, lastTimer, shown, listVars, errors>>

\* Its cleanup clears the timer that was set last.
Unmount ==
  /\ mounted
  /\ mounted' = FALSE
  /\ chain' = [c \in Chains |->
                 IF c = lastTimer /\ chain[c].at = "timer" THEN NoCall ELSE chain[c]]
  /\ UNCHANGED <<serverVars, mounts, lastTimer, shown, listVars, errors>>

\* The server reads the status and answers.
Reply(c) ==
  /\ chain[c].at = "sent"
  /\ chain' = [chain EXCEPT ![c] = [at |-> "answered", answer |-> server]]
  /\ UNCHANGED <<serverVars, mounted, mounts, lastTimer, shown, listVars, errors>>

\* Broken variant: there is always another call.
PollsAgainAlways(status) == TRUE

\* TERMINAL_STATUSES, which "cancelled" is not one of.
PollsAgain(status) == status \notin {"completed", "failed"}

\* fetchOnce has its answer: shows it, and asks again later unless it is final.
Receive(c) ==
  /\ chain[c].at = "answered"
  /\ IF mounted
     THEN LET again == PollsAgain(chain[c].answer)
          IN  /\ shown' = chain[c].answer
              /\ chain' = [chain EXCEPT ![c] = IF again THEN Timer ELSE NoCall]
              /\ lastTimer' = IF again THEN c ELSE lastTimer
     ELSE /\ chain' = [chain EXCEPT ![c] = NoCall]
          /\ UNCHANGED <<shown, lastTimer>>
  /\ UNCHANGED <<serverVars, mounted, mounts, listVars, errors>>

\* Broken variant: an error ends the polling.
FailStops(c) ==
  /\ chain[c].at \in {"sent", "answered"} /\ errors < MaxErrors
  /\ errors' = errors + 1
  /\ chain' = [chain EXCEPT ![c] = NoCall]
  /\ UNCHANGED <<serverVars, mounted, mounts, lastTimer, shown, listVars>>

\* The request or its answer is lost: "keep polling even on a transient error".
Fail(c) ==
  /\ chain[c].at \in {"sent", "answered"} /\ errors < MaxErrors
  /\ errors' = errors + 1
  /\ chain' = [chain EXCEPT ![c] = IF mounted THEN Timer ELSE NoCall]
  /\ lastTimer' = IF mounted THEN c ELSE lastTimer
  /\ UNCHANGED <<serverVars, mounted, mounts, shown, listVars>>

\* The timer fires, also one that an unmount did not clear.
Fire(c) ==
  /\ chain[c].at = "timer"
  /\ chain' = [chain EXCEPT ![c] = NewCall]
  /\ UNCHANGED <<serverVars, mounted, mounts, lastTimer, shown, listVars, errors>>

\* The interval of the list fires: load, whatever is outstanding.
Load(i) ==
  /\ load[i].at = "none"
  /\ load' = [load EXCEPT ![i] = NewCall]
  /\ UNCHANGED <<serverVars, runVars, listed, errors>>

ReplyToLoad(i) ==
  /\ load[i].at = "sent"
  /\ load' = [load EXCEPT ![i] = [at |-> "answered", answer |-> server]]
  /\ UNCHANGED <<serverVars, runVars, listed, errors>>

\* The answers replace the items in the order in which they arrive.
ReceiveLoad(i) ==
  /\ load[i].at = "answered"
  /\ listed' = load[i].answer
  /\ load' = [load EXCEPT ![i] = NoCall]
  /\ UNCHANGED <<serverVars, runVars, errors>>

FailLoad(i) ==
  /\ load[i].at \in {"sent", "answered"} /\ errors < MaxErrors
  /\ errors' = errors + 1
  /\ load' = [load EXCEPT ![i] = NoCall]
  /\ UNCHANGED <<serverVars, runVars, listed>>

CallStep(c)  == Reply(c) \/ Receive(c) \/ Fire(c)
LoadStep(i)  == Load(i) \/ ReplyToLoad(i) \/ ReceiveLoad(i)

\* The page of the run, and the list.
RunPageNext == Advance \/ Unmount \/ \E c \in Chains : Mount(c) \/ CallStep(c) \/ Fail(c)
ListNext    == Advance \/ \E i \in Loads : LoadStep(i) \/ FailLoad(i)

----------------------------------------------------------------------------
(* Properties *)

\* Requests that are lost and answers that overtake each other delay what a page
\* shows and no more: in the end the list shows the run's status, and so does the
\* run's page unless it is left, or was told that the run had completed or failed,
\* stopped asking, and missed what came after (useResearchStatus.ts:45-53,
\* useResearchList.ts:23-40).  A list that nobody has opened shows nothing.
PagesCatchUp ==
  /\ <>[](listed \in {server, Unknown})
  /\ \/ []<>(~ mounted)
     \/ <>[](shown = server \/ (reopened /\ ~ PollsAgain(shown)))

\* Nobody asks for a run that has completed or failed or whose page is left, even
\* if a timer of an earlier visit was never cleared (useResearchStatus.ts:39 and 65-68).
PollingStopsAfterRun ==
  <>[](server \in {"completed", "failed"} \/ ~ mounted => \A c \in Chains : chain[c] = NoCall)
============================================================================
