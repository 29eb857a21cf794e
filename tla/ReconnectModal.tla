--------------------------- MODULE ReconnectModal ---------------------------
(***************************************************************************)
(* The script of the reconnection dialog, which the pages of the booking   *)
(* and of the events service have in common: what it does on the events    *)
(* that the Blazor runtime dispatches, on clicks on its two buttons, and   *)
(* when the document becomes visible again.                                *)
(*                                                                         *)
(* The runtime, the server and the user are the environment.  A call of    *)
(* reconnect or resumeCircuit is answered in one step, by the server as it *)
(* is then, and the script acts on the answer in a later one, whatever has *)
(* happened between the two.  The script's comments say what the answers   *)
(* are: true, false if the server refused, or an exception if it was not   *)
(* reached.  The runtime dispatches "hide" when the page is connected.     *)
(***************************************************************************)
EXTENDS Naturals, FiniteSets

CONSTANTS
    Attempt,      \* calls of retry and resume that may be in progress at once
    MaxClicks     \* bound: clicks on the buttons of one page

ASSUME AttemptAssumption == IsFiniteSet(Attempt)
ASSUME ClicksAssumption == MaxClicks \in Nat

VARIABLES
    \* The page
    open,         \* the modal dialog is shown, over the page
    listener,     \* the document has the listener retryWhenDocumentBecomesVisible
    attempt,      \* what each call of retry or resume awaits
    answer,       \* the answer to what it awaits, on its way to the script
    clicks,       \* clicks on the buttons since the page was loaded
    \* The environment
    visible,      \* document.visibilityState
    link,         \* the connection, as the class of the dialog shows it
    reachable,    \* the server answers
    circuit       \* what the server keeps of the session

callVars == <<attempt, answer>>
pageVars == <<open, listener, callVars, clicks>>
serverVars == <<reachable, circuit>>
vars == <<pageVars, visible, link, serverVars>>

\* "failed": the runtime gave up; "loading": the page is being loaded.
Link == {"up", "retrying", "failed", "paused", "resumeFailed", "loading"}

\* A session that is not in memory may be kept to be resumed, or lost.
Circuit == {"alive", "kept", "lost"}

\* retry awaits reconnect, then resumeCircuit; resume awaits resumeCircuit.
Awaited == {"none", "reconnect", "retryResume", "resume"}

Answers == {"none", "true", "false", "error"}

Resuming(a) == attempt[a] \in {"retryResume", "resume"}

-----------------------------------------------------------------------------
(***************************************************************************)
(* handleReconnectStateChanged, by the state of the event                  *)
(***************************************************************************)

Show == open' = TRUE

Hide == open' = FALSE

Failed == listener' = TRUE

\* location.reload: the page and what it awaited are gone.
Reload ==
    /\ link' = "loading"
    /\ open' = FALSE
    /\ listener' = FALSE
    /\ attempt' = [a \in Attempt |-> "none"]
    /\ answer' = [a \in Attempt |-> "none"]
    /\ clicks' = 0

-----------------------------------------------------------------------------
(***************************************************************************)
(* The runtime                                                             *)
(***************************************************************************)

\* The connection is lost, and the runtime tries to get it back.
Drop ==
    /\ link = "up"
    /\ link' = "retrying"
    /\ Show
    /\ UNCHANGED <<listener, callVars, clicks, visible, serverVars>>

\* The server pauses the session: it keeps what is needed to resume it.
Pause ==
    /\ link = "up"
    /\ link' = "paused"
    /\ circuit' = "kept"
    /\ Show
    /\ UNCHANGED <<listener, callVars, clicks, visible, reachable>>

Regain ==
    /\ link = "retrying"
    /\ reachable
    /\ circuit = "alive"
    /\ link' = "up"
    /\ Hide
    /\ UNCHANGED <<listener, callVars, clicks, visible, serverVars>>

\* Mutant: the script leaves the event alone.
GiveUpUnheard ==
    /\ link = "retrying"
    /\ link' = "failed"
    /\ UNCHANGED <<pageVars, visible, serverVars>>

\* The event "failed".
GiveUp ==
    /\ link = "retrying"
    /\ link' = "failed"
    /\ Failed
    /\ UNCHANGED <<open, callVars, clicks, visible, serverVars>>

\* The server has lost the session, and says so: the event "rejected".
Reject ==
    /\ link = "retrying"
    /\ reachable
    /\ circuit = "lost"
    /\ Reload
    /\ UNCHANGED <<visible, serverVars>>

\* The reloaded page runs the script from its start, in a session of its own.
Load ==
    /\ link = "loading"
    /\ reachable
    /\ link' = "up"
    /\ circuit' = "alive"
    /\ UNCHANGED <<pageVars, visible, reachable>>

-----------------------------------------------------------------------------
(***************************************************************************)
(* The answers to reconnect and resumeCircuit                              *)
(***************************************************************************)

Answered(a, how) == answer' = [answer EXCEPT ![a] = how]

Called(a) == attempt[a] # "none" /\ answer[a] = "none"

\* The page is connected again; on true, retry does nothing more.
ReconnectTrue(a) ==
    /\ Called(a) /\ attempt[a] = "reconnect"
    /\ reachable
    /\ circuit = "alive"
    /\ link' = "up"
    /\ Hide
    /\ attempt' = [attempt EXCEPT ![a] = "none"]
    /\ UNCHANGED <<listener, answer, clicks, visible, serverVars>>

Refuse(a) ==
    /\ Called(a) /\ attempt[a] = "reconnect"
    /\ reachable
    /\ circuit # "alive"
    /\ Answered(a, "false")
    /\ UNCHANGED <<open, listener, attempt, clicks, visible, link, serverVars>>

\* The session is alive again and the page connected to it.
Restore(a) ==
    /\ Called(a) /\ Resuming(a)
    /\ reachable
    /\ circuit # "lost"
    /\ circuit' = "alive"
    /\ link' = "up"
    /\ Hide
    /\ Answered(a, "true")
    /\ UNCHANGED <<listener, attempt, clicks, visible, reachable>>

\* The server keeps nothing to resume: the session is lost, or it is alive, as
\* another call resumed it already.
Decline(a) ==
    /\ Called(a) /\ Resuming(a)
    /\ reachable
    /\ circuit # "kept"
    /\ Answered(a, "false")
    /\ UNCHANGED <<open, listener, attempt, clicks, visible, link, serverVars>>

Unreached(a) ==
    /\ Called(a)
    /\ ~reachable
    /\ Answered(a, "error")
    /\ UNCHANGED <<open, listener, attempt, clicks, visible, link, serverVars>>

-----------------------------------------------------------------------------
(***************************************************************************)
(* retry                                                                   *)
(***************************************************************************)

\* The script goes on after an await: what the call does next, if anything.
GoOn(a, next) ==
    /\ attempt' = [attempt EXCEPT ![a] = next]
    /\ Answered(a, "none")

\* Mutant: the listener stays while the attempt is under way.
RetryKeepsListener(a) ==
    /\ attempt[a] = "none"
    /\ GoOn(a, "reconnect")
    /\ UNCHANGED listener

Retry(a) ==
    /\ attempt[a] = "none"
    /\ GoOn(a, "reconnect")
    /\ listener' = FALSE

\* The button is in the dialog once the runtime has given up, and is not disabled
\* while an earlier click is being handled.
ClickRetry(a) ==
    /\ link = "failed"
    /\ open
    /\ clicks < MaxClicks
    /\ clicks' = clicks + 1
    /\ Retry(a)
    /\ UNCHANGED <<open, visible, link, serverVars>>

\* visibilitychange, with the listener: the document is visible, retry.
ReturnAndRetry(a) ==
    /\ ~visible
    /\ listener
    /\ visible' = TRUE
    /\ Retry(a)
    /\ UNCHANGED <<open, clicks, link, serverVars>>

\* reconnect was refused: resumeCircuit is called.
ReconnectFalse(a) ==
    /\ attempt[a] = "reconnect" /\ answer[a] = "false"
    /\ GoOn(a, "retryResume")
    /\ UNCHANGED <<open, listener, clicks, visible, link, serverVars>>

\* The session was resumed: retry closes the dialog, if it is that of a later
\* outage too.
RetryResumed(a) ==
    /\ attempt[a] = "retryResume" /\ answer[a] = "true"
    /\ GoOn(a, "none")
    /\ open' = FALSE
    /\ UNCHANGED <<listener, clicks, visible, link, serverVars>>

\* There was nothing to resume.
RetryReload(a) ==
    /\ attempt[a] = "retryResume" /\ answer[a] = "false"
    /\ Reload
    /\ UNCHANGED <<visible, serverVars>>

\* Mutant: the exception is not caught.
RetryThrowsUncaught(a) ==
    /\ attempt[a] \in {"reconnect", "retryResume"} /\ answer[a] = "error"
    /\ GoOn(a, "none")
    /\ UNCHANGED <<open, listener, clicks, visible, link, serverVars>>

\* The catch of retry, for both calls it awaits, whether the page is still
\* without a connection or not.
RetryThrows(a) ==
    /\ attempt[a] \in {"reconnect", "retryResume"} /\ answer[a] = "error"
    /\ GoOn(a, "none")
    /\ listener' = TRUE
    /\ UNCHANGED <<open, clicks, visible, link, serverVars>>

-----------------------------------------------------------------------------
(***************************************************************************)
(* resume                                                                  *)
(***************************************************************************)

\* The button is in the dialog while the session is paused.
ClickResume(a) ==
    /\ link \in {"paused", "resumeFailed"}
    /\ open
    /\ clicks < MaxClicks
    /\ clicks' = clicks + 1
    /\ attempt[a] = "none"
    /\ GoOn(a, "resume")
    /\ UNCHANGED <<open, listener, visible, link, serverVars>>

\* resume leaves the dialog to the runtime.
ResumeTrue(a) ==
    /\ attempt[a] = "resume" /\ answer[a] = "true"
    /\ GoOn(a, "none")
    /\ UNCHANGED <<open, listener, clicks, visible, link, serverVars>>

ResumeReload(a) ==
    /\ attempt[a] = "resume" /\ answer[a] = "false"
    /\ Reload
    /\ UNCHANGED <<visible, serverVars>>

\* Mutant: another class than the one that the style sheet knows.
ResumeThrowsMistyped(a) ==
    /\ attempt[a] = "resume" /\ answer[a] = "error"
    /\ GoOn(a, "none")
    /\ link' = IF link = "paused" THEN "failedToResume" ELSE link
    /\ UNCHANGED <<open, listener, clicks, visible, serverVars>>

\* The catch of resume: the class of a paused dialog is replaced, no other.
ResumeThrows(a) ==
    /\ attempt[a] = "resume" /\ answer[a] = "error"
    /\ GoOn(a, "none")
    /\ link' = IF link = "paused" THEN "resumeFailed" ELSE link
    /\ UNCHANGED <<open, listener, clicks, visible, serverVars>>

-----------------------------------------------------------------------------
(***************************************************************************)
(* The user and the server                                                 *)
(***************************************************************************)

\* Escape closes a dialog that showModal opened; the script does not prevent it.
Dismiss ==
    /\ open
    /\ open' = FALSE
    /\ UNCHANGED <<listener, callVars, clicks, visible, link, serverVars>>

Leave ==
    /\ visible
    /\ visible' = FALSE
    /\ UNCHANGED <<pageVars, link, serverVars>>

Return ==
    /\ ~visible
    /\ ~listener
    /\ visible' = TRUE
    /\ UNCHANGED <<pageVars, link, serverVars>>

ServerTurns ==
    /\ reachable' = ~reachable
    /\ UNCHANGED <<pageVars, visible, link, circuit>>

\* The server drops a session that nobody is connected to.
Evict ==
    /\ link # "up"
    /\ circuit # "lost"
    /\ circuit' \in {"kept", "lost"} \ {circuit}
    /\ UNCHANGED <<pageVars, visible, link, reachable>>

-----------------------------------------------------------------------------
Init ==
    /\ open = FALSE
    /\ listener = FALSE
    /\ attempt = [a \in Attempt |-> "none"]
    /\ answer = [a \in Attempt |-> "none"]
    /\ clicks = 0
    /\ visible = TRUE
    /\ link = "up"
    /\ reachable = TRUE
    /\ circuit = "alive"

\* What happens to a call: it is answered, and the script goes on.
Answer(a) ==
    \/ ReconnectTrue(a)
    \/ Refuse(a)
    \/ Restore(a)
    \/ Decline(a)
    \/ Unreached(a)

Act(a) ==
    \/ ReconnectFalse(a)
    \/ RetryResumed(a)
    \/ RetryReload(a)
    \/ RetryThrows(a)
    \/ ResumeTrue(a)
    \/ ResumeReload(a)
    \/ ResumeThrows(a)

Start(a) == ClickRetry(a) \/ ReturnAndRetry(a) \/ ClickResume(a)

Runtime == Regain \/ GiveUp \/ Reject

Next ==
    \/ \E a \in Attempt : Start(a) \/ Answer(a) \/ Act(a)
    \/ Drop \/ Pause \/ Runtime \/ Load
    \/ Dismiss \/ Leave \/ Return \/ ServerTurns \/ Evict

Spec == Init /\ [][Next]_vars

\* A call that is awaited is answered, the script goes on, the runtime gives up in
\* the end, a page is loaded.  Nothing is assumed of the user and of the server.
Fairness ==
    /\ \A a \in Attempt : WF_vars(Answer(a)) /\ WF_vars(Act(a))
    /\ WF_vars(Runtime)
    /\ WF_vars(Load)

FairSpec == Spec /\ Fairness

-----------------------------------------------------------------------------
(***************************************************************************)
(* Safety                                                                  *)
(***************************************************************************)

\* Every variable has a value of its kind.
TypeOK ==
    /\ open \in BOOLEAN
    /\ listener \in BOOLEAN
    /\ attempt \in [Attempt -> Awaited]
    /\ answer \in [Attempt -> Answers]
    /\ clicks \in 0 .. MaxClicks
    /\ visible \in BOOLEAN
    /\ link \in Link
    /\ reachable \in BOOLEAN
    /\ circuit \in Circuit

\* The attempts that have not succeeded yet.
Busy == {a \in Attempt : attempt[a] # "none" /\ answer[a] # "true"}

\* The attempts under way, and the one that the listener is going to start.
Started == Cardinality(Busy) + (IF listener THEN 1 ELSE 0)

\* However often the user leaves the page and comes back, at most one attempt at
\* once is due to that, and only after the runtime gave up: every other one was
\* asked for by a click.  retry removes the listener before it awaits anything.
AttemptsBounded == Started <= clicks + (IF link = "failed" THEN 1 ELSE 0)

\* Once the runtime has given up, a retry is under way or will start when the user
\* comes back to the page: no failure, click or overlap of attempts uses up the
\* listener without an attempt that can set it again, and nobody who dismissed the
\* dialog is left without a way back.
NeverStranded ==
    link = "failed" => listener \/ \E a \in Busy : attempt[a] \in {"reconnect", "retryResume"}

\* A session that the server still has, connected or kept to be resumed, is not
\* lost to a reload of the page unless the user clicked: leaving the page and
\* coming back starts no two attempts that overlap, and a lone one reloads the page
\* only when both of its calls were refused for good.
SessionKept ==
    [][link # "loading" /\ link' = "loading" /\ circuit # "lost" => clicks > 0]_vars

-----------------------------------------------------------------------------
(***************************************************************************)
(* Liveness                                                                *)
(***************************************************************************)

\* If the server is reachable from some time on, and the user leaves the page and
\* comes back again and again, a page that the runtime gave up is connected again
\* or reloaded, without a click, and whether the dialog is shown or not.
FailedRecovers ==
    <>[]reachable /\ []<>visible /\ []<>~visible
        => (link = "failed" ~> link \in {"up", "loading"})

=============================================================================
