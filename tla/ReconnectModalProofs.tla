------------------------ MODULE ReconnectModalProofs ------------------------
(***************************************************************************)
(* Proofs about ReconnectModal, for every finite set of attempts and every *)
(* number of clicks.                                                       *)
(*                                                                         *)
(* AttemptsBounded and NeverStranded are inductive once the types are      *)
(* known.  SessionKept needs Unclicked: what the calls of a page on which  *)
(* nobody clicked know of the session.                                     *)
(***************************************************************************)
EXTENDS ReconnectModal, FiniteSetTheorems, TLAPS

-----------------------------------------------------------------------------
(***************************************************************************)
(* The types                                                               *)
(***************************************************************************)

\* No click is counted before the first.
LEMMA NoClicks == 0 \in 0 .. MaxClicks
  BY ClicksAssumption

\* A reloaded page is well typed.
LEMMA TypeReload ==
    ASSUME TypeOK, Reload, UNCHANGED <<visible, serverVars>>
    PROVE  TypeOK'
  <1>1. clicks' \in 0 .. MaxClicks
    BY NoClicks DEF Reload
  <1>2. attempt' \in [Attempt -> Awaited] /\ answer' \in [Attempt -> Answers] /\ link' \in Link
    BY DEF Reload, Awaited, Answers, Link
  <1>3. open' \in BOOLEAN /\ listener' \in BOOLEAN
    BY DEF Reload
  <1>4. visible' \in BOOLEAN /\ reachable' \in BOOLEAN /\ circuit' \in Circuit
    BY DEF TypeOK, serverVars
  <1> QED
    BY <1>1, <1>2, <1>3, <1>4 DEF TypeOK

\* A call that starts leaves well typed what it changes.
LEMMA TypeStart ==
    ASSUME TypeOK, NEW a \in Attempt, Start(a)
    PROVE  TypeOK'
  <1> USE ClicksAssumption DEF TypeOK, Awaited, Answers, GoOn, Answered
  <1>1. CASE ClickRetry(a)
    <2>1. clicks' \in 0 .. MaxClicks
      BY <1>1 DEF ClickRetry
    <2>2. attempt' \in [Attempt -> Awaited] /\ answer' \in [Attempt -> Answers] /\ listener' \in BOOLEAN
      BY <1>1 DEF ClickRetry, Retry
    <2>3. UNCHANGED <<open, visible, link, reachable, circuit>>
      BY <1>1 DEF ClickRetry, serverVars
    <2> QED
      BY <2>1, <2>2, <2>3
  <1>2. CASE ReturnAndRetry(a)
    BY <1>2 DEF ReturnAndRetry, Retry, serverVars
  <1>3. CASE ClickResume(a)
    <2>1. clicks' \in 0 .. MaxClicks
      BY <1>3 DEF ClickResume
    <2>2. attempt' \in [Attempt -> Awaited] /\ answer' \in [Attempt -> Answers]
      BY <1>3 DEF ClickResume
    <2>3. UNCHANGED <<open, listener, visible, link, reachable, circuit>>
      BY <1>3 DEF ClickResume, serverVars
    <2> QED
      BY <2>1, <2>2, <2>3
  <1> QED
    BY <1>1, <1>2, <1>3 DEF Start

\* So does an answer.
LEMMA TypeAnswer ==
    ASSUME TypeOK, NEW a \in Attempt, Answer(a)
    PROVE  TypeOK'
  <1> USE DEF TypeOK, Awaited, Answers, Link, Circuit, Answered, serverVars
  <1>1. CASE ReconnectTrue(a)
    BY <1>1 DEF ReconnectTrue, Hide
  <1>2. CASE Restore(a)
    BY <1>2 DEF Restore, Hide
  <1>3. CASE Refuse(a) \/ Decline(a) \/ Unreached(a)
    BY <1>3 DEF Refuse, Decline, Unreached
  <1> QED
    BY <1>1, <1>2, <1>3 DEF Answer

\* And so does what the script does on an answer.
LEMMA TypeAct ==
    ASSUME TypeOK, NEW a \in Attempt, Act(a)
    PROVE  TypeOK'
  <1> USE DEF TypeOK, Awaited, Answers, GoOn, Answered, serverVars
  <1>1. CASE ReconnectFalse(a) \/ ResumeTrue(a)
    BY <1>1 DEF ReconnectFalse, ResumeTrue
  <1>2. CASE RetryResumed(a)
    BY <1>2 DEF RetryResumed
  <1>3. CASE RetryReload(a) \/ ResumeReload(a)
    BY <1>3, TypeReload DEF RetryReload, ResumeReload
  <1>4. CASE RetryThrows(a)
    BY <1>4 DEF RetryThrows
  <1>5. CASE ResumeThrows(a)
    <2>1. attempt' \in [Attempt -> Awaited] /\ answer' \in [Attempt -> Answers]
      BY <1>5 DEF ResumeThrows
    <2>2. link' \in Link
      BY <1>5 DEF ResumeThrows, Link
    <2>3. UNCHANGED <<open, listener, clicks, visible, reachable, circuit>>
      BY <1>5 DEF ResumeThrows
    <2> QED
      BY <2>1, <2>2, <2>3
  <1> QED
    BY <1>1, <1>2, <1>3, <1>4, <1>5 DEF Act

\* What is not a step of a call.
Environment ==
    \/ Drop \/ Pause \/ Runtime \/ Load
    \/ Dismiss \/ Leave \/ Return \/ ServerTurns \/ Evict

\* Whatever the runtime, the user and the server do keeps the types.
LEMMA TypeEnvironment ==
    ASSUME TypeOK, Environment
    PROVE  TypeOK'
  <1> USE DEF TypeOK, Link, Circuit, pageVars, callVars, serverVars
  <1>1. CASE Drop \/ Pause
    BY <1>1 DEF Drop, Pause, Show
  <1>2. CASE Regain \/ GiveUp
    BY <1>2 DEF Regain, Hide, GiveUp, Failed
  <1>3. CASE Reject
    BY <1>3, TypeReload DEF Reject
  <1>4. CASE Load
    BY <1>4 DEF Load
  <1>5. CASE Dismiss \/ Leave \/ Return \/ ServerTurns \/ Evict
    BY <1>5 DEF Dismiss, Leave, Return, ServerTurns, Evict
  <1> QED
    BY <1>1, <1>2, <1>3, <1>4, <1>5 DEF Environment, Runtime

\* Every reachable state of page, runtime and server is well typed.
THEOREM TypeCorrect == Spec => []TypeOK
  <1>1. Init => TypeOK
    <2> SUFFICES ASSUME Init
                 PROVE  TypeOK
      OBVIOUS
    <2>1. clicks \in 0 .. MaxClicks
      BY NoClicks DEF Init
    <2>2. attempt \in [Attempt -> Awaited] /\ answer \in [Attempt -> Answers]
      BY DEF Init, Awaited, Answers
    <2>3. link \in Link /\ circuit \in Circuit
      BY DEF Init, Link, Circuit
    <2>4. open \in BOOLEAN /\ listener \in BOOLEAN /\ visible \in BOOLEAN /\ reachable \in BOOLEAN
      BY DEF Init
    <2> QED
      BY <2>1, <2>2, <2>3, <2>4 DEF TypeOK
  <1>2. TypeOK /\ [Next]_vars => TypeOK'
    <2>1. ASSUME TypeOK, UNCHANGED vars
          PROVE  TypeOK'
      BY <2>1 DEF TypeOK, vars, pageVars, callVars, serverVars
    <2> QED
      BY <2>1, TypeStart, TypeAnswer, TypeAct, TypeEnvironment DEF Next, Environment
  <1> QED
    BY <1>1, <1>2, PTL DEF Spec

-----------------------------------------------------------------------------
(***************************************************************************)
(* What a step does to the attempts under way                              *)
(***************************************************************************)

\* A call that starts was not under way and is now.
LEMMA BusyStart ==
    ASSUME TypeOK, NEW a \in Attempt, Start(a)
    PROVE  a \notin Busy /\ Busy' = Busy \cup {a}
  <1>1. attempt[a] = "none"
    BY DEF Start, ClickRetry, ReturnAndRetry, ClickResume, Retry
  <1>2. PICK x \in {"reconnect", "resume"} :
            attempt' = [attempt EXCEPT ![a] = x] /\ answer' = [answer EXCEPT ![a] = "none"]
    BY DEF Start, ClickRetry, ReturnAndRetry, ClickResume, Retry, GoOn, Answered
  <1> QED
    BY <1>1, <1>2 DEF Busy, TypeOK

\* The answers that leave a call under way.
LEMMA BusyRefused ==
    ASSUME TypeOK, NEW a \in Attempt, Refuse(a) \/ Decline(a) \/ Unreached(a)
    PROVE  Busy' = Busy
  <1>1. PICK x \in {"false", "error"} :
            UNCHANGED attempt /\ answer[a] = "none" /\ answer' = [answer EXCEPT ![a] = x]
    BY DEF Refuse, Decline, Unreached, Answered, Called
  <1> QED
    BY <1>1 DEF Busy, TypeOK

\* The answers that a call succeeds by.
LEMMA BusyConnected ==
    ASSUME TypeOK, NEW a \in Attempt, ReconnectTrue(a) \/ Restore(a)
    PROVE  a \in Busy /\ Busy' = Busy \ {a}
  <1>1. attempt[a] # "none" /\ answer[a] = "none"
    BY DEF ReconnectTrue, Restore, Called
  <1>2. CASE ReconnectTrue(a)
    BY <1>1, <1>2 DEF ReconnectTrue, Busy, TypeOK
  <1>3. CASE Restore(a)
    BY <1>1, <1>3 DEF Restore, Answered, Busy, TypeOK
  <1> QED
    BY <1>2, <1>3

\* A refused reconnect goes on to resumeCircuit.
LEMMA BusyGoesOn ==
    ASSUME TypeOK, NEW a \in Attempt, ReconnectFalse(a)
    PROVE  a \in Busy /\ Busy' = Busy
  BY DEF ReconnectFalse, GoOn, Answered, Busy, TypeOK

\* A call that succeeded ends without being under way.
LEMMA BusySucceeded ==
    ASSUME TypeOK, NEW a \in Attempt, RetryResumed(a) \/ ResumeTrue(a)
    PROVE  a \notin Busy /\ Busy' = Busy
  BY DEF RetryResumed, ResumeTrue, GoOn, Answered, Busy, TypeOK

\* A call that throws ends.
LEMMA BusyThrows ==
    ASSUME TypeOK, NEW a \in Attempt, RetryThrows(a) \/ ResumeThrows(a)
    PROVE  a \in Busy /\ Busy' = Busy \ {a}
  <1>1. attempt[a] # "none" /\ answer[a] = "error"
    BY DEF RetryThrows, ResumeThrows
  <1>2. attempt' = [attempt EXCEPT ![a] = "none"] /\ answer' = [answer EXCEPT ![a] = "none"]
    BY DEF RetryThrows, ResumeThrows, GoOn, Answered
  <1> QED
    BY <1>1, <1>2 DEF Busy, TypeOK

\* A reload ends them all.
LEMMA BusyReload ==
    ASSUME Reload
    PROVE  Busy' = {}
  BY DEF Reload, Busy

\* Nobody but the calls and the reloads changes what is under way.
LEMMA BusyEnvironment ==
    ASSUME Environment, ~Reject
    PROVE  UNCHANGED <<attempt, answer, clicks>> /\ Busy' = Busy
  <1>1. UNCHANGED <<attempt, answer, clicks>>
    BY DEF Environment, Runtime, Drop, Pause, Regain, GiveUp, Load, Dismiss, Leave, Return,
           ServerTurns, Evict, pageVars, callVars
  <1> QED
    BY <1>1 DEF Busy

-----------------------------------------------------------------------------
(***************************************************************************)
(* Attempts do not pile up                                                 *)
(***************************************************************************)

\* The attempts under way are finitely many.
LEMMA BusyFinite == IsFiniteSet(Busy) /\ Cardinality(Busy) \in Nat
  <1>1. Busy \in SUBSET Attempt
    BY DEF Busy
  <1> QED
    BY <1>1, AttemptAssumption, FS_Subset, FS_CardinalityType

\* A reload ends them all, and nothing is left to start one.
LEMMA BoundedReload ==
    ASSUME Reload
    PROVE  AttemptsBounded'
  <1>1. Cardinality(Busy') = 0
    BY BusyReload, FS_EmptySet
  <1>2. Started' = 0
    BY <1>1 DEF Reload, Started
  <1>3. clicks' = 0 /\ link' # "failed"
    BY DEF Reload
  <1> QED
    BY <1>2, <1>3 DEF AttemptsBounded

\* A call that starts takes the place of a click or of the listener.
LEMMA BoundedStart ==
    ASSUME TypeOK, AttemptsBounded, NEW a \in Attempt, Start(a)
    PROVE  AttemptsBounded'
  <1> USE DEF AttemptsBounded, Started
  <1>1. Cardinality(Busy') = Cardinality(Busy) + 1
    BY BusyStart, BusyFinite, FS_AddElement
  <1>2. clicks \in Nat /\ Cardinality(Busy) \in Nat /\ listener \in BOOLEAN
    BY ClicksAssumption, BusyFinite DEF TypeOK
  <1>3. CASE ClickRetry(a)
    BY <1>1, <1>2, <1>3 DEF ClickRetry, Retry
  <1>4. CASE ReturnAndRetry(a)
    BY <1>1, <1>2, <1>4 DEF ReturnAndRetry, Retry
  <1>5. CASE ClickResume(a)
    BY <1>1, <1>2, <1>5 DEF ClickResume
  <1> QED
    BY <1>3, <1>4, <1>5 DEF Start

\* An answer leaves their number as it is, or is a success.
LEMMA BoundedAnswer ==
    ASSUME TypeOK, AttemptsBounded, NEW a \in Attempt, Answer(a)
    PROVE  AttemptsBounded'
  <1> USE DEF AttemptsBounded, Started
  <1>1. clicks \in Nat /\ Cardinality(Busy) \in Nat /\ listener \in BOOLEAN
    BY ClicksAssumption, BusyFinite DEF TypeOK
  <1>2. CASE ReconnectTrue(a) \/ Restore(a)
    <2>1. Cardinality(Busy') = Cardinality(Busy) - 1
      BY <1>2, BusyConnected, BusyFinite, FS_RemoveElement
    <2> QED
      BY <1>1, <1>2, <2>1 DEF ReconnectTrue, Restore
  <1>3. CASE Refuse(a) \/ Decline(a) \/ Unreached(a)
    <2>1. Busy' = Busy
      BY <1>3, BusyRefused
    <2> QED
      BY <1>3, <2>1 DEF Refuse, Decline, Unreached
  <1> QED
    BY <1>2, <1>3 DEF Answer

\* A call that throws gives its place to the listener.
LEMMA BoundedAct ==
    ASSUME TypeOK, AttemptsBounded, NEW a \in Attempt, Act(a)
    PROVE  AttemptsBounded'
  <1> USE DEF AttemptsBounded, Started
  <1>1. clicks \in Nat /\ Cardinality(Busy) \in Nat /\ listener \in BOOLEAN
    BY ClicksAssumption, BusyFinite DEF TypeOK
  <1>2. CASE ReconnectFalse(a)
    <2>1. Busy' = Busy
      BY <1>2, BusyGoesOn
    <2> QED
      BY <1>2, <2>1 DEF ReconnectFalse
  <1>3. CASE RetryResumed(a) \/ ResumeTrue(a)
    <2>1. Busy' = Busy
      BY <1>3, BusySucceeded
    <2> QED
      BY <1>3, <2>1 DEF RetryResumed, ResumeTrue
  <1>4. CASE RetryReload(a) \/ ResumeReload(a)
    BY <1>4, BoundedReload DEF RetryReload, ResumeReload
  <1>5. CASE RetryThrows(a) \/ ResumeThrows(a)
    <2>1. Cardinality(Busy') = Cardinality(Busy) - 1
      BY <1>5, BusyThrows, BusyFinite, FS_RemoveElement
    <2>2. UNCHANGED clicks /\ (link' = "failed" <=> link = "failed")
      BY <1>5 DEF RetryThrows, ResumeThrows
    <2>3. listener' \in BOOLEAN
      BY <1>1, <1>5 DEF RetryThrows, ResumeThrows
    <2> QED
      BY <1>1, <2>1, <2>2, <2>3
  <1> QED
    BY <1>2, <1>3, <1>4, <1>5 DEF Act

\* Of the rest, only the event "failed" can start an attempt, and it counts for it.
LEMMA BoundedEnvironment ==
    ASSUME TypeOK, AttemptsBounded, Environment
    PROVE  AttemptsBounded'
  <1> USE DEF AttemptsBounded, Started
  <1>1. clicks \in Nat /\ Cardinality(Busy) \in Nat /\ listener \in BOOLEAN
    BY ClicksAssumption, BusyFinite DEF TypeOK
  <1>2. CASE Reject
    BY <1>2, BoundedReload DEF Reject
  <1>3. CASE ~Reject
    <2>1. UNCHANGED clicks /\ Busy' = Busy
      BY <1>3, BusyEnvironment
    <2>2. CASE GiveUp
      BY <1>1, <2>1, <2>2 DEF GiveUp, Failed
    <2>3. CASE Drop \/ Pause \/ Regain \/ Load
      BY <1>1, <2>1, <2>3 DEF Drop, Pause, Regain, Load, pageVars
    <2>4. CASE Dismiss \/ Leave \/ Return \/ ServerTurns \/ Evict
      BY <2>1, <2>4 DEF Dismiss, Leave, Return, ServerTurns, Evict, pageVars
    <2> QED
      BY <1>3, <2>2, <2>3, <2>4 DEF Environment, Runtime
  <1> QED
    BY <1>2, <1>3

\* At most one attempt is under way or about to start that no click asked for,
\* and none unless the runtime gave up.
THEOREM AttemptsStayBounded == Spec => []AttemptsBounded
  <1>1. Init => AttemptsBounded
    <2> SUFFICES ASSUME Init
                 PROVE  AttemptsBounded
      OBVIOUS
    <2>1. Busy = {}
      BY DEF Init, Busy
    <2> QED
      BY <2>1, FS_EmptySet DEF Init, AttemptsBounded, Started
  <1>2. TypeOK /\ AttemptsBounded /\ [Next]_vars => AttemptsBounded'
    <2>1. ASSUME AttemptsBounded, UNCHANGED vars
          PROVE  AttemptsBounded'
      BY <2>1 DEF AttemptsBounded, Started, Busy, vars, pageVars, callVars
    <2> QED
      BY <2>1, BoundedStart, BoundedAnswer, BoundedAct, BoundedEnvironment DEF Next, Environment
  <1> QED
    BY <1>1, <1>2, TypeCorrect, PTL DEF Spec

-----------------------------------------------------------------------------
(***************************************************************************)
(* A page that was given up keeps a way back                               *)
(***************************************************************************)

\* The calls that may still put the listener back.
Retrying == {a \in Busy : attempt[a] \in {"reconnect", "retryResume"}}

\* A step of a call leaves the listener, a retry, or another link.
LEMMA StrandedCall ==
    ASSUME TypeOK, NeverStranded, NEW a \in Attempt, Start(a) \/ Answer(a) \/ Act(a)
    PROVE  NeverStranded'
  <1> SUFFICES ASSUME link' = "failed"
               PROVE  listener' \/ Retrying' # {}
    BY DEF NeverStranded, Retrying
  <1>1. CASE ClickRetry(a) \/ ReturnAndRetry(a)
    <2>1. attempt'[a] = "reconnect" /\ answer'[a] = "none"
      BY <1>1 DEF ClickRetry, ReturnAndRetry, Retry, GoOn, Answered, TypeOK
    <2> QED
      BY <2>1 DEF Retrying, Busy
  <1>2. CASE ClickResume(a)
    BY <1>2 DEF ClickResume
  <1>3. CASE ReconnectTrue(a) \/ Restore(a)
    BY <1>3 DEF ReconnectTrue, Restore
  <1>4. CASE Refuse(a) \/ Decline(a) \/ Unreached(a)
    <2>1. UNCHANGED <<listener, link, attempt>> /\ Busy' = Busy
      BY <1>4, BusyRefused DEF Refuse, Decline, Unreached
    <2> QED
      BY <2>1 DEF NeverStranded, Retrying
  <1>5. CASE ReconnectFalse(a)
    <2>1. attempt'[a] = "retryResume" /\ a \in Busy'
      BY <1>5, BusyGoesOn DEF ReconnectFalse, GoOn, TypeOK
    <2> QED
      BY <2>1 DEF Retrying
  <1>6. CASE RetryResumed(a) \/ ResumeTrue(a)
    <2>1. UNCHANGED <<listener, link>> /\ a \notin Busy /\ Busy' = Busy
      BY <1>6, BusySucceeded DEF RetryResumed, ResumeTrue
    <2>2. \A b \in Attempt : b # a => attempt'[b] = attempt[b]
      BY <1>6 DEF RetryResumed, ResumeTrue, GoOn, TypeOK
    <2> QED
      BY <2>1, <2>2 DEF NeverStranded, Retrying, Busy
  <1>7. CASE RetryReload(a) \/ ResumeReload(a)
    BY <1>7 DEF RetryReload, ResumeReload, Reload
  <1>8. CASE RetryThrows(a)
    BY <1>8 DEF RetryThrows
  <1>9. CASE ResumeThrows(a)
    <2>1. link = "failed" /\ UNCHANGED listener /\ attempt[a] = "resume"
      BY <1>9 DEF ResumeThrows
    <2>2. Busy' = Busy \ {a}
      BY <1>9, BusyThrows
    <2>3. \A b \in Attempt : b # a => attempt'[b] = attempt[b]
      BY <1>9 DEF ResumeThrows, GoOn, TypeOK
    <2> QED
      BY <2>1, <2>2, <2>3 DEF NeverStranded, Retrying, Busy
  <1> QED
    BY <1>1, <1>2, <1>3, <1>4, <1>5, <1>6, <1>7, <1>8, <1>9 DEF Start, Answer, Act

\* Once the runtime has given up, a retry is under way or will start when the user
\* comes back, whatever old calls answer and whoever dismisses the dialog.
THEOREM NobodyStranded == Spec => []NeverStranded
  <1>1. Init => NeverStranded
    BY DEF Init, NeverStranded
  <1>2. TypeOK /\ NeverStranded /\ [Next]_vars => NeverStranded'
    <2> SUFFICES ASSUME TypeOK, NeverStranded, [Next]_vars
                 PROVE  NeverStranded'
      OBVIOUS
    <2>1. CASE UNCHANGED vars
      BY <2>1 DEF NeverStranded, Busy, vars, pageVars, callVars
    <2>2. CASE Drop \/ Pause \/ Runtime \/ Load
      BY <2>2 DEF NeverStranded, Drop, Pause, Runtime, Regain, GiveUp, Failed, Reject, Reload, Load
    <2>3. CASE Dismiss \/ Leave \/ Return \/ ServerTurns \/ Evict
      <3>1. UNCHANGED <<link, listener, attempt, answer>>
        BY <2>3 DEF Dismiss, Leave, Return, ServerTurns, Evict, pageVars, callVars
      <3> QED
        BY <3>1 DEF NeverStranded, Busy
    <2> QED
      BY <2>1, <2>2, <2>3, StrandedCall DEF Next
  <1> QED
    BY <1>1, <1>2, TypeCorrect, PTL DEF Spec

-----------------------------------------------------------------------------
(***************************************************************************)
(* The session of a page on which nobody clicked                           *)
(***************************************************************************)

\* Without a click, one attempt at most is under way, only while the page is given
\* up, and no listener waits to start another.
Alone ==
    /\ \A a, b \in Busy : a = b
    /\ Busy # {} => link = "failed" /\ ~listener
    /\ listener => link = "failed"

\* What the answers of the call a say is still so: a refused reconnect means that
\* the session is not in memory, a refused resumeCircuit that it is lost.
Current(a) ==
    /\ attempt[a] # "resume"
    /\ attempt[a] = "reconnect" /\ answer[a] = "false" => circuit # "alive"
    /\ attempt[a] = "retryResume" => circuit # "alive"
    /\ attempt[a] = "retryResume" /\ answer[a] = "false" => circuit = "lost"

\* On a page without a click, no answer under way is stale.
Unclicked == clicks = 0 => Alone /\ \A a \in Busy : Current(a)

\* A page that was reloaded has no calls.
LEMMA UnclickedReload ==
    ASSUME Reload
    PROVE  Unclicked'
  BY BusyReload DEF Unclicked, Alone, Reload

\* A call that the listener starts is the only one.
LEMMA UnclickedStart ==
    ASSUME TypeOK, Unclicked, NEW a \in Attempt, Start(a)
    PROVE  Unclicked'
  <1>1. CASE ClickRetry(a) \/ ClickResume(a)
    <2>1. clicks' # 0
      BY <1>1, ClicksAssumption DEF ClickRetry, ClickResume, TypeOK
    <2> QED
      BY <2>1 DEF Unclicked
  <1>2. CASE ReturnAndRetry(a)
    <2> SUFFICES ASSUME clicks' = 0
                 PROVE  Alone' /\ \A b \in Busy' : Current(b)'
      BY DEF Unclicked
    <2>1. Alone /\ listener
      BY <1>2 DEF ReturnAndRetry, Unclicked
    <2>2. Busy' = {a} /\ link = "failed"
      BY <2>1, BusyStart DEF Alone
    <2>3. UNCHANGED link /\ ~listener' /\ attempt'[a] = "reconnect" /\ answer'[a] = "none"
      BY <1>2 DEF ReturnAndRetry, Retry, GoOn, Answered, TypeOK
    <2> QED
      BY <2>2, <2>3 DEF Alone, Current
  <1> QED
    BY <1>1, <1>2 DEF Start

\* An answer is true of the session when it is given.
LEMMA UnclickedAnswer ==
    ASSUME TypeOK, Unclicked, NEW a \in Attempt, Answer(a)
    PROVE  Unclicked'
  <1> SUFFICES ASSUME clicks' = 0
               PROVE  Alone' /\ \A b \in Busy' : Current(b)'
    BY DEF Unclicked
  <1>1. clicks = 0 /\ a \in Busy /\ UNCHANGED listener
    BY DEF Answer, ReconnectTrue, Refuse, Restore, Decline, Unreached, Called, Busy
  <1>2. Alone /\ Current(a) /\ Busy = {a}
    BY <1>1 DEF Unclicked, Alone
  <1>3. CASE ReconnectTrue(a) \/ Restore(a)
    <2>1. Busy' = {}
      BY <1>2, <1>3, BusyConnected
    <2>2. ~listener'
      BY <1>1, <1>2 DEF Alone
    <2> QED
      BY <2>1, <2>2 DEF Alone
  <1>4. CASE Refuse(a) \/ Decline(a) \/ Unreached(a)
    <2>1. Busy' = {a} /\ UNCHANGED <<link, attempt, circuit>>
      BY <1>2, <1>4, BusyRefused DEF Refuse, Decline, Unreached, serverVars
    <2>2. Alone'
      BY <1>1, <1>2, <2>1 DEF Alone
    <2>3. CASE Refuse(a)
      BY <1>2, <2>1, <2>2, <2>3 DEF Refuse, Current
    <2>4. CASE Decline(a)
      <3>1. circuit = "lost" \/ attempt[a] # "retryResume"
        BY <1>2, <2>4 DEF Decline, Current, TypeOK, Circuit
      <3>2. attempt[a] \in {"retryResume", "resume"}
        BY <2>4 DEF Decline, Resuming
      <3> QED
        BY <1>2, <2>1, <2>2, <3>1, <3>2 DEF Current
    <2>5. CASE Unreached(a)
      <3>1. answer'[a] = "error"
        BY <2>5 DEF Unreached, Answered, TypeOK
      <3> QED
        BY <1>2, <2>1, <2>2, <3>1 DEF Current
    <2> QED
      BY <1>4, <2>1, <2>2, <2>3, <2>4, <2>5
  <1> QED
    BY <1>3, <1>4 DEF Answer

\* What the script does on it rests on what still holds.
LEMMA UnclickedAct ==
    ASSUME TypeOK, Unclicked, NEW a \in Attempt, Act(a)
    PROVE  Unclicked'
  <1>1. CASE RetryReload(a) \/ ResumeReload(a)
    BY <1>1, UnclickedReload DEF RetryReload, ResumeReload
  <1>2. CASE ~RetryReload(a) /\ ~ResumeReload(a)
    <2> SUFFICES ASSUME clicks' = 0
                 PROVE  Alone' /\ \A b \in Busy' : Current(b)'
      BY DEF Unclicked
    <2>1. clicks = 0 /\ UNCHANGED circuit
      BY <1>2 DEF Act, ReconnectFalse, RetryResumed, RetryThrows, ResumeTrue, ResumeThrows, serverVars
    <2>2. Alone /\ \A b \in Busy : Current(b)
      BY <2>1 DEF Unclicked
    <2>3. CASE ReconnectFalse(a)
      <3>1. a \in Busy /\ Busy' = Busy /\ UNCHANGED <<link, listener>>
        BY <2>3, BusyGoesOn DEF ReconnectFalse
      <3>2. Busy' = {a} /\ Alone'
        BY <2>2, <3>1 DEF Alone
      <3>3. circuit # "alive"
        BY <2>2, <2>3, <3>1 DEF ReconnectFalse, Current
      <3>4. attempt'[a] = "retryResume" /\ answer'[a] = "none"
        BY <2>3 DEF ReconnectFalse, GoOn, Answered, TypeOK
      <3> QED
        BY <2>1, <3>2, <3>3, <3>4 DEF Current
    <2>4. CASE RetryResumed(a) \/ ResumeTrue(a)
      <3>1. a \notin Busy /\ Busy' = Busy /\ UNCHANGED <<link, listener>>
        BY <2>4, BusySucceeded DEF RetryResumed, ResumeTrue
      <3>2. \A b \in Busy : attempt'[b] = attempt[b] /\ answer'[b] = answer[b]
        BY <2>4, <3>1 DEF RetryResumed, ResumeTrue, GoOn, Answered, TypeOK, Busy
      <3>3. Alone'
        BY <2>2, <3>1 DEF Alone
      <3>4. \A b \in Busy' : Current(b)'
        BY <2>1, <2>2, <3>1, <3>2 DEF Current
      <3> QED
        BY <3>3, <3>4
    <2>5. CASE RetryThrows(a)
      <3>1. a \in Busy /\ Busy' = Busy \ {a} /\ UNCHANGED link
        BY <2>5, BusyThrows DEF RetryThrows
      <3>2. Busy' = {} /\ link' = "failed"
        BY <2>2, <3>1 DEF Alone
      <3> QED
        BY <3>2 DEF Alone
    <2>6. CASE ResumeThrows(a)
      <3>1. a \in Busy
        BY <2>6, BusyThrows
      <3> QED
        BY <2>2, <2>6, <3>1 DEF ResumeThrows, Current
    <2> QED
      BY <1>2, <2>3, <2>4, <2>5, <2>6 DEF Act
  <1> QED
    BY <1>1, <1>2

\* While a call is under way on its own, the server can only lose the session.
LEMMA UnclickedEnvironment ==
    ASSUME TypeOK, Unclicked, Environment
    PROVE  Unclicked'
  <1>1. CASE Reject
    BY <1>1, UnclickedReload DEF Reject
  <1>2. CASE ~Reject
    <2> SUFFICES ASSUME clicks' = 0
                 PROVE  Alone' /\ \A b \in Busy' : Current(b)'
      BY DEF Unclicked
    <2>1. UNCHANGED <<attempt, answer>> /\ clicks = 0 /\ Busy' = Busy
      BY <1>2, BusyEnvironment
    <2>2. Alone /\ \A b \in Busy : Current(b)
      BY <2>1 DEF Unclicked
    <2>3. CASE Drop \/ Pause \/ Regain \/ GiveUp \/ Load
      <3>1. link # "failed"
        BY <2>3 DEF Drop, Pause, Regain, GiveUp, Load
      <3>2. Busy' = {} /\ ~listener
        BY <2>1, <2>2, <3>1 DEF Alone
      <3>3. listener' => link' = "failed"
        BY <2>3, <3>2 DEF Drop, Pause, Regain, GiveUp, Load, pageVars
      <3> QED
        BY <3>2, <3>3 DEF Alone
    <2>4. CASE Dismiss \/ Leave \/ Return \/ ServerTurns
      <3>1. UNCHANGED <<link, listener, circuit>>
        BY <2>4 DEF Dismiss, Leave, Return, ServerTurns, pageVars, serverVars
      <3> QED
        BY <2>1, <2>2, <3>1 DEF Alone, Current
    <2>5. CASE Evict
      <3>1. UNCHANGED <<link, listener>> /\ circuit # "lost" /\ circuit' \in {"kept", "lost"}
        BY <2>5 DEF Evict, pageVars
      <3> QED
        BY <2>1, <2>2, <3>1 DEF Alone, Current
    <2> QED
      BY <1>2, <2>3, <2>4, <2>5 DEF Environment, Runtime
  <1> QED
    BY <1>1, <1>2

\* On a page without a click, no answer is ever stale.
LEMMA NothingStale == Spec => []Unclicked
  <1>1. Init => Unclicked
    <2> SUFFICES ASSUME Init
                 PROVE  Unclicked
      OBVIOUS
    <2>1. Busy = {} /\ ~listener
      BY DEF Init, Busy
    <2> QED
      BY <2>1 DEF Unclicked, Alone
  <1>2. TypeOK /\ Unclicked /\ [Next]_vars => Unclicked'
    <2>1. ASSUME Unclicked, UNCHANGED vars
          PROVE  Unclicked'
      BY <2>1 DEF Unclicked, Alone, Current, Busy, vars, pageVars, callVars, serverVars
    <2> QED
      BY <2>1, UnclickedStart, UnclickedAnswer, UnclickedAct, UnclickedEnvironment
         DEF Next, Environment
  <1> QED
    BY <1>1, <1>2, TypeCorrect, PTL DEF Spec

\* No page is reloaded while the server still has its session, unless its user clicked.
THEOREM SessionsKept == Spec => SessionKept
  <1>1. TypeOK /\ Unclicked /\ [Next]_vars
           => [link # "loading" /\ link' = "loading" /\ circuit # "lost" => clicks > 0]_vars
    <2> SUFFICES ASSUME TypeOK, Unclicked, Next,
                        link # "loading", link' = "loading", circuit # "lost"
                 PROVE  clicks > 0
      OBVIOUS
    <2>1. ASSUME Environment
          PROVE  FALSE
      BY <2>1 DEF Environment, Runtime, Drop, Pause, Regain, GiveUp, Reject, Load,
                  Dismiss, Leave, Return, ServerTurns, Evict
    <2>2. ASSUME NEW a \in Attempt, Start(a) \/ Answer(a)
          PROVE  FALSE
      BY <2>2 DEF Start, ClickRetry, ReturnAndRetry, ClickResume,
                  Answer, ReconnectTrue, Refuse, Restore, Decline, Unreached
    <2>3. ASSUME NEW a \in Attempt, Act(a)
          PROVE  clicks > 0
      <3>1. RetryReload(a) \/ ResumeReload(a)
        BY <2>3 DEF Act, ReconnectFalse, RetryResumed, RetryThrows, ResumeTrue, ResumeThrows
      <3>2. a \in Busy /\ ~Current(a)
        BY <3>1 DEF RetryReload, ResumeReload, Busy, Current
      <3>3. clicks # 0 /\ clicks \in 0 .. MaxClicks
        BY <3>2 DEF Unclicked, TypeOK
      <3> QED
        BY <3>3, ClicksAssumption
    <2> QED
      BY <2>1, <2>2, <2>3 DEF Next, Environment
  <1> QED
    BY <1>1, TypeCorrect, NothingStale, PTL DEF Spec, SessionKept

=============================================================================
